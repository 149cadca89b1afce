----------------------------- MODULE AsyncioLock -----------------------------
(***************************************************************************)
(* asyncio.Lock as the server uses it (websocket/handler.py,               *)
(* transcription/processor.py): first come, first served, so that a lock   *)
(* is the sequence of its holder and its waiters.                          *)
(***************************************************************************)
EXTENDS Naturals, SequencesExt

HeldBy(lock, c) == lock # <<>> /\ Head(lock) = c

\* A task that releases the lock or is cancelled while it waits leaves it.
Place(lock, c) == CHOOSE i \in 1..Len(lock) : lock[i] = c
Leave(lock, c) ==
    IF \E i \in 1..Len(lock) : lock[i] = c THEN RemoveAt(lock, Place(lock, c)) ELSE lock
===============================================================================
