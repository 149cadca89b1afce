---------------------------- MODULE ClipboardPaste ----------------------------
(***************************************************************************)
(* Pasting through the clipboard (main/services/clipboard.ts).  A paste    *)
(* that restores snapshots the clipboard, writes its text, pastes, and     *)
(* later puts the snapshot back; pastes that follow before that share the  *)
(* first one's snapshot.  Pastes, copies and restorations run one at a     *)
(* time in pasteCriticalSection, in order; requests, the user's own        *)
(* copies and the restore timer interleave with their awaits.              *)
(*                                                                         *)
(* The clipboard's content stands for its signature.  Clipboard reads may  *)
(* fail before a paste has written; other reads, and writes, succeed.      *)
(***************************************************************************)
EXTENDS Integers, Sequences

CONSTANTS MaxRequests,  \* bound: pastes and copies
          MaxUserCopies \* bound: changes of the clipboard by other programs

ASSUME ConstantsAssumption == MaxRequests \in Nat /\ MaxUserCopies \in Nat

VARIABLES
    clip,       \* the system clipboard
    requests,   \* kinds of the requests made; the n-th has generation n
    queue,      \* pasteCriticalSection
    pc,         \* what the first job of the queue awaits
    local,      \* its `sequence` and `baselineSnapshot`
    active,     \* activePasteSequence
    kept,       \* what the clipboard should hold once all is restored (a history)
    userCopies,
    raced       \* the user copied between a job's read and its write (a history)

vars == <<clip, requests, queue, pc, local, active, kept, userCopies, raced>>

Text(n) == <<"eve", n>>
UserContent(n) == <<"user", n>>

NoSequence == [id |-> 0]
NoTimer == [generation |-> 0]
NoLocal == [sequence |-> 0]

Init ==
    /\ clip = UserContent(0) /\ kept = clip
    /\ requests = <<>> /\ queue = <<>>
    /\ pc = "start" /\ local = NoLocal /\ active = NoSequence
    /\ userCopies = 0 /\ raced = FALSE

Latest == Len(requests)
Job == Head(queue)
Restores == requests[Job.generation] = "restore"
Superseded == Job.generation # Latest

\* pasteText or copyToClipboard is called.
Request(kind) ==
    /\ Latest < MaxRequests
    /\ requests' = Append(requests, kind)
    /\ queue' = Append(queue, [kind |-> kind, generation |-> Latest + 1])
    /\ UNCHANGED <<clip, pc, local, active, kept, userCopies, raced>>

UserCopy ==
    /\ userCopies < MaxUserCopies /\ userCopies' = userCopies + 1
    /\ clip' = UserContent(userCopies') /\ kept' = clip'
    /\ raced' = (raced \/ pc \in {"write", "restore"})
    /\ UNCHANGED <<requests, queue, pc, local, active>>

-----------------------------------------------------------------------------
(* The jobs.                                                                *)

NeverOwns == FALSE
\* The clipboard still holds what the active sequence wrote.
Owns == active # NoSequence /\ active.owned = clip

At(place) == queue # <<>> /\ pc = place
Await(place) == pc' = place /\ UNCHANGED queue
Done == pc' = "start" /\ queue' = Tail(queue) /\ local' = NoLocal
Discard == active' = NoSequence

NoSignature == <<"null", 0>>
\* clipboardOwnershipSignature ?? sequence.ownedSignature
Signature == active.owned

OwnSequence == local.sequence
\* A paste that failed before it had a sequence looks after the active one.
FinalSequence == IF local.sequence = 0 THEN active.id ELSE local.sequence

\* The finally block of pasteText: the latest paste schedules the restoration.
Finally ==
    /\ active' = IF Restores /\ ~Superseded /\ active # NoSequence /\ FinalSequence = active.id
                 THEN [active EXCEPT !.timer = [generation |-> Job.generation,
                                                signature |-> Signature]]
                 ELSE active
    /\ Done

JobUnchanged == UNCHANGED <<requests, userCopies, raced>>

StartPaste ==
    /\ At("start") /\ Job.kind \in {"restore", "plain"}
    /\ \/ Superseded /\ Done /\ UNCHANGED active
       \/ /\ ~Superseded /\ Restores
          /\ Await("snapshot") /\ UNCHANGED <<local, active>>
       \/ /\ ~Superseded /\ ~Restores
          /\ Discard /\ Await("write") /\ UNCHANGED local
    /\ UNCHANGED <<clip, kept>> /\ JobUnchanged

\* beginPasteOperation; the paste is given up if it was superseded meanwhile.
Snapshot ==
    /\ At("snapshot")
    /\ active' = IF Owns THEN [active EXCEPT !.timer = NoTimer] ELSE NoSequence
    /\ IF Superseded THEN Done
       ELSE /\ local' = [sequence |-> active'.id,
                         baseline |-> IF Owns THEN active.baseline ELSE clip]
            /\ Await("write")
    /\ UNCHANGED <<clip, kept>> /\ JobUnchanged

SnapshotFails ==
    /\ At("snapshot") /\ Finally
    /\ UNCHANGED <<clip, kept>> /\ JobUnchanged

Write ==
    /\ At("write")
    /\ clip' = Text(Job.generation)
    /\ kept' = IF Restores THEN kept ELSE clip'
    /\ Await("verify")
    /\ UNCHANGED <<local, active>> /\ JobUnchanged

\* Whether or not it was superseded, a paste that wrote has a sequence.
Verify ==
    /\ At("verify")
    /\ IF clip # Text(Job.generation)
       THEN /\ active' = IF local.sequence = active.id THEN NoSequence ELSE active
            /\ Done
       ELSE /\ active' = IF ~Restores THEN active
                         ELSE IF local.sequence = 0
                         THEN [id |-> Job.generation, baseline |-> local.baseline,
                               owned |-> clip, timer |-> NoTimer]
                         ELSE [active EXCEPT !.owned = clip]
            /\ IF Superseded THEN Done
               ELSE local' = [local EXCEPT !.sequence = active'.id] /\ Await("settle")
    /\ UNCHANGED <<clip, kept>> /\ JobUnchanged

\* The focus delay is over: the last look at the clipboard before the keystroke.
Settle ==
    /\ At("settle")
    /\ \/ Superseded /\ Done /\ UNCHANGED active
       \/ /\ ~Superseded /\ clip # Text(Job.generation)
          /\ active' = IF local.sequence = active.id THEN NoSequence ELSE active
          /\ Done
       \/ /\ ~Superseded /\ clip = Text(Job.generation)
          /\ Await("paste") /\ UNCHANGED <<local, active>>
    /\ UNCHANGED <<clip, kept>> /\ JobUnchanged

\* simulatePaste succeeds or fails; a failed last read ends the same way.
Paste ==
    /\ At("paste") /\ Finally
    /\ UNCHANGED <<clip, kept>> /\ JobUnchanged

Copy ==
    /\ At("start") /\ Job.kind = "copy"
    /\ Discard /\ Await("write copy") /\ UNCHANGED <<clip, kept, local>> /\ JobUnchanged

WriteCopy ==
    /\ At("write copy")
    /\ clip' = Text(Job.generation) /\ kept' = clip'
    /\ Done
    /\ UNCHANGED active /\ JobUnchanged

\* The restore timer of the active sequence; any other has been cleared.
TimerFires ==
    /\ active # NoSequence /\ active.timer # NoTimer
    /\ active' = [active EXCEPT !.timer = NoTimer]
    /\ queue' = IF active.timer.generation = Latest
                THEN Append(queue, [kind |-> "restoration", sequence |-> active.id,
                                    generation |-> Latest, signature |-> active.timer.signature])
                ELSE queue
    /\ UNCHANGED <<clip, pc, local, kept>> /\ JobUnchanged

StillWanted == active.id = Job.sequence /\ ~Superseded

StartRestore ==
    /\ At("start") /\ Job.kind = "restoration"
    /\ IF StillWanted THEN Await("check") /\ UNCHANGED local ELSE Done
    /\ UNCHANGED <<clip, kept, active>> /\ JobUnchanged

CheckRestore ==
    /\ At("check")
    /\ \/ ~StillWanted /\ Done /\ UNCHANGED active
       \/ StillWanted /\ clip # Job.signature /\ Discard /\ Done
       \/ /\ StillWanted /\ clip = Job.signature
          /\ Await("restore") /\ UNCHANGED <<local, active>>
    /\ UNCHANGED <<clip, kept>> /\ JobUnchanged

Restore ==
    /\ At("restore")
    /\ clip' = active.baseline
    /\ Discard /\ Done
    /\ UNCHANGED kept /\ JobUnchanged

-----------------------------------------------------------------------------
JobStep == \/ StartPaste \/ Snapshot \/ SnapshotFails \/ Write \/ Verify \/ Settle \/ Paste
           \/ Copy \/ WriteCopy \/ StartRestore \/ CheckRestore \/ Restore

Next == \/ \E kind \in {"restore", "plain", "copy"} : Request(kind)
        \/ UserCopy \/ TimerFires \/ JobStep

\* Clipboard operations and timers of the event loop complete.
Spec == Init /\ [][Next]_vars /\ WF_vars(JobStep) /\ WF_vars(TimerFires)

-----------------------------------------------------------------------------
Contents == {Text(n) : n \in 1..MaxRequests} \cup {UserContent(n) : n \in 0..MaxUserCopies}
Timers == {NoTimer} \cup [generation : 1..MaxRequests, signature : Contents]
ActiveSequences == [id : 1..MaxRequests, baseline : Contents, owned : Contents, timer : Timers]
RequestJobs == [kind : {"restore", "plain", "copy"}, generation : 1..MaxRequests]
RestorationJobs == [kind : {"restoration"}, sequence : 1..MaxRequests,
                    generation : 1..MaxRequests, signature : Contents]

(* Type correctness of the clipboard, the queue and the active sequence.    *)
TypeOK ==
    /\ clip \in Contents /\ kept \in Contents
    /\ requests \in Seq({"restore", "plain", "copy"})
    /\ queue \in Seq(RequestJobs \cup RestorationJobs)
    /\ pc \in {"start", "snapshot", "write", "verify", "settle", "paste", "write copy",
               "check", "restore"}
    /\ local \in {NoLocal} \cup [sequence : 0..MaxRequests, baseline : Contents]
    /\ active \in {NoSequence} \cup ActiveSequences
    /\ userCopies \in 0..MaxUserCopies /\ raced \in BOOLEAN

(* A restoration puts back what the user, or a copy meant to stay, last left *)
(* on the clipboard before the pastes it ends, never a dictated text that  *)
(* one of them wrote there, unless the user copied within a read and write *)
(* that the code cannot make one.                                          *)
RestoresWhatWasThere == [][At("restore") /\ pc' = "start" => raced' \/ clip' = kept]_vars

(* However pastes supersede each other, and fail, the clipboard in the end   *)
(* holds again what it held before them.                                   *)
ClipboardComesBack == <>[](clip = kept \/ raced)
===============================================================================
