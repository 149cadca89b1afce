------------------------- MODULE ClipboardPaste_proofs -------------------------
(* Theorems about ClipboardPaste, for every number of pastes and copies and  *)
(* every number of changes by other programs.                                *)
EXTENDS ClipboardPaste, SequenceTheorems, TLAPS

Jobs == RequestJobs \cup RestorationJobs
Pasting == {"write", "verify", "settle", "paste"}
Restoration(i) == queue[i].kind = "restoration"

\* Requests are queued in the order in which they were made, and a restoration
\* that the latest request scheduled has no request behind or before it.
QueueInv ==
    /\ \A i \in 1..Len(queue) :
           /\ queue[i].generation <= Latest
           /\ ~Restoration(i) => queue[i].kind = requests[queue[i].generation]
    /\ \A i, j \in 1..Len(queue) :
           i < j /\ ~Restoration(i) /\ ~Restoration(j)
               => queue[i].generation < queue[j].generation
    /\ \A i, j \in 1..Len(queue) :
           Restoration(i) /\ queue[i].generation = Latest => Restoration(j)

\* Which job awaits where, and with which locals.
PlaceInv ==
    /\ Latest <= MaxRequests
    /\ pc # "start" => queue # <<>>
    /\ pc \in Pasting => Job.kind \in {"restore", "plain"}
    /\ pc = "snapshot" => Job.kind = "restore"
    /\ pc = "write copy" => Job.kind = "copy"
    /\ pc \in {"check", "restore"} => Job.kind = "restoration"
    /\ pc \in Pasting /\ Job.kind = "restore" => local # NoLocal
    /\ pc \in Pasting /\ Job.kind = "plain" => local = NoLocal
    /\ pc \notin Pasting => local = NoLocal

\* A restore timer is that of the text its sequence last wrote.
TimerInv ==
    active # NoSequence /\ active.timer # NoTimer =>
        /\ active.timer.generation <= Latest
        /\ active.timer.signature = active.owned
        /\ active.timer.generation = Latest => \A i \in 1..Len(queue) : Restoration(i)

\* So is the restoration it queues, until another paste is requested.
SignatureInv ==
    active # NoSequence =>
        \A i \in 1..Len(queue) :
            Restoration(i) /\ queue[i].generation = Latest /\ queue[i].sequence = active.id
                => queue[i].signature = active.owned

\* Only a paste that restores keeps a sequence alive, the one it snapshot.
SequenceInv ==
    /\ active # NoSequence => \E n \in 1..MaxRequests : active.owned = Text(n)
    /\ pc \in Pasting /\ Job.kind = "plain" => active = NoSequence
    /\ pc = "write copy" => active = NoSequence
    /\ pc \in {"write", "verify"} /\ Job.kind = "restore" =>
          /\ local.sequence = active.id
          /\ active # NoSequence => active.timer = NoTimer /\ active.baseline = local.baseline
    /\ pc = "settle" /\ active # NoSequence => active.owned = Text(Job.generation)
    /\ pc = "restore" => active # NoSequence

\* A dictated text is on the clipboard only while a sequence, or a paste
\* about to found one, knows what was there before it.
Clean ==
    /\ active # NoSequence /\ active.owned = clip => active.baseline = kept
    /\ clip # kept => \/ active # NoSequence /\ active.owned = clip
                      \/ pc = "verify" /\ Job.kind = "restore" /\ clip = Text(Job.generation)
                      \/ pc = "write" /\ Job.kind = "plain"
                      \/ pc = "write copy"
    /\ pc = "write" /\ Job.kind = "restore" => local.baseline = kept
    /\ pc = "verify" /\ Job.kind = "restore" /\ clip = Text(Job.generation)
           => local.baseline = kept
    /\ pc = "verify" /\ clip # Text(Job.generation) => clip = kept
    /\ pc = "restore" => active.baseline = kept
BaselineInv == ~raced => Clean

Shape == QueueInv /\ PlaceInv
Holdings == TimerInv /\ SignatureInv /\ SequenceInv /\ BaselineInv
IInv == TypeOK /\ Shape /\ Holdings

-----------------------------------------------------------------------------
(* Lemmas on the contents, the sequences and the queue.                      *)

LEMMA ContentsFacts ==
    /\ \A n \in 1..MaxRequests : Text(n) \in Contents
    /\ \A n \in 0..MaxUserCopies : UserContent(n) \in Contents
    /\ \A m, n \in Nat : Text(m) # UserContent(n)
BY DEF Contents, Text, UserContent

LEMMA SequenceFacts ==
    ASSUME NEW a \in {NoSequence} \cup ActiveSequences
    PROVE  /\ a # NoSequence <=> a \in ActiveSequences
           /\ a # NoSequence <=> a.id # 0
           /\ a # NoSequence => /\ a.id \in 1..MaxRequests /\ a.baseline \in Contents
                                /\ a.owned \in Contents /\ a.timer \in Timers
<1>1. ASSUME a \in ActiveSequences
      PROVE  /\ a.id \in 1..MaxRequests /\ a.baseline \in Contents
             /\ a.owned \in Contents /\ a.timer \in Timers
  BY <1>1 DEF ActiveSequences
<1>2. NoSequence.id = 0
  BY DEF NoSequence
<1>3. \A i \in 1..MaxRequests : i # 0
  OBVIOUS
<1> QED
  BY <1>1, <1>2, <1>3

LEMMA TimerFacts ==
    ASSUME NEW t \in Timers, t # NoTimer
    PROVE  t.generation \in 1..MaxRequests /\ t.signature \in Contents
BY DEF Timers

LEMMA WithTimer ==
    ASSUME NEW a \in ActiveSequences, NEW t \in Timers
    PROVE  /\ [a EXCEPT !.timer = t] \in ActiveSequences
           /\ [a EXCEPT !.timer = t].id = a.id
           /\ [a EXCEPT !.timer = t].baseline = a.baseline
           /\ [a EXCEPT !.timer = t].owned = a.owned
           /\ [a EXCEPT !.timer = t].timer = t
BY DEF ActiveSequences

LEMMA WithOwned ==
    ASSUME NEW a \in ActiveSequences, NEW c \in Contents
    PROVE  /\ [a EXCEPT !.owned = c] \in ActiveSequences
           /\ [a EXCEPT !.owned = c].id = a.id
           /\ [a EXCEPT !.owned = c].baseline = a.baseline
           /\ [a EXCEPT !.owned = c].owned = c
           /\ [a EXCEPT !.owned = c].timer = a.timer
BY DEF ActiveSequences

LEMMA JobFields ==
    ASSUME NEW j \in Jobs
    PROVE  /\ j.generation \in 1..MaxRequests
           /\ j.kind \in {"restore", "plain", "copy", "restoration"}
           /\ j.kind # "restoration" => j \in RequestJobs
           /\ j.kind = "restoration" => /\ j.sequence \in 1..MaxRequests
                                        /\ j.signature \in Contents
BY DEF Jobs, RequestJobs, RestorationJobs

\* What the type invariant says, in the terms of these lemmas.
LEMMA Facts ==
    ASSUME IInv
    PROVE  /\ queue \in Seq(Jobs) /\ Len(queue) \in Nat
           /\ requests \in Seq({"restore", "plain", "copy"})
           /\ Latest \in Nat /\ Latest <= MaxRequests
           /\ \A i \in 1..Len(queue) : queue[i] \in Jobs
           /\ active \in {NoSequence} \cup ActiveSequences
           /\ clip \in Contents /\ kept \in Contents /\ MaxRequests \in Nat
<1>1. queue \in Seq(Jobs) /\ requests \in Seq({"restore", "plain", "copy"})
  BY DEF IInv, TypeOK, Jobs
<1>2. Len(queue) \in Nat /\ Latest \in Nat /\ \A i \in 1..Len(queue) : queue[i] \in Jobs
  BY <1>1 DEF Latest
<1>3. Latest <= MaxRequests
  BY DEF IInv, Shape, PlaceInv
<1> QED
  BY <1>1, <1>2, <1>3, ConstantsAssumption DEF IInv, TypeOK

\* The job at the head of the queue.
LEMMA HeadFacts ==
    ASSUME IInv, queue # <<>>
    PROVE  /\ Job = queue[1] /\ Job \in Jobs /\ 1 \in 1..Len(queue)
           /\ Job.generation \in 1..MaxRequests /\ Job.generation <= Latest
           /\ Job.kind # "restoration" => /\ Job.kind = requests[Job.generation]
                                          /\ Restores <=> Job.kind = "restore"
           /\ Job.kind \in {"restore", "plain", "copy", "restoration"}
<1>1. queue \in Seq(Jobs) /\ Len(queue) \in Nat /\ \A i \in 1..Len(queue) : queue[i] \in Jobs
  BY Facts
<1>2. 1 \in 1..Len(queue) /\ Job = queue[1]
  BY <1>1 DEF Job
<1>3. Job \in Jobs
  BY <1>1, <1>2
<1>4. Job.generation \in 1..MaxRequests /\ Job.kind \in {"restore", "plain", "copy", "restoration"}
  BY <1>3, JobFields
<1>5. Job.generation <= Latest /\ (Job.kind # "restoration" => Job.kind = requests[Job.generation])
  BY <1>2 DEF IInv, Shape, QueueInv, Restoration
<1> QED
  BY <1>2, <1>3, <1>4, <1>5 DEF Restores

LEMMA TailFacts ==
    ASSUME IInv, queue # <<>>
    PROVE  /\ Tail(queue) \in Seq(Jobs) /\ Len(Tail(queue)) = Len(queue) - 1
           /\ \A i \in 1..Len(Tail(queue)) : Tail(queue)[i] = queue[i + 1] /\ i + 1 \in 1..Len(queue)
<1>1. queue \in Seq(Jobs) /\ Len(queue) \in Nat
  BY Facts
<1>2. /\ Tail(queue) \in Seq(Jobs) /\ Len(Tail(queue)) = Len(queue) - 1
      /\ \A i \in 1..(Len(queue) - 1) : Tail(queue)[i] = queue[i + 1]
  BY <1>1, HeadTailProperties
<1> QED
  BY <1>1, <1>2

LEMMA AppendFacts ==
    ASSUME IInv, NEW j \in Jobs
    PROVE  /\ Append(queue, j) \in Seq(Jobs) /\ Len(Append(queue, j)) = Len(queue) + 1
           /\ \A i \in 1..Len(queue) : Append(queue, j)[i] = queue[i]
           /\ Append(queue, j)[Len(queue) + 1] = j
           /\ Append(queue, j) # <<>>
           /\ queue # <<>> => Head(Append(queue, j)) = Job
<1>1. queue \in Seq(Jobs) /\ Len(queue) \in Nat
  BY Facts
<1>2. /\ Append(queue, j) \in Seq(Jobs) /\ Len(Append(queue, j)) = Len(queue) + 1
      /\ \A i \in 1..Len(queue) : Append(queue, j)[i] = queue[i]
      /\ Append(queue, j)[Len(queue) + 1] = j
  BY <1>1, AppendProperties
<1>3. Append(queue, j) # <<>>
  BY <1>1, <1>2
<1>4. ASSUME queue # <<>> PROVE Head(Append(queue, j)) = Job
  <2>1. 1 \in 1..Len(queue)
    BY <1>1, <1>4
  <2> QED
    BY <1>1, <1>2, <2>1 DEF Job
<1> QED
  BY <1>2, <1>3, <1>4

-----------------------------------------------------------------------------
(* What all jobs' steps have in common.                                      *)

LEMMA JobWaits ==
    ASSUME IInv, UNCHANGED <<queue, requests>>
    PROVE  QueueInv' /\ Job' = Job /\ Latest' = Latest /\ Latest' <= MaxRequests
<1>1. Job' = Job /\ Latest' = Latest
  BY DEF Job, Latest
<1>2. QueueInv'
  BY <1>1 DEF IInv, Shape, QueueInv, Restoration
<1> QED
  BY <1>1, <1>2, Facts

LEMMA JobDone ==
    ASSUME IInv, queue # <<>>, Done, requests' = requests
    PROVE  /\ Shape' /\ Latest' = Latest /\ pc' = "start" /\ local' = NoLocal
           /\ queue' \in Seq(Jobs)
           /\ \A i \in 1..Len(queue') : queue'[i] = queue[i + 1] /\ i + 1 \in 1..Len(queue)
<1>1. /\ queue' \in Seq(Jobs) /\ Len(queue') = Len(queue) - 1
      /\ \A i \in 1..Len(queue') : queue'[i] = queue[i + 1] /\ i + 1 \in 1..Len(queue)
  BY TailFacts DEF Done
<1>2. Latest' = Latest /\ pc' = "start" /\ local' = NoLocal
  BY DEF Latest, Done
<1>3. /\ \A i \in 1..Len(queue') : Restoration(i)' <=> Restoration(i + 1)
      /\ \A i, j \in 1..Len(queue') : i < j <=> i + 1 < j + 1
  BY <1>1 DEF Restoration
<1>4. QueueInv'
  <2>1. ASSUME NEW i \in 1..Len(queue')
        PROVE  /\ queue'[i].generation <= Latest'
               /\ ~Restoration(i)' => queue'[i].kind = requests'[queue'[i].generation]
    BY <1>1, <1>2, <1>3, <2>1 DEF IInv, Shape, QueueInv
  <2>2. ASSUME NEW i \in 1..Len(queue'), NEW j \in 1..Len(queue'), i < j,
               ~Restoration(i)', ~Restoration(j)'
        PROVE  queue'[i].generation < queue'[j].generation
    BY <1>1, <1>3, <2>2 DEF IInv, Shape, QueueInv
  <2>3. ASSUME NEW i \in 1..Len(queue'), NEW j \in 1..Len(queue'),
               Restoration(i)', queue'[i].generation = Latest'
        PROVE  Restoration(j)'
    BY <1>1, <1>2, <1>3, <2>3 DEF IInv, Shape, QueueInv
  <2> QED
    BY <2>1, <2>2, <2>3 DEF QueueInv
<1>5. PlaceInv'
  BY <1>2, Facts DEF PlaceInv, Pasting
<1> QED
  BY <1>1, <1>2, <1>4, <1>5 DEF Shape

\* A request at the head of the queue rules out a restoration of the latest one.
LEMMA NoneLatest ==
    ASSUME IInv, queue # <<>>, Job.kind # "restoration"
    PROVE  \A i \in 1..Len(queue) : Restoration(i) => queue[i].generation # Latest
<1>1. 1 \in 1..Len(queue) /\ ~Restoration(1)
  BY HeadFacts DEF Restoration
<1> QED
  BY <1>1 DEF IInv, Shape, QueueInv

LEMMA Undisturbed ==
    ASSUME IInv, ~raced, clip # kept, pc \notin {"write", "verify", "write copy"}
    PROVE  active # NoSequence /\ active.owned = clip
BY DEF IInv, Holdings, BaselineInv, Clean

\* The active sequence is gone, or as it was but for its timer.
Same ==
    active' # NoSequence =>
        /\ active # NoSequence /\ active'.id = active.id
        /\ active'.baseline = active.baseline /\ active'.owned = active.owned

LEMMA SignatureDone ==
    ASSUME IInv, queue # <<>>, Done, requests' = requests,
           Job.kind # "restoration" \/ Same
    PROVE  SignatureInv'
<1>1. /\ Latest' = Latest
      /\ \A i \in 1..Len(queue') : queue'[i] = queue[i + 1] /\ i + 1 \in 1..Len(queue)
  BY JobDone
<1>2. CASE Job.kind # "restoration"
  BY <1>1, <1>2, NoneLatest DEF SignatureInv, Restoration
<1>3. CASE Same
  BY <1>1, <1>3 DEF Same, IInv, Holdings, SignatureInv, Restoration
<1> QED
  BY <1>2, <1>3

LEMMA SignatureWaits ==
    ASSUME IInv, UNCHANGED <<queue, requests>>,
           (queue # <<>> /\ Job.kind # "restoration") \/ Same
    PROVE  SignatureInv'
<1>1. Latest' = Latest
  BY DEF Latest
<1>2. CASE queue # <<>> /\ Job.kind # "restoration"
  BY <1>1, <1>2, NoneLatest DEF SignatureInv, Restoration
<1>3. CASE Same
  BY <1>1, <1>3 DEF Same, IInv, Holdings, SignatureInv, Restoration
<1> QED
  BY <1>2, <1>3

LEMMA TimerDone ==
    ASSUME IInv, queue # <<>>, Done, requests' = requests, active' \in {NoSequence, active}
    PROVE  TimerInv'
<1>1. /\ Latest' = Latest
      /\ \A i \in 1..Len(queue') : queue'[i] = queue[i + 1] /\ i + 1 \in 1..Len(queue)
  BY JobDone
<1> QED
  BY <1>1 DEF IInv, Holdings, TimerInv, Restoration

LEMMA TimerWaits ==
    ASSUME IInv, UNCHANGED <<queue, requests>>, active' \in {NoSequence, active}
    PROVE  TimerInv'
<1>1. Latest' = Latest
  BY DEF Latest
<1> QED
  BY <1>1 DEF IInv, Holdings, TimerInv, Restoration

\* A job that ends without touching the clipboard, nor leaving a text of its
\* own on it.
LEMMA EndsQuietly ==
    ASSUME IInv, queue # <<>>, Done, JobUnchanged, UNCHANGED <<clip, kept>>, Same, TimerInv',
           active' \in {NoSequence} \cup ActiveSequences,
           ~raced /\ clip # kept => active' # NoSequence /\ active.owned = clip
    PROVE  IInv'
<1>1. /\ Shape' /\ Latest' = Latest /\ pc' = "start" /\ local' = NoLocal
      /\ queue' \in Seq(Jobs)
  BY JobDone DEF JobUnchanged
<1>2. TypeOK'
  BY <1>1 DEF IInv, TypeOK, JobUnchanged, Jobs
<1>3. SignatureInv'
  BY SignatureDone DEF JobUnchanged
<1>4. SequenceInv'
  BY <1>1 DEF IInv, Holdings, SequenceInv, Same, Pasting
<1>5. BaselineInv'
  <2> SUFFICES ASSUME ~raced PROVE Clean'
    BY DEF BaselineInv, JobUnchanged
  <2>1. Clean
    BY DEF IInv, Holdings, BaselineInv
  <2> QED
    BY <1>1, <2>1 DEF Clean, Same
<1> QED
  BY <1>1, <1>2, <1>3, <1>4, <1>5 DEF IInv, Holdings

\* A job that awaits something else with the same sequence.
LEMMA WaitsQuietly ==
    ASSUME IInv, queue # <<>>, NEW place, Await(place), JobUnchanged,
           UNCHANGED <<clip, kept, local, active>>,
           pc \notin {"write", "verify", "write copy"}, PlaceInv', SequenceInv',
           \/ place \in {"snapshot", "paste", "check"}
           \/ place = "restore" /\ active # NoSequence /\ active.owned = clip
    PROVE  IInv'
<1>1. /\ pc' = place /\ UNCHANGED <<queue, requests, userCopies, raced>>
      /\ QueueInv' /\ Job' = Job
  BY JobWaits DEF JobUnchanged, Await
<1>2. TypeOK'
  BY <1>1 DEF IInv, TypeOK
<1>3. TimerInv' /\ SignatureInv'
  BY <1>1, TimerWaits, SignatureWaits DEF Same
<1>4. BaselineInv'
  BY <1>1 DEF IInv, Holdings, BaselineInv, Clean
<1> QED
  BY <1>1, <1>2, <1>3, <1>4 DEF IInv, Holdings, Shape

-----------------------------------------------------------------------------
(* Each step preserves the invariant.                                        *)

LEMMA RequestStep ==
    ASSUME IInv, NEW kind \in {"restore", "plain", "copy"}, Request(kind)
    PROVE  IInv'
<1> DEFINE j == [kind |-> kind, generation |-> Latest + 1]
<1>1. Latest \in Nat /\ Latest < MaxRequests /\ MaxRequests \in Nat
  BY Facts DEF Request
<1>2. j \in Jobs /\ j.kind = kind /\ j.generation = Latest + 1 /\ j.kind # "restoration"
  BY <1>1 DEF Jobs, RequestJobs
<1>3. /\ requests' = Append(requests, kind) /\ queue' = Append(queue, j)
      /\ UNCHANGED <<clip, pc, local, active, kept, userCopies, raced>>
  BY DEF Request
<1> HIDE DEF j
<1>4. /\ queue' \in Seq(Jobs) /\ Len(queue') = Len(queue) + 1 /\ Len(queue) \in Nat
      /\ \A i \in 1..Len(queue) : queue'[i] = queue[i] /\ queue[i] \in Jobs
      /\ queue'[Len(queue) + 1] = j /\ queue' # <<>>
      /\ queue # <<>> => Job' = Job
  BY <1>2, <1>3, AppendFacts, Facts DEF Job
<1>5. /\ requests' \in Seq({"restore", "plain", "copy"}) /\ Latest' = Latest + 1
      /\ \A i \in 1..Latest : requests'[i] = requests[i]
      /\ requests'[Latest + 1] = kind
  BY <1>3, Facts DEF Latest
<1>6. \A i \in 1..Len(queue') : i = Len(queue) + 1 \/ i \in 1..Len(queue)
  BY <1>4
<1>7. \A i \in 1..Len(queue) :
          /\ queue'[i].generation \in 1..Latest
          /\ Restoration(i)' <=> Restoration(i)
          /\ ~Restoration(i) => queue[i].kind = requests'[queue[i].generation]
  <2> SUFFICES ASSUME NEW i \in 1..Len(queue)
               PROVE  /\ queue'[i].generation \in 1..Latest
                      /\ Restoration(i)' <=> Restoration(i)
                      /\ ~Restoration(i) => queue[i].kind = requests'[queue[i].generation]
    OBVIOUS
  <2>1. queue[i].generation \in 1..MaxRequests
    BY <1>4, JobFields
  <2>2. queue[i].generation <= Latest
        /\ (~Restoration(i) => queue[i].kind = requests[queue[i].generation])
    BY DEF IInv, Shape, QueueInv
  <2>3. queue[i].generation \in 1..Latest
    BY <1>1, <2>1, <2>2
  <2> QED
    BY <1>4, <1>5, <2>2, <2>3 DEF Restoration
<1>8. \A i \in 1..Len(queue') : i = Len(queue) + 1 => ~Restoration(i)'
  BY <1>2, <1>4 DEF Restoration
<1>9. \A i \in 1..Len(queue') : queue'[i].generation = Latest' => i = Len(queue) + 1
  BY <1>1, <1>5, <1>6, <1>7
<1>10. QueueInv'
  <2>1. ASSUME NEW i \in 1..Len(queue')
        PROVE  /\ queue'[i].generation <= Latest'
               /\ ~Restoration(i)' => queue'[i].kind = requests'[queue'[i].generation]
    <3>1. CASE i = Len(queue) + 1
      BY <1>1, <1>2, <1>4, <1>5, <3>1
    <3>2. CASE i \in 1..Len(queue)
      BY <1>1, <1>4, <1>5, <1>7, <3>2
    <3> QED
      BY <1>6, <3>1, <3>2
  <2>2. ASSUME NEW i \in 1..Len(queue'), NEW k \in 1..Len(queue'), i < k,
               ~Restoration(i)', ~Restoration(k)'
        PROVE  queue'[i].generation < queue'[k].generation
    <3>1. i \in 1..Len(queue)
      BY <1>4, <1>6, <2>2
    <3>2. CASE k = Len(queue) + 1
      BY <1>1, <1>2, <1>4, <1>7, <3>1, <3>2
    <3>3. CASE k \in 1..Len(queue)
      BY <1>4, <1>7, <2>2, <3>1, <3>3 DEF IInv, Shape, QueueInv
    <3> QED
      BY <1>6, <3>2, <3>3
  <2>3. ASSUME NEW i \in 1..Len(queue'), Restoration(i)', queue'[i].generation = Latest'
        PROVE  FALSE
    BY <1>8, <1>9, <2>3
  <2> QED
    BY <2>1, <2>2, <2>3 DEF QueueInv
<1>11. pc # "start" => queue # <<>>
  BY DEF IInv, Shape, PlaceInv
<1>12. PlaceInv'
  <2>1. Latest' <= MaxRequests /\ queue' # <<>>
    BY <1>1, <1>4, <1>5
  <2>2. CASE pc = "start"
    BY <1>3, <2>1, <2>2 DEF IInv, Shape, PlaceInv, Pasting
  <2>3. CASE pc # "start"
    <3>1. Job' = Job
      BY <1>4, <1>11, <2>3
    <3> QED
      BY <1>3, <2>1, <3>1 DEF IInv, Shape, PlaceInv, Pasting
  <2> QED
    BY <2>2, <2>3
<1>13. TypeOK'
  BY <1>3, <1>4, <1>5 DEF IInv, TypeOK, Jobs
<1>14. TimerInv'
  <2> SUFFICES ASSUME active # NoSequence, active.timer # NoTimer
               PROVE  /\ active.timer.generation <= Latest'
                      /\ active.timer.signature = active.owned
                      /\ active.timer.generation # Latest'
    BY <1>3 DEF TimerInv
  <2>1. active.timer.generation \in 1..MaxRequests
    BY Facts, SequenceFacts, TimerFacts
  <2> QED
    BY <1>1, <1>5, <2>1 DEF IInv, Holdings, TimerInv
<1>15. SignatureInv'
  BY <1>8, <1>9 DEF SignatureInv
<1>16. SequenceInv'
  BY <1>3, <1>4, <1>11 DEF IInv, Holdings, SequenceInv, Pasting
<1>17. BaselineInv'
  BY <1>3, <1>4, <1>11 DEF IInv, Holdings, BaselineInv, Clean
<1> QED
  BY <1>10, <1>12, <1>13, <1>14, <1>15, <1>16, <1>17 DEF IInv, Shape, Holdings

LEMMA UserCopyStep ==
    ASSUME IInv, UserCopy
    PROVE  IInv'
<1>1. /\ userCopies' \in 1..MaxUserCopies /\ clip' = UserContent(userCopies') /\ kept' = clip'
      /\ raced' = (raced \/ pc \in {"write", "restore"})
      /\ UNCHANGED <<requests, queue, pc, local, active>>
  <2>1. userCopies \in 0..MaxUserCopies
    BY DEF IInv, TypeOK
  <2>2. userCopies' \in 1..MaxUserCopies
    BY <2>1, ConstantsAssumption DEF UserCopy
  <2> QED
    BY <2>2 DEF UserCopy
<1>2. clip' \in Contents
  BY <1>1, ContentsFacts, ConstantsAssumption
<1>3. QueueInv' /\ Job' = Job /\ Latest' = Latest /\ Latest' <= MaxRequests
  BY <1>1, JobWaits
<1>4. PlaceInv'
  BY <1>1, <1>3 DEF IInv, Shape, PlaceInv
<1>5. TypeOK'
  <2>1. raced' \in BOOLEAN
    BY <1>1
  <2>2. userCopies' \in 0..MaxUserCopies
    BY <1>1, ConstantsAssumption
  <2> QED
    BY <1>1, <1>2, <2>1, <2>2 DEF IInv, TypeOK
<1>6. TimerInv' /\ SignatureInv'
  BY <1>1, TimerWaits, SignatureWaits DEF Same
<1>7. SequenceInv'
  BY <1>1, <1>3 DEF IInv, Holdings, SequenceInv
<1>8. \A n \in 1..MaxRequests : clip' # Text(n)
  BY <1>1 DEF Text, UserContent
<1>9. BaselineInv'
  <2> SUFFICES ASSUME ~raced' PROVE Clean'
    BY DEF BaselineInv
  <2>1. ~raced /\ pc \notin {"write", "restore"}
    BY <1>1
  <2>2. active # NoSequence => active.owned # clip'
    BY <1>8 DEF IInv, Holdings, SequenceInv
  <2>3. pc = "verify" => clip' # Text(Job.generation)
    BY <1>8, HeadFacts DEF IInv, Shape, PlaceInv
  <2> QED
    BY <1>1, <1>3, <2>1, <2>2, <2>3 DEF Clean
<1> QED
  BY <1>3, <1>4, <1>5, <1>6, <1>7, <1>9 DEF IInv, Shape, Holdings

LEMMA TimerFiresStep ==
    ASSUME IInv, TimerFires
    PROVE  IInv'
<1>1. /\ active # NoSequence /\ active.timer # NoTimer
      /\ active' = [active EXCEPT !.timer = NoTimer]
      /\ UNCHANGED <<clip, pc, local, kept, requests, userCopies, raced>>
  BY DEF TimerFires, JobUnchanged
<1>2. active \in ActiveSequences /\ active.id \in 1..MaxRequests /\ active.timer \in Timers
  BY <1>1, Facts, SequenceFacts
<1>3. /\ active' \in ActiveSequences /\ active'.id = active.id /\ active'.owned = active.owned
      /\ active'.baseline = active.baseline /\ active'.timer = NoTimer
  BY <1>1, <1>2, WithTimer DEF Timers
<1>4. active' # NoSequence
  BY <1>3, SequenceFacts
<1>5. active.timer.generation \in 1..MaxRequests /\ active.timer.signature \in Contents
  BY <1>1, <1>2, TimerFacts
<1>6. /\ active.timer.generation <= Latest /\ active.timer.signature = active.owned
      /\ active.timer.generation = Latest => \A i \in 1..Len(queue) : Restoration(i)
  BY <1>1 DEF IInv, Holdings, TimerInv
<1>7. Latest' = Latest
  BY <1>1 DEF Latest
<1>8. TimerInv'
  BY <1>3 DEF TimerInv
<1> DEFINE j == [kind |-> "restoration", sequence |-> active.id,
                 generation |-> Latest, signature |-> active.timer.signature]
<1>9. CASE active.timer.generation = Latest
  <2>1. j \in Jobs /\ j.kind = "restoration" /\ j.generation = Latest /\ j.signature = active.owned
    BY <1>2, <1>5, <1>6, <1>9 DEF Jobs, RestorationJobs
  <2>2. queue' = Append(queue, j)
    BY <1>9 DEF TimerFires
  <2> HIDE DEF j
  <2>3. /\ queue' \in Seq(Jobs) /\ Len(queue') = Len(queue) + 1 /\ Len(queue) \in Nat
        /\ \A i \in 1..Len(queue) : queue'[i] = queue[i]
        /\ queue'[Len(queue) + 1] = j /\ queue' # <<>>
        /\ queue # <<>> => Job' = Job
    BY <2>1, <2>2, AppendFacts, Facts DEF Job
  <2>4. \A i \in 1..Len(queue') : i = Len(queue) + 1 \/ i \in 1..Len(queue)
    BY <2>3
  <2>5. \A i \in 1..Len(queue') : Restoration(i)'
    BY <1>6, <1>9, <2>1, <2>3, <2>4 DEF Restoration
  <2>6. \A i \in 1..Len(queue') : queue'[i].generation <= Latest'
    BY <1>7, <2>1, <2>3, <2>4, Facts DEF IInv, Shape, QueueInv
  <2>7. QueueInv'
    BY <2>5, <2>6 DEF QueueInv
  <2>8. pc # "start" => queue # <<>>
    BY DEF IInv, Shape, PlaceInv
  <2>9. PlaceInv'
    BY <1>1, <1>7, <2>3, <2>8 DEF IInv, Shape, PlaceInv, Pasting
  <2>10. TypeOK'
    BY <1>1, <1>3, <2>3 DEF IInv, TypeOK, Jobs
  <2>11. SignatureInv'
    BY <1>1, <1>3, <1>7, <2>1, <2>3, <2>4 DEF IInv, Holdings, SignatureInv, Restoration
  <2>12. SequenceInv'
    BY <1>1, <1>3, <1>4, <2>3, <2>8 DEF IInv, Holdings, SequenceInv, Pasting
  <2>13. BaselineInv'
    BY <1>1, <1>3, <1>4, <2>3, <2>8 DEF IInv, Holdings, BaselineInv, Clean
  <2> QED
    BY <1>8, <2>7, <2>9, <2>10, <2>11, <2>12, <2>13 DEF IInv, Shape, Holdings
<1>10. CASE active.timer.generation # Latest
  <2>1. queue' = queue
    BY <1>10 DEF TimerFires
  <2>2. QueueInv' /\ Job' = Job /\ Latest' <= MaxRequests
    BY <1>1, <2>1, JobWaits
  <2>3. PlaceInv'
    BY <1>1, <2>1, <2>2 DEF IInv, Shape, PlaceInv
  <2>4. TypeOK'
    BY <1>1, <1>3, <2>1 DEF IInv, TypeOK
  <2>5. SignatureInv'
    BY <1>1, <1>3, <2>1, SignatureWaits DEF Same
  <2>6. SequenceInv'
    BY <1>1, <1>3, <1>4, <2>2 DEF IInv, Holdings, SequenceInv
  <2>7. BaselineInv'
    BY <1>1, <1>3, <1>4, <2>2 DEF IInv, Holdings, BaselineInv, Clean
  <2> QED
    BY <1>8, <2>2, <2>3, <2>4, <2>5, <2>6, <2>7 DEF IInv, Shape, Holdings
<1> QED
  BY <1>9, <1>10

LEMMA FinallyStep ==
    ASSUME IInv, At("snapshot") \/ At("paste"), Finally,
           UNCHANGED <<clip, kept>>, JobUnchanged
    PROVE  IInv'
<1>1. queue # <<>> /\ pc \in {"snapshot", "paste"} /\ Job.kind \in {"restore", "plain"} /\ Done
  BY DEF At, Finally, IInv, Shape, PlaceInv, Pasting
<1>2. active \in {NoSequence} \cup ActiveSequences
  BY Facts
<1>3. ~raced /\ clip # kept => active # NoSequence /\ active.owned = clip
  BY <1>1, Undisturbed
<1>4. CASE active' = active
  <2>1. TimerInv'
    BY <1>1, <1>4, TimerDone DEF JobUnchanged
  <2> QED
    BY <1>1, <1>2, <1>3, <1>4, <2>1, EndsQuietly DEF Same
<1>5. CASE active' # active
  <2> DEFINE t == [generation |-> Job.generation, signature |-> active.owned]
  <2>1. /\ ~Superseded /\ active # NoSequence
        /\ active' = [active EXCEPT !.timer = t]
    BY <1>5 DEF Finally, Signature
  <2>2. /\ active \in ActiveSequences /\ active.owned \in Contents
    BY <1>2, <2>1, SequenceFacts
  <2>3. t \in Timers /\ t.generation = Job.generation /\ t.signature = active.owned
    BY <1>1, <2>2, HeadFacts DEF Timers
  <2> HIDE DEF t
  <2>4. /\ active' \in ActiveSequences /\ active'.id = active.id /\ active'.owned = active.owned
        /\ active'.baseline = active.baseline /\ active'.timer = t
    BY <2>1, <2>2, <2>3, WithTimer
  <2>5. active' # NoSequence
    BY <2>4, SequenceFacts
  <2>6. /\ Latest' = Latest
        /\ \A i \in 1..Len(queue') : queue'[i] = queue[i + 1] /\ i + 1 \in 1..Len(queue)
    BY <1>1, JobDone DEF JobUnchanged
  <2>7. Job.generation = Latest /\ Job = queue[1] /\ Latest \in Nat /\ 1 \in 1..Len(queue)
    BY <1>1, <2>1, HeadFacts, Facts DEF Superseded
  <2>8. ASSUME NEW i \in 1..Len(queue') PROVE Restoration(i)'
    <3>1. 1 < i + 1 /\ i + 1 \in 1..Len(queue)
      BY <2>6
    <3>2. queue[i + 1].generation <= Latest /\ queue[i + 1].generation \in 1..MaxRequests
      BY <3>1, Facts, JobFields DEF IInv, Shape, QueueInv
    <3>3. ~Restoration(1)
      BY <1>1, <2>7 DEF Restoration
    <3>4. ~Restoration(i + 1) => queue[1].generation < queue[i + 1].generation
      BY <2>7, <3>1, <3>3 DEF IInv, Shape, QueueInv
    <3> QED
      BY <2>6, <2>7, <3>2, <3>4 DEF Restoration
  <2>9. TimerInv'
    BY <2>3, <2>4, <2>6, <2>7, <2>8 DEF TimerInv
  <2> QED
    BY <1>1, <1>3, <2>1, <2>4, <2>5, <2>9, EndsQuietly DEF Same
<1> QED
  BY <1>4, <1>5

LEMMA StartPasteStep ==
    ASSUME IInv, StartPaste
    PROVE  IInv'
<1>1. /\ queue # <<>> /\ pc = "start" /\ local = NoLocal /\ Job.kind \in {"restore", "plain"}
      /\ UNCHANGED <<clip, kept>> /\ JobUnchanged
  BY DEF StartPaste, At, IInv, Shape, PlaceInv, Pasting
<1>2. active \in {NoSequence} \cup ActiveSequences
  BY Facts
<1>3. CASE Done /\ UNCHANGED active
  <2>1. TimerInv'
    BY <1>1, <1>3, TimerDone DEF JobUnchanged
  <2>2. ~raced /\ clip # kept => active # NoSequence /\ active.owned = clip
    BY <1>1, Undisturbed
  <2> QED
    BY <1>1, <1>2, <1>3, <2>1, <2>2, EndsQuietly DEF Same
<1>4. CASE Restores /\ Await("snapshot") /\ UNCHANGED <<local, active>>
  <2>1. Job.kind = "restore"
    BY <1>1, <1>4, HeadFacts
  <2>2. pc' = "snapshot" /\ queue' = queue /\ Job' = Job /\ Latest' <= MaxRequests
    BY <1>1, <1>4, JobWaits DEF Await, JobUnchanged
  <2>3. PlaceInv'
    BY <1>1, <1>4, <2>1, <2>2 DEF PlaceInv, Pasting
  <2>4. SequenceInv'
    BY <1>4, <2>2 DEF IInv, Holdings, SequenceInv, Pasting
  <2> QED
    BY <1>1, <1>4, <2>3, <2>4, WaitsQuietly
<1>5. CASE ~Restores /\ Discard /\ Await("write") /\ UNCHANGED local
  <2>1. Job.kind = "plain"
    BY <1>1, <1>5, HeadFacts
  <2>2. /\ pc' = "write" /\ queue' = queue /\ active' = NoSequence
        /\ QueueInv' /\ Job' = Job /\ Latest' <= MaxRequests
    BY <1>1, <1>5, JobWaits DEF Await, Discard, JobUnchanged
  <2>3. PlaceInv'
    BY <1>1, <1>5, <2>1, <2>2 DEF PlaceInv, Pasting
  <2>4. TypeOK'
    BY <1>1, <1>5, <2>2 DEF IInv, TypeOK, JobUnchanged
  <2>5. TimerInv' /\ SignatureInv' /\ SequenceInv'
    BY <2>1, <2>2 DEF TimerInv, SignatureInv, SequenceInv, Pasting
  <2>6. BaselineInv'
    BY <2>1, <2>2 DEF BaselineInv, Clean
  <2> QED
    BY <2>2, <2>3, <2>4, <2>5, <2>6 DEF IInv, Shape, Holdings
<1> QED
  BY <1>3, <1>4, <1>5 DEF StartPaste

LEMMA SnapshotStep ==
    ASSUME IInv, Snapshot
    PROVE  IInv'
<1>1. /\ queue # <<>> /\ pc = "snapshot" /\ local = NoLocal /\ Job.kind = "restore"
      /\ UNCHANGED <<clip, kept>> /\ JobUnchanged
  BY DEF Snapshot, At, IInv, Shape, PlaceInv, Pasting
<1>2. active \in {NoSequence} \cup ActiveSequences
  BY Facts
<1>3. ~raced /\ clip # kept => active # NoSequence /\ active.owned = clip
  BY <1>1, Undisturbed
<1>4. Owns => /\ active' \in ActiveSequences /\ active' # NoSequence
              /\ active'.id = active.id /\ active'.baseline = active.baseline
              /\ active'.owned = active.owned /\ active'.timer = NoTimer
  <2> SUFFICES ASSUME Owns
               PROVE  /\ active' \in ActiveSequences
                      /\ active'.id = active.id /\ active'.baseline = active.baseline
                      /\ active'.owned = active.owned /\ active'.timer = NoTimer
    BY SequenceFacts
  <2>1. active \in ActiveSequences /\ active' = [active EXCEPT !.timer = NoTimer]
    BY <1>2 DEF Owns, Snapshot
  <2> QED
    BY <2>1, WithTimer DEF Timers
<1>5. ~Owns => active' = NoSequence
  BY DEF Snapshot
<1>6. active' \in {NoSequence} \cup ActiveSequences /\ Same
  BY <1>4, <1>5 DEF Same, Owns
<1>7. TimerInv'
  BY <1>4, <1>5 DEF TimerInv
<1>8. ~raced /\ clip # kept => active' # NoSequence /\ active.owned = clip
  BY <1>3, <1>4 DEF Owns
<1>9. CASE Superseded
  <2>1. Done
    BY <1>9 DEF Snapshot
  <2> QED
    BY <1>1, <1>6, <1>7, <1>8, <2>1, EndsQuietly
<1>10. CASE ~Superseded
  <2> DEFINE b == IF Owns THEN active.baseline ELSE clip
  <2>1. /\ local' = [sequence |-> active'.id, baseline |-> b] /\ Await("write")
    BY <1>10 DEF Snapshot
  <2>2. b \in Contents
    BY <1>2, Facts, SequenceFacts DEF Owns
  <2>3. active'.id \in 0..MaxRequests /\ (active' # NoSequence <=> active'.id # 0)
    BY <1>6, Facts, SequenceFacts DEF NoSequence
  <2>4. ~raced => b = kept
    BY <1>3 DEF IInv, Holdings, BaselineInv, Clean, Owns
  <2>5. active' # NoSequence => active'.baseline = b /\ active'.timer = NoTimer
    BY <1>4, <1>5
  <2> HIDE DEF b
  <2>6. /\ local' \in [sequence : 0..MaxRequests, baseline : Contents]
        /\ local'.sequence = active'.id /\ local'.baseline = b
    BY <2>1, <2>2, <2>3
  <2>7. local' # NoLocal
    BY <2>1 DEF NoLocal
  <2>8. pc' = "write" /\ queue' = queue /\ QueueInv' /\ Job' = Job /\ Latest' <= MaxRequests
    BY <1>1, <2>1, JobWaits DEF Await, JobUnchanged
  <2>9. PlaceInv'
    BY <1>1, <2>7, <2>8 DEF PlaceInv, Pasting
  <2>10. TypeOK'
    BY <1>1, <1>6, <2>6, <2>8 DEF IInv, TypeOK, JobUnchanged
  <2>11. SignatureInv'
    BY <1>1, <1>6, <2>8, SignatureWaits DEF JobUnchanged
  <2>12. SequenceInv'
    BY <1>1, <1>6, <2>5, <2>6, <2>8 DEF IInv, Holdings, SequenceInv, Pasting, Same
  <2>13. BaselineInv'
    <3> SUFFICES ASSUME ~raced PROVE Clean'
      BY <1>1 DEF BaselineInv, JobUnchanged
    <3> QED
      BY <1>1, <1>6, <1>8, <2>4, <2>5, <2>6, <2>8 DEF Clean, Same
  <2> QED
    BY <1>7, <2>8, <2>9, <2>10, <2>11, <2>12, <2>13 DEF IInv, Shape, Holdings
<1> QED
  BY <1>9, <1>10

LEMMA WriteStep ==
    ASSUME IInv, Write
    PROVE  IInv'
<1>1. /\ queue # <<>> /\ pc = "write" /\ Job.kind \in {"restore", "plain"}
      /\ clip' = Text(Job.generation) /\ kept' = (IF Restores THEN kept ELSE clip')
      /\ UNCHANGED <<local, active>> /\ JobUnchanged
  BY DEF Write, At, IInv, Shape, PlaceInv, Pasting
<1>2. Restores <=> Job.kind = "restore"
  BY <1>1, HeadFacts
<1>3. /\ pc' = "verify" /\ queue' = queue
      /\ QueueInv' /\ Job' = Job /\ Latest' <= MaxRequests
  BY JobWaits DEF Write, Await, JobUnchanged
<1>4. clip' \in Contents /\ kept' \in Contents
  BY <1>1, HeadFacts, ContentsFacts, Facts
<1>5. PlaceInv'
  BY <1>1, <1>3 DEF IInv, Shape, PlaceInv, Pasting
<1>6. TypeOK'
  BY <1>1, <1>3, <1>4 DEF IInv, TypeOK, JobUnchanged
<1>7. TimerInv' /\ SignatureInv'
  BY <1>1, <1>3, TimerWaits, SignatureWaits DEF JobUnchanged
<1>8. SequenceInv'
  BY <1>1, <1>3 DEF IInv, Holdings, SequenceInv, Pasting
<1>9. BaselineInv'
  <2> SUFFICES ASSUME ~raced PROVE Clean'
    BY <1>1 DEF BaselineInv, JobUnchanged
  <2>1. CASE Job.kind = "restore"
    <3>1. local.baseline = kept /\ kept' = kept
      BY <1>1, <1>2, <2>1 DEF IInv, Holdings, BaselineInv, Clean
    <3>2. active # NoSequence => active.baseline = local.baseline
      BY <1>1, <2>1 DEF IInv, Holdings, SequenceInv
    <3> QED
      BY <1>1, <1>3, <2>1, <3>1, <3>2 DEF Clean
  <2>2. CASE Job.kind = "plain"
    <3>1. active' = NoSequence
      BY <1>1, <2>2 DEF IInv, Holdings, SequenceInv, Pasting
    <3> QED
      BY <1>1, <1>2, <1>3, <2>2, <3>1 DEF Clean
  <2> QED
    BY <1>1, <2>1, <2>2
<1> QED
  BY <1>3, <1>5, <1>6, <1>7, <1>8, <1>9 DEF IInv, Shape, Holdings

\* After the write, the sequence of a paste that restores owns what it wrote,
\* and has the baseline of the paste's snapshot.
LEMMA OwnsWritten ==
    ASSUME IInv, Verify, Job.kind = "restore", clip = Text(Job.generation)
    PROVE  /\ active' \in ActiveSequences /\ active' # NoSequence
           /\ active'.owned = clip /\ active'.baseline = local.baseline
           /\ active'.timer = NoTimer /\ active'.id \in 1..MaxRequests
<1>1. queue # <<>> /\ pc = "verify" /\ local # NoLocal /\ local.sequence = active.id
  BY DEF Verify, At, IInv, Shape, PlaceInv, Holdings, SequenceInv, Pasting
<1>2. local \in [sequence : 0..MaxRequests, baseline : Contents]
  BY <1>1 DEF IInv, TypeOK
<1>3. Restores /\ Job.generation \in 1..MaxRequests /\ clip \in Contents
  BY <1>1, HeadFacts, Facts
<1>4. active \in {NoSequence} \cup ActiveSequences
  BY Facts
<1>5. CASE local.sequence = 0
  <2>1. active' = [id |-> Job.generation, baseline |-> local.baseline,
                   owned |-> clip, timer |-> NoTimer]
    BY <1>3, <1>5 DEF Verify
  <2>2. active' \in ActiveSequences
    BY <1>2, <1>3, <2>1 DEF ActiveSequences, Timers
  <2> QED
    BY <1>3, <2>1, <2>2, SequenceFacts
<1>6. CASE local.sequence # 0
  <2>1. active' = [active EXCEPT !.owned = clip]
    BY <1>3, <1>6 DEF Verify
  <2>2. active # NoSequence /\ active \in ActiveSequences
    BY <1>1, <1>4, <1>6, SequenceFacts
  <2>3. active.timer = NoTimer /\ active.baseline = local.baseline
    BY <1>1, <2>2 DEF IInv, Holdings, SequenceInv
  <2>4. /\ active' \in ActiveSequences /\ active'.id = active.id /\ active'.owned = clip
        /\ active'.baseline = active.baseline /\ active'.timer = active.timer
    BY <1>3, <2>1, <2>2, WithOwned
  <2> QED
    BY <2>3, <2>4, SequenceFacts
<1> QED
  BY <1>5, <1>6

LEMMA VerifyStep ==
    ASSUME IInv, Verify
    PROVE  IInv'
<1>1. /\ queue # <<>> /\ pc = "verify" /\ Job.kind \in {"restore", "plain"}
      /\ UNCHANGED <<clip, kept>> /\ JobUnchanged
  BY DEF Verify, At, IInv, Shape, PlaceInv, Pasting
<1>2. active \in {NoSequence} \cup ActiveSequences /\ (Restores <=> Job.kind = "restore")
  BY <1>1, Facts, HeadFacts
<1>3. CASE clip # Text(Job.generation)
  <2>1. Done /\ active' \in {NoSequence, active}
    BY <1>3 DEF Verify
  <2>2. active' # NoSequence => Job.kind = "plain"
    BY <1>1, <1>3 DEF Verify, IInv, Holdings, SequenceInv
  <2>3. Job.kind = "plain" => active = NoSequence
    BY <1>1 DEF IInv, Holdings, SequenceInv, Pasting
  <2>4. active' = NoSequence
    BY <2>1, <2>2, <2>3
  <2>5. ~raced => clip = kept
    BY <1>1, <1>3 DEF IInv, Holdings, BaselineInv, Clean
  <2>6. TimerInv'
    BY <2>4 DEF TimerInv
  <2> QED
    BY <1>1, <2>1, <2>4, <2>5, <2>6, EndsQuietly DEF Same
<1>4. CASE clip = Text(Job.generation) /\ Job.kind = "plain"
  <2>1. active = NoSequence /\ active' = active /\ local = NoLocal
    BY <1>1, <1>2, <1>4 DEF Verify, IInv, Shape, PlaceInv, Holdings, SequenceInv, Pasting
  <2>2. ~raced => clip = kept
    BY <1>1, <1>4, <2>1 DEF IInv, Holdings, BaselineInv, Clean
  <2>3. TimerInv'
    BY <2>1 DEF TimerInv
  <2>4. CASE Superseded
    <3>1. Done
      BY <1>4, <2>4 DEF Verify
    <3> QED
      BY <1>1, <1>2, <2>1, <2>2, <2>3, <3>1, EndsQuietly DEF Same
  <2>5. CASE ~Superseded
    <3>1. local' = [local EXCEPT !.sequence = active'.id] /\ Await("settle")
      BY <1>4, <2>5 DEF Verify
    <3>2. local' = NoLocal
      BY <2>1, <3>1 DEF NoLocal, NoSequence
    <3>3. pc' = "settle" /\ queue' = queue /\ QueueInv' /\ Job' = Job /\ Latest' <= MaxRequests
      BY <1>1, <3>1, JobWaits DEF Await, JobUnchanged
    <3>4. PlaceInv'
      BY <1>1, <1>4, <3>2, <3>3 DEF PlaceInv, Pasting
    <3>5. TypeOK'
      BY <1>1, <2>1, <3>2, <3>3 DEF IInv, TypeOK, JobUnchanged
    <3>6. SignatureInv' /\ SequenceInv'
      BY <1>4, <2>1, <3>3 DEF SignatureInv, SequenceInv
    <3>7. BaselineInv'
      BY <1>1, <2>1, <2>2, <3>3 DEF BaselineInv, Clean, JobUnchanged
    <3> QED
      BY <2>3, <3>3, <3>4, <3>5, <3>6, <3>7 DEF IInv, Shape, Holdings
  <2> QED
    BY <2>4, <2>5
<1>5. CASE clip = Text(Job.generation) /\ Job.kind = "restore"
  <2>1. /\ active' \in ActiveSequences /\ active' # NoSequence
        /\ active'.owned = clip /\ active'.baseline = local.baseline
        /\ active'.timer = NoTimer /\ active'.id \in 1..MaxRequests
    BY <1>5, OwnsWritten
  <2>2. ~raced => active'.baseline = kept
    BY <1>1, <1>5, <2>1 DEF IInv, Holdings, BaselineInv, Clean
  <2>3. TimerInv'
    BY <2>1 DEF TimerInv
  <2>4. \E n \in 1..MaxRequests : active'.owned = Text(n)
    BY <1>1, <1>5, <2>1, HeadFacts
  <2>5. CASE Superseded
    <3>1. Done
      BY <1>5, <2>5 DEF Verify
    <3>2. Shape' /\ pc' = "start" /\ local' = NoLocal /\ queue' \in Seq(Jobs)
      BY <1>1, <3>1, JobDone DEF JobUnchanged
    <3>3. TypeOK'
      BY <1>1, <2>1, <3>2 DEF IInv, TypeOK, JobUnchanged, Jobs
    <3>4. SignatureInv'
      BY <1>1, <1>5, <3>1, SignatureDone DEF JobUnchanged
    <3>5. SequenceInv'
      BY <2>1, <2>4, <3>2 DEF SequenceInv, Pasting
    <3>6. BaselineInv'
      BY <1>1, <2>1, <2>2, <3>2 DEF BaselineInv, Clean, JobUnchanged
    <3> QED
      BY <2>3, <3>2, <3>3, <3>4, <3>5, <3>6 DEF IInv, Holdings
  <2>6. CASE ~Superseded
    <3>1. local' = [local EXCEPT !.sequence = active'.id] /\ Await("settle")
      BY <1>5, <2>6 DEF Verify
    <3>2. local \in [sequence : 0..MaxRequests, baseline : Contents]
      BY <1>1, <1>5 DEF IInv, TypeOK, Shape, PlaceInv, Pasting
    <3>3. local' \in [sequence : 0..MaxRequests, baseline : Contents]
      BY <2>1, <3>1, <3>2
    <3>4. local' # NoLocal
      <4>1. local'.sequence # 0
        BY <2>1, <3>1, <3>2
      <4> QED
        BY <4>1 DEF NoLocal
    <3>5. pc' = "settle" /\ queue' = queue /\ QueueInv' /\ Job' = Job /\ Latest' <= MaxRequests
      BY <1>1, <3>1, JobWaits DEF Await, JobUnchanged
    <3>6. PlaceInv'
      BY <1>1, <1>5, <3>4, <3>5 DEF PlaceInv, Pasting
    <3>7. TypeOK'
      BY <1>1, <2>1, <3>3, <3>5 DEF IInv, TypeOK, JobUnchanged
    <3>8. SignatureInv'
      BY <1>1, <1>5, <3>5, SignatureWaits DEF JobUnchanged
    <3>9. SequenceInv'
      BY <1>5, <2>1, <2>4, <3>5 DEF SequenceInv, Pasting
    <3>10. BaselineInv'
      BY <1>1, <2>1, <2>2, <3>5 DEF BaselineInv, Clean, JobUnchanged
    <3> QED
      BY <2>3, <3>5, <3>6, <3>7, <3>8, <3>9, <3>10 DEF IInv, Shape, Holdings
  <2> QED
    BY <2>5, <2>6
<1> QED
  BY <1>1, <1>3, <1>4, <1>5

LEMMA SettleStep ==
    ASSUME IInv, Settle
    PROVE  IInv'
<1>1. /\ queue # <<>> /\ pc = "settle" /\ Job.kind \in {"restore", "plain"}
      /\ UNCHANGED <<clip, kept>> /\ JobUnchanged
  BY DEF Settle, At, IInv, Shape, PlaceInv, Pasting
<1>2. active \in {NoSequence} \cup ActiveSequences
  BY Facts
<1>3. ~raced /\ clip # kept => active # NoSequence /\ active.owned = clip
  BY <1>1, Undisturbed
<1>4. CASE Done /\ active' = active
  <2>1. TimerInv'
    BY <1>1, <1>4, TimerDone DEF JobUnchanged
  <2> QED
    BY <1>1, <1>2, <1>3, <1>4, <2>1, EndsQuietly DEF Same
<1>5. CASE Done /\ active' = NoSequence /\ clip # Text(Job.generation)
  <2>1. ~raced => clip = kept
    BY <1>1, <1>3, <1>5 DEF IInv, Holdings, SequenceInv
  <2>2. TimerInv'
    BY <1>5 DEF TimerInv
  <2> QED
    BY <1>1, <1>5, <2>1, <2>2, EndsQuietly DEF Same
<1>6. CASE Await("paste") /\ UNCHANGED <<local, active>>
  <2>1. pc' = "paste" /\ queue' = queue /\ Job' = Job /\ Latest' <= MaxRequests
    BY <1>1, <1>6, JobWaits DEF Await, JobUnchanged
  <2>2. PlaceInv'
    BY <1>1, <1>6, <2>1 DEF IInv, Shape, PlaceInv, Pasting
  <2>3. SequenceInv'
    BY <1>1, <1>6, <2>1 DEF IInv, Holdings, SequenceInv, Pasting
  <2> QED
    BY <1>1, <1>6, <2>2, <2>3, WaitsQuietly
<1> QED
  BY <1>4, <1>5, <1>6 DEF Settle

LEMMA CopyStep ==
    ASSUME IInv, Copy
    PROVE  IInv'
<1>1. /\ queue # <<>> /\ pc = "start" /\ local = NoLocal /\ Job.kind = "copy"
      /\ active' = NoSequence /\ UNCHANGED <<clip, kept, local>> /\ JobUnchanged
  BY DEF Copy, At, Discard, IInv, Shape, PlaceInv, Pasting
<1>2. /\ pc' = "write copy" /\ queue' = queue
      /\ QueueInv' /\ Job' = Job /\ Latest' <= MaxRequests
  BY JobWaits DEF Copy, Await, JobUnchanged
<1>3. PlaceInv'
  BY <1>1, <1>2 DEF PlaceInv, Pasting
<1>4. TypeOK'
  BY <1>1, <1>2 DEF IInv, TypeOK, JobUnchanged
<1>5. TimerInv' /\ SignatureInv' /\ SequenceInv'
  BY <1>1, <1>2 DEF TimerInv, SignatureInv, SequenceInv, Pasting
<1>6. BaselineInv'
  BY <1>1, <1>2 DEF BaselineInv, Clean
<1> QED
  BY <1>2, <1>3, <1>4, <1>5, <1>6 DEF IInv, Shape, Holdings

LEMMA WriteCopyStep ==
    ASSUME IInv, WriteCopy
    PROVE  IInv'
<1>1. /\ queue # <<>> /\ pc = "write copy" /\ active = NoSequence /\ active' = NoSequence
      /\ clip' = Text(Job.generation) /\ kept' = clip' /\ Done /\ JobUnchanged
  BY DEF WriteCopy, At, IInv, Holdings, SequenceInv
<1>2. clip' \in Contents
  BY <1>1, HeadFacts, ContentsFacts
<1>3. Shape' /\ pc' = "start" /\ local' = NoLocal /\ queue' \in Seq(Jobs)
  BY <1>1, JobDone DEF JobUnchanged
<1>4. TypeOK'
  BY <1>1, <1>2, <1>3 DEF IInv, TypeOK, JobUnchanged, Jobs
<1>5. TimerInv' /\ SignatureInv' /\ SequenceInv'
  BY <1>1, <1>3 DEF TimerInv, SignatureInv, SequenceInv, Pasting
<1>6. BaselineInv'
  BY <1>1, <1>3 DEF BaselineInv, Clean
<1> QED
  BY <1>3, <1>4, <1>5, <1>6 DEF IInv, Holdings

LEMMA StartRestoreStep ==
    ASSUME IInv, StartRestore
    PROVE  IInv'
<1>1. /\ queue # <<>> /\ pc = "start" /\ local = NoLocal /\ Job.kind = "restoration"
      /\ UNCHANGED <<clip, kept, active>> /\ JobUnchanged
  BY DEF StartRestore, At, IInv, Shape, PlaceInv, Pasting
<1>2. CASE StillWanted
  <2>1. Await("check") /\ local' = local
    BY <1>2 DEF StartRestore
  <2>2. pc' = "check" /\ queue' = queue /\ Job' = Job /\ Latest' <= MaxRequests
    BY <1>1, <2>1, JobWaits DEF Await, JobUnchanged
  <2>3. PlaceInv'
    BY <1>1, <2>1, <2>2 DEF PlaceInv, Pasting
  <2>4. SequenceInv'
    BY <1>1, <2>2 DEF IInv, Holdings, SequenceInv, Pasting
  <2> QED
    BY <1>1, <2>1, <2>3, <2>4, WaitsQuietly
<1>3. CASE ~StillWanted
  <2>1. Done
    BY <1>3 DEF StartRestore
  <2>2. TimerInv'
    BY <1>1, <2>1, TimerDone DEF JobUnchanged
  <2>3. ~raced /\ clip # kept => active # NoSequence /\ active.owned = clip
    BY <1>1, Undisturbed
  <2> QED
    BY <1>1, <2>1, <2>2, <2>3, Facts, EndsQuietly DEF Same
<1> QED
  BY <1>2, <1>3

\* A restoration that is still wanted knows the text its sequence wrote last.
LEMMA WantedOwns ==
    ASSUME IInv, queue # <<>>, Job.kind = "restoration", StillWanted
    PROVE  active # NoSequence /\ active.owned = Job.signature
<1>1. Job = queue[1] /\ 1 \in 1..Len(queue) /\ Job \in Jobs
  BY HeadFacts
<1>2. Job.sequence \in 1..MaxRequests
  BY <1>1, JobFields
<1>3. active # NoSequence
  BY <1>2, Facts, SequenceFacts DEF StillWanted
<1> QED
  BY <1>1, <1>3 DEF StillWanted, Superseded, IInv, Holdings, SignatureInv, Restoration

LEMMA CheckRestoreStep ==
    ASSUME IInv, CheckRestore
    PROVE  IInv'
<1>1. /\ queue # <<>> /\ pc = "check" /\ local = NoLocal /\ Job.kind = "restoration"
      /\ UNCHANGED <<clip, kept>> /\ JobUnchanged
  BY DEF CheckRestore, At, IInv, Shape, PlaceInv, Pasting
<1>2. active \in {NoSequence} \cup ActiveSequences
  BY Facts
<1>3. ~raced /\ clip # kept => active # NoSequence /\ active.owned = clip
  BY <1>1, Undisturbed
<1>4. CASE Done /\ active' = active
  <2>1. TimerInv'
    BY <1>1, <1>4, TimerDone DEF JobUnchanged
  <2> QED
    BY <1>1, <1>2, <1>3, <1>4, <2>1, EndsQuietly DEF Same
<1>5. CASE StillWanted /\ clip # Job.signature /\ Discard /\ Done
  <2>1. active.owned # clip /\ active' = NoSequence
    BY <1>1, <1>5, WantedOwns DEF Discard
  <2>2. TimerInv'
    BY <2>1 DEF TimerInv
  <2> QED
    BY <1>1, <1>3, <1>5, <2>1, <2>2, EndsQuietly DEF Same
<1>6. CASE /\ StillWanted /\ clip = Job.signature
           /\ Await("restore") /\ UNCHANGED <<local, active>>
  <2>1. active # NoSequence /\ active.owned = clip
    BY <1>1, <1>6, WantedOwns
  <2>2. pc' = "restore" /\ queue' = queue /\ Job' = Job /\ Latest' <= MaxRequests
    BY <1>1, <1>6, JobWaits DEF Await, JobUnchanged
  <2>3. PlaceInv'
    BY <1>1, <1>6, <2>2 DEF PlaceInv, Pasting
  <2>4. SequenceInv'
    BY <1>1, <1>6, <2>1, <2>2 DEF IInv, Holdings, SequenceInv, Pasting
  <2> QED
    BY <1>1, <1>6, <2>1, <2>3, <2>4, WaitsQuietly
<1> QED
  BY <1>4, <1>5, <1>6 DEF CheckRestore

LEMMA RestoreStep ==
    ASSUME IInv, Restore
    PROVE  IInv' /\ (raced' \/ clip' = kept)
<1>1. /\ queue # <<>> /\ pc = "restore" /\ active # NoSequence
      /\ clip' = active.baseline /\ active' = NoSequence /\ Done
      /\ kept' = kept /\ JobUnchanged
  BY DEF Restore, At, Discard, IInv, Holdings, SequenceInv
<1>2. clip' \in Contents
  BY <1>1, Facts, SequenceFacts
<1>3. ~raced => clip' = kept
  BY <1>1 DEF IInv, Holdings, BaselineInv, Clean
<1>4. Shape' /\ pc' = "start" /\ local' = NoLocal /\ queue' \in Seq(Jobs)
  BY <1>1, JobDone DEF JobUnchanged
<1>5. TypeOK'
  BY <1>1, <1>2, <1>4 DEF IInv, TypeOK, JobUnchanged, Jobs
<1>6. TimerInv' /\ SignatureInv' /\ SequenceInv'
  BY <1>1, <1>4 DEF TimerInv, SignatureInv, SequenceInv, Pasting
<1>7. BaselineInv'
  BY <1>1, <1>3, <1>4 DEF BaselineInv, Clean, JobUnchanged
<1> QED
  BY <1>1, <1>3, <1>4, <1>5, <1>6, <1>7 DEF IInv, Holdings, JobUnchanged

-----------------------------------------------------------------------------
(* The theorems.                                                             *)

LEMMA InvInit == Init => IInv
<1> SUFFICES ASSUME Init PROVE IInv
  OBVIOUS
<1>1. /\ clip = kept /\ requests = <<>> /\ queue = <<>> /\ pc = "start" /\ local = NoLocal
      /\ active = NoSequence /\ userCopies = 0 /\ raced = FALSE /\ Latest = 0
  BY DEF Init, Latest
<1>2. clip \in Contents
  BY ContentsFacts, ConstantsAssumption DEF Init
<1>3. TypeOK
  <2>1. <<>> \in Seq({"restore", "plain", "copy"}) /\ <<>> \in Seq(RequestJobs \cup RestorationJobs)
    OBVIOUS
  <2>2. userCopies \in 0..MaxUserCopies
    BY <1>1, ConstantsAssumption
  <2>3. raced \in BOOLEAN
    BY <1>1
  <2> QED
    BY <1>1, <1>2, <2>1, <2>2, <2>3 DEF TypeOK
<1>4. Shape
  BY <1>1, ConstantsAssumption DEF Shape, QueueInv, PlaceInv, Pasting
<1>5. Holdings
  BY <1>1 DEF Holdings, TimerInv, SignatureInv, SequenceInv, BaselineInv, Clean, Pasting
<1> QED
  BY <1>3, <1>4, <1>5 DEF IInv

LEMMA InvStep == IInv /\ [Next]_vars => IInv'
<1> SUFFICES ASSUME IInv, [Next]_vars PROVE IInv'
  OBVIOUS
<1>1. ASSUME NEW kind \in {"restore", "plain", "copy"}, Request(kind) PROVE IInv'
  BY <1>1, RequestStep
<1>2. CASE UserCopy
  BY <1>2, UserCopyStep
<1>3. CASE TimerFires
  BY <1>3, TimerFiresStep
<1>4. CASE StartPaste \/ Snapshot \/ Write \/ Verify \/ Settle
  BY <1>4, StartPasteStep, SnapshotStep, WriteStep, VerifyStep, SettleStep
<1>5. CASE SnapshotFails \/ Paste
  BY <1>5, FinallyStep DEF SnapshotFails, Paste
<1>6. CASE Copy \/ WriteCopy
  BY <1>6, CopyStep, WriteCopyStep
<1>7. CASE StartRestore \/ CheckRestore \/ Restore
  BY <1>7, StartRestoreStep, CheckRestoreStep, RestoreStep
<1>8. CASE UNCHANGED vars
  <2>1. /\ UNCHANGED <<clip, requests, queue, pc, local, active, kept, userCopies, raced>>
        /\ QueueInv' /\ Job' = Job /\ Latest' <= MaxRequests
    BY <1>8, JobWaits DEF vars
  <2>2. TypeOK' /\ PlaceInv'
    BY <2>1 DEF IInv, TypeOK, Shape, PlaceInv
  <2>3. TimerInv' /\ SignatureInv'
    BY <2>1, TimerWaits, SignatureWaits DEF Same
  <2>4. SequenceInv' /\ BaselineInv'
    BY <2>1 DEF IInv, Holdings, SequenceInv, BaselineInv, Clean
  <2> QED
    BY <2>1, <2>2, <2>3, <2>4 DEF IInv, Shape, Holdings
<1> QED
  BY <1>1, <1>2, <1>3, <1>4, <1>5, <1>6, <1>7, <1>8 DEF Next, JobStep

(* The clipboard, the queue of jobs, the locals of the one that runs and the *)
(* active sequence have their types, in every order of pastes and timers.    *)
THEOREM TypeCorrect == Spec => []TypeOK
<1>1. IInv => TypeOK
  BY DEF IInv
<1> QED
  BY <1>1, InvInit, InvStep, PTL DEF Spec

(* Whatever pastes and copies follow or supersede each other, and wherever a *)
(* paste fails, the restoration that ends a sequence writes to the clipboard *)
(* exactly what the user, or a text meant to stay, last left there: never a  *)
(* text that one of the sequence's own pastes had put on it.                 *)
THEOREM RestorationIsFaithful == Spec => RestoresWhatWasThere
<1> DEFINE A == At("restore") /\ pc' = "start" => raced' \/ clip' = kept
<1>1. IInv /\ [Next]_vars => A \/ UNCHANGED vars
  <2> SUFFICES ASSUME IInv, Next, At("restore"), pc' = "start"
               PROVE  raced' \/ clip' = kept
    OBVIOUS
  <2>1. ~UserCopy /\ ~TimerFires /\ \A kind \in {"restore", "plain", "copy"} : ~Request(kind)
    BY DEF UserCopy, TimerFires, Request, At
  <2>2. /\ ~StartPaste /\ ~Snapshot /\ ~SnapshotFails /\ ~Write /\ ~Verify /\ ~Settle
        /\ ~Paste /\ ~Copy /\ ~WriteCopy /\ ~StartRestore /\ ~CheckRestore
    BY DEF StartPaste, Snapshot, SnapshotFails, Write, Verify, Settle, Paste, Copy, WriteCopy,
           StartRestore, CheckRestore, At
  <2>3. Restore
    BY <2>1, <2>2 DEF Next, JobStep
  <2> QED
    BY <2>3, RestoreStep
<1>2. IInv /\ [Next]_vars => [A]_vars
  BY <1>1
<1> QED
  BY <1>2, InvInit, InvStep, PTL DEF Spec, RestoresWhatWasThere
===============================================================================
