--------------------------- MODULE MCServerHealthLogs ---------------------------
(***************************************************************************)
(* ServerHealth over small sets of files, processes and answers, and       *)
(* ServerLogs over all short streams and all interleavings of five log     *)
(* entries; TLC evaluates the assumptions once.                            *)
(***************************************************************************)
EXTENDS ServerHealth, FiniteSets

Scalars == {Missing, Null, Text("a"), Text(""), Number(-1), Number(0), Number(7), Number(70000)}
Object(x) == [kind |-> "object", was |-> x]
PidFiles == {Missing, Text("a")} \cup
    {Object([pid |-> p, port |-> q, startedAt |-> t]) : p, q, t \in Scalars}

\* A file that is there but cannot be used stops a strict reader, and a
\* lenient one takes it for none; what is read is always a usable address.
UnusableFilesAreNotTaken ==
    \A file \in PidFiles, strict \in BOOLEAN :
        LET r == ReadPidFile(file, strict) IN
        /\ r.fails => strict /\ r.found = {}
        /\ strict /\ r.found = {} => r.fails \/ file.kind = "missing"
        /\ \A p \in r.found : p.pid > 0 /\ p.port \in 1..65535
ASSUME UnusableFilesAreNotTaken

Snapshots == [pid : 1..2, interpreter : BOOLEAN, runsMain : BOOLEAN,
              created : {0, 5000, 5001, 60000, 65001, 130002}]

\* A reused pid is not mistaken for the server: of two processes that had the
\* pid of a PID file more than 65 s apart, it names at most one.
OnePidOneServer ==
    \A a, b \in Snapshots, t \in {0, 5000, 60000, 65001} :
        /\ IsOwned(a, 1, t) /\ IsOwned(b, 1, t) => a.created - b.created <= 65000
        /\ IsOwned(a, 1, t) => a.interpreter /\ a.runsMain /\ a.pid = 1
ASSUME OnePidOneServer

\* A server that takes no longer than a minute to write its PID file is known
\* again; one that is only just within the 180 s allowed for it is not.
SlowStartersAreForgotten ==
    \A wrote \in {0, 59000, 60000, 60001, 180000} :
        LET s == [pid |-> 1, interpreter |-> TRUE, runsMain |-> TRUE, created |-> 0]
        IN  IsOwned(s, 1, wrote) <=> wrote <= 60000
ASSUME SlowStartersAreForgotten

Runtimes == [app_build : {Null, Text("1"), Number(0)}, server_build : {Null, Text(""), Text("1"), Text("2")},
             pack_id : {Null, Text("p"), Number(0)}, effective_device : {Null, Text("cpu"), Number(0)}]
Expected == [app_build : {Text("1")}, server_build : {Text("1")}, pack_id : {Null, Text("p")}]

\* No answer that is malformed, of another build or of another pack passes for
\* the server this app would start, and no answer passes for two of them.
OnlyOurServerIsExpected ==
    \A r \in Runtimes, e, f \in Expected :
        LET health == ParseHealthy(Object([runtime |-> r, download |-> [model |-> Null], engine |-> "no"])) IN
        /\ IsExpected(health.runtime, e) =>
              r.app_build = Text("1") /\ r.server_build = Text("1") /\ r.effective_device.kind # "number"
        /\ IsExpected(health.runtime, e) /\ IsExpected(health.runtime, f) => e = f
ASSUME OnlyOurServerIsExpected

Downloads == [model : {Text("m"), Null}, size_gb : {Number(1), Number(-1), Missing},
              status : {Text("ready"), Text("odd"), Number(0)}, phase : {Missing, Text("loading"), Text("odd")},
              progress : {Missing, Number(-1), Number(50), Number(250), Text("a")}]
ProgressIsAPercentage ==
    \A d \in Downloads : \A shown \in ParseDownload(d) :
        /\ shown.status \in Statuses /\ shown.phase \subseteq Phases
        /\ shown.progress \subseteq 0..100
ASSUME ProgressIsAPercentage

Probes == [takes : {0, 100, 2500, 9000}, healthy : BOOLEAN]

\* The wait never outlasts its deadline, an answer in time ends it, and it
\* neither gives up early nor accepts a server that was not healthy.
WaitsAreBounded ==
    \A timeout \in {0, 400, 3000, 6000}, probes \in Probes \X Probes \X Probes :
        LET w == WaitForHealth(timeout, probes) IN
        /\ w.now <= timeout
        /\ w.result = "none" => w.now = timeout
        /\ w.result = "healthy" => \E i \in 1..3 : probes[i].healthy /\ probes[i].takes <= 2500
        /\ probes[1].healthy /\ probes[1].takes <= Least(timeout, 2500) /\ timeout > 0 => w.result = "healthy"
ASSUME WaitsAreBounded

Managers == [status : {"idle", "starting", "running", "error"}, managed : BOOLEAN,
             pidFile : {{}, {[pid |-> 1, port |-> 80, startedAt |-> 1]}},
             startedAt : {{}, {5}}, currentError : {{}, {"failed"}}]

\* Settings are sent to the server that runs, and an error is shown no longer
\* than its status, unless the caller shows it once more.
StateIsOfNow ==
    \A m \in Managers, status \in {"idle", "starting", "running", "error"}, configured \in {{}, {81}} :
        LET shown == State(UpdateStatus(m, status, {"new"}), 9, {}) IN
        /\ shown.error # {} <=> status = "error"
        /\ shown.uptime # {} => status = "running"
        /\ 80 \in ApiUrl(configured, shown) => status = "running"
ASSUME StateIsOfNow

\* A packaged build never starts an interpreter without its packages beside
\* it, the pack's directory comes first, and a server without a pack sees none,
\* whatever the user's environment says.
EnvironmentIsOurs ==
    \A files \in SUBSET {".runtime", "legacy", "site-packages"}, packs \in {{}, {[id |-> "p", directory |-> "dir"]}},
       user \in {[packs |-> {}], [packs |-> {[id |-> "mine", directory |-> "?"]}]} :
        \A command \in Command(TRUE, files, packs) :
            LET env == ChildEnvironment(user, command, packs) IN
            /\ command.direct => "site-packages" \in files
            /\ env.packs = packs
            /\ \A p \in packs : env.path[1] = p.directory
            /\ env.path[Len(env.path)] = "system"
ASSUME EnvironmentIsOurs

-------------------------------------------------------------------------------
(* The log lines                                                           *)

Logs == INSTANCE ServerLogs
    WITH LogCapacity <- 2, BatchSize <- 1, PageCapacity <- 3, MaxPending <- 3

Texts == UNION {[1..n -> {"a", "e-acute", "space", "LF"}] : n \in 0..5}
Ink(text) == SelectSeq(text, LAMBDA c : c \notin {"space", "LF"})
RECURSIVE Joined(_)
Joined(frames) == IF frames = <<>> THEN <<>> ELSE Head(frames) \o Joined(Tail(frames))

\* However a stream is cut into chunks, its text comes out complete and in
\* order, no unfinished line grows beyond its bound, and the flushes at the end
\* of a stream and at its close emit its last line once.
NothingIsLostInFraming ==
    \A text \in Texts : \A cut \in 0..Len(text) :
        LET f == Logs!Push(Logs!Push(Logs!NoText, SubSeq(text, 1, cut)), SubSeq(text, cut + 1, Len(text)))
            end == Logs!Flush(f)
        IN  /\ Ink(Joined(end.frames)) = Ink(text)
            /\ Logs!Size(f.pending) <= 3
            /\ Logs!Flush(end) = end
            /\ \A i \in DOMAIN end.frames : Ink(end.frames[i]) # <<>>
ASSUME NothingIsLostInFraming

Steps(l) ==
    (IF l.next <= 5 THEN {Logs!AddLog(l)} ELSE {}) \cup {Logs!FlushLogDelivery(l), Logs!NewServer(l)} \cup
    CASE l.page = "away" -> {Logs!LoadLogs(l)}
      [] l.page = "loaded" -> {Logs!Listen(l), Logs!Leave(l)}
      [] l.page = "listening" -> {Logs!ShowBatch(l), Logs!Leave(l)}
All ==
    LET after[n \in Nat] ==
            IF n = 0 THEN [all |-> {Logs!NoLogs}, new |-> {Logs!NoLogs}]
            ELSE LET before == after[n - 1]
                     new == UNION {Steps(l) : l \in before.new} \ before.all
                 IN  [all |-> before.all \cup new, new |-> new]
    IN after[30].all

InOrder(seq) == \A i, j \in DOMAIN seq : i < j => seq[i] < seq[j]
On(l) == l.shown \o l.batch
\* The page shows the newest entries in order, each once, but for those that
\* were queued when it asked for the buffer, which may come a second time, and
\* those sent between that answer and its listening, which it never gets.
PageFollowsLogs ==
    LET all == All IN
    /\ \A l \in all : Steps(l) \subseteq all
    /\ \A l \in all :
        LET fresh == SelectSeq(On(l), LAMBDA e : e \notin l.doubled) IN
        /\ InOrder(fresh) /\ InOrder(l.queue) /\ InOrder(l.logs)
        /\ Len(l.queue) <= 2 /\ Len(l.shown) <= 3
        /\ \A i \in DOMAIN On(l) :
              Cardinality({j \in DOMAIN On(l) : On(l)[j] = On(l)[i]})
                  <= IF On(l)[i] \in l.doubled THEN 2 ELSE 1
    /\ \E l \in all : l.page = "listening" /\ \E e \in l.missed : \E i, j \in DOMAIN l.shown :
          l.shown[i] < e /\ e < l.shown[j] /\ \A k \in DOMAIN On(l) : On(l)[k] # e
    /\ \E l \in all : ~InOrder(l.shown)
ASSUME PageFollowsLogs
===============================================================================
