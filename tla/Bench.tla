------------------------------- MODULE Bench -------------------------------
(***************************************************************************)
(* A board, its arbiter and its session server with the clients that press *)
(* its switch, watch its pin, read its UART and export its probes.  The    *)
(* node's loop handles what is on the control bus, serves actions, queries *)
(* and exports, and, while it runs, lets the guest advance and looks at    *)
(* its taps.  Ceilings, which Cluster.tla is about, are left out: a pass   *)
(* may leave the clock where it is.                                        *)
(***************************************************************************)
EXTENDS ProbeServer

CONSTANTS Quantum, \* the most a pass advances the clock
          Holds,   \* bound: the milliseconds the requests of each scene ask for
          Scenes, Limits \* bounds of each scene: how often each thing is done, and the time at
                         \* which the clock stops while the passes go on

AllScenes == {"hold", "live", "uart", "csv"}
Counted == {"invokes", "commands", "words", "reads", "watches", "exports", "timeouts", "fails", "time"}

ASSUME BenchAssumption ==
    /\ Quantum \in Nat \ {0} /\ Scenes \subseteq AllScenes
    /\ Holds \in [AllScenes -> SUBSET Nat]
    /\ Limits \in [AllScenes -> [Counted -> Nat]]

VARIABLES scene, used, \* bounds
          phase,   \* of the node's loop: "control", "service" or "guest"
          running, \* NodeState::Running
          now,     \* the guest's clock
          ctl,     \* ctrl/a2n
          reader,  \* the test's UART stream and the virtual time of its last status
          view,    \* the sample of the pin the viewer shows
          after,   \* the last batch the viewer's stream has seen
          files,   \* the downloads, by export
          taken    \* ghost: the UART words the node took from its tap

benchVars == <<scene, used, phase, running, now, ctl, reader, view, after, files, taken>>
vars == <<actionVars, probeVars, serverVars, benchVars>>

Init ==
    /\ ActionInit /\ ProbeInit /\ ServerInit
    /\ scene \in Scenes /\ used = [what \in Counted |-> 0]
    /\ phase = "control" /\ running = FALSE /\ now = 0 /\ ctl = <<[kind |-> "start"]>>
    /\ reader = [words |-> <<>>, shown |-> 0] /\ view = Nothing /\ after = 0
    /\ files = <<>> /\ taken = <<>>

May(what) == used[what] < Limits[scene][what]
Count(what) == May(what) /\ used' = [used EXCEPT ![what] = @ + 1]

-----------------------------------------------------------------------------
(* run_node.                                                                *)

nodeKept == UNCHANGED <<serverVars, scene, reader, view, after, files>>

\* One message of ctrl/a2n.  The host's Reset follows a stop, so the node is not running.
HandleControl ==
    /\ phase = "control" /\ ctl # <<>> /\ ctl' = Tail(ctl)
    /\ nodeKept /\ UNCHANGED <<used, phase, now, taken, toNode, replies, csvToNode, csvReplies,
                               csvOut, exported>>
    /\ LET msg == Head(ctl) IN
       \/ /\ msg.kind \in {"start", "stop"} /\ running' = (msg.kind = "start")
          /\ SetRunning(running') /\ UNCHANGED <<actionVars, tap, level, watch>>
       \/ /\ msg.kind = "reset" /\ ~running /\ ResetActions /\ DrivePin(<<"Low">>, now)
          /\ UNCHANGED <<running, log, samples, watch>>
       \/ /\ msg.kind = "watch" /\ watch' = msg.probes
          /\ UNCHANGED <<actionVars, running, tap, level, log, samples>>

EndControl ==
    /\ phase = "control" /\ ctl = <<>> /\ phase' = "service"
    /\ nodeKept /\ UNCHANGED <<actionVars, probeVars, used, running, now, ctl, taken>>

\* service_actions, service_queries and service_csv.
Service ==
    /\ phase = "service" /\ phase' = IF running THEN "guest" ELSE "control"
    /\ ServiceActions(now, running)
    /\ IF running THEN DrivePin(Serviced(now).levels, now) ELSE UNCHANGED <<level, tap>>
    /\ ServiceQueries /\ ServiceCsv
    /\ nodeKept /\ UNCHANGED <<used, running, now, ctl, taken, log, watch, samples>>

\* The guest runs to time `to`; the last word it sends, if it sends one, is sent at
\* `at`.  Its taps are looked at, and the window is published when `emits`.
Pass(to, at, spills, emits) ==
    LET word == [probe |-> "tx", time |-> at, value |-> used.words + 1]
        held == IF at = NoTick THEN tap ELSE [tap EXCEPT !.tx = <<word>>]
        got == Ingest(log, held, spills)
    IN  /\ phase = "guest" /\ phase' = "control" /\ now' = to
        /\ spills \/ got.truncated # log.truncated
        /\ used' = [used EXCEPT !.words = IF at = NoTick THEN @ ELSE @ + 1,
                                !.fails = IF spills THEN @ ELSE @ + 1]
        /\ tap' = [p \in Probes |-> Nothing] /\ taken' = taken \o held.tx
        /\ log' = IF emits THEN [got EXCEPT !.window = <<>>] ELSE got
        /\ samples' = IF emits
                      THEN samples \o SortSeq(Watched(got.window), LAMBDA r, s : r.time < s.time)
                      ELSE samples
        /\ nodeKept
        /\ UNCHANGED <<actionVars, level, watch, toNode, replies, csvToNode, csvReplies, csvOut,
                       exported, running, ctl>>

Horizon == Limits[scene].time
Steps == now..IF now + Quantum < Horizon THEN now + Quantum ELSE Horizon
GuestPass(emits) ==
    \E to \in Steps, spills \in BOOLEAN :
        /\ ~spills => May("fails")
        /\ \/ Pass(to, NoTick, spills, emits)
           \/ May("words") /\ \E at \in now..to : Pass(to, at, spills, emits)

\* The window's 100 ms have passed, or not, which matters where probes are watched.
Watches == Limits[scene].watches > 0
EmitPass == GuestPass(TRUE)
QuietPass == Watches /\ GuestPass(FALSE)

-----------------------------------------------------------------------------
(* The arbiter.                                                             *)

arbKept == UNCHANGED <<scene, phase, running, now, reader, view, after, files, taken>>

\* A stop, a start, which is left out while there was no stop, or a reset, which stops
\* and starts the nodes.
HostCommand ==
    /\ Count("commands")
    /\ \E kinds \in {<<"stop">>, <<"start">>, <<"stop", "reset", "start">>} :
           /\ kinds = <<"start">> => used.commands > 0
           /\ ctl' = ctl \o [i \in DOMAIN kinds |-> [kind |-> kinds[i]]]
    /\ arbKept /\ UNCHANGED <<actionVars, probeVars, serverVars>>

Forward == ForwardInvokes /\ arbKept /\ UNCHANGED <<probeVars, serverVars, used, ctl>>

ForwardWatch ==
    /\ arbAt = "watch" /\ (May("watches") \/ watches \o queries # <<>>)
    /\ arbAt' = "query" /\ watches' = <<>>
    /\ ctl' = ctl \o [i \in DOMAIN watches |-> [kind |-> "watch", probes |-> watches[i]]]
    /\ arbKept /\ UNCHANGED <<actionVars, probeVars, srv, worker, queries, csvToServer, used>>

ForwardQuery ==
    /\ ForwardQueries
    /\ arbKept /\ UNCHANGED <<actionVars, tap, level, log, watch, samples, replies, csvToNode,
                              csvReplies, csvOut, exported, used, ctl>>

ForwardChunk ==
    /\ ForwardCsv
    /\ arbKept /\ UNCHANGED <<actionVars, tap, level, log, watch, samples, toNode, replies,
                              csvToNode, csvOut, used, ctl>>

-----------------------------------------------------------------------------
(* The clients and the server's jobs.                                       *)

jobKept == UNCHANGED <<scene, phase, running, now, ctl, taken>>
nodeProbes == <<tap, level, log, watch, toNode, csvReplies, csvOut, exported>>
probeKept == UNCHANGED <<nodeProbes, samples, replies, csvToNode, csvToServer>>

\* The viewer presses the switch: the request is published in one job.
Invoke ==
    /\ worker.at = "free" /\ Count("invokes") /\ worker' = AfterJob
    /\ \E ms \in Holds[scene] : QueueInvoke(ms)
    /\ jobKept /\ probeKept /\ UNCHANGED <<srv, watches, queries, arbAt, reader, view, after, files>>

Watch ==
    /\ \/ Count("watches") /\ PutWatch({"pin"})
       \/ srv.watch # {} /\ ClearWatch /\ UNCHANGED used
    /\ jobKept /\ probeKept /\ UNCHANGED <<actionVars, reader, view, after, files>>

\* One poll of the viewer's stream that finds something.
StreamWatch ==
    LET found == LiveWatch(after)
    IN  /\ worker.at = "free" /\ srv.batches # <<>> /\ worker' = AfterJob
        /\ srv' = [srv EXCEPT !.batches = <<>>]
        /\ IF found = <<>> THEN UNCHANGED <<view, after>>
           ELSE view' = <<Last(Last(found).recs)>> /\ after' = Last(found).seq
        /\ jobKept /\ probeKept
        /\ UNCHANGED <<actionVars, watches, queries, arbAt, used, reader, files>>

\* A status reaches the test.
SeeStatus ==
    /\ May("reads") /\ reader.shown < now /\ reader' = [reader EXCEPT !.shown = now]
    /\ jobKept /\ UNCHANGED <<actionVars, probeVars, serverVars, used, view, after, files>>

\* _uart: the words from the time of the last one on.
ReadUart ==
    LET from == IF reader.words = <<>> THEN 0 ELSE Last(reader.words).time
    IN  /\ worker.at = "free" /\ Count("reads")
        /\ Ask("reader", srv, RangeQuery({"tx"}, from, reader.shown))
        /\ jobKept /\ probeKept
        /\ UNCHANGED <<actionVars, watches, arbAt, reader, view, after, files>>

\* Mutant: the words at the time of the last one are taken for new.
AbsorbAll(words, recs) == words \o recs

\* As many words at the time of the last one are skipped as the stream has already.
Absorb(words, recs) ==
    LET atLast(r) == words # <<>> /\ r.time = Last(words).time
        new == SelectSeq(recs, LAMBDA r : ~atLast(r))
        same == SelectSeq(recs, atLast)
        had == Len(SelectSeq(words, atLast))
    IN  words \o SubSeq(same, had + 1, Len(same)) \o new

\* A truncated log is an error to the test.
UartAnswered ==
    /\ Answered("reader") /\ worker' = AfterJob
    /\ reader' = IF Head(replies).truncated THEN reader
                 ELSE [reader EXCEPT !.words = Absorb(@, Answer)]
    /\ jobKept /\ UNCHANGED <<actionVars, nodeProbes, samples, csvToNode, csvToServer, srv, used,
                              view, after, files>>

\* The wait of a query ends after 5 s or 30 s; a late answer is skipped by the next.
QueryTimeout ==
    /\ worker.at \in {"watcher", "reader"} /\ Count("timeouts") /\ worker' = AfterJob
    /\ jobKept /\ probeKept
    /\ UNCHANGED <<actionVars, srv, watches, queries, arbAt, reader, view, after, files>>

Collect ==
    /\ \/ CollectReply \/ SkipLast
       \/ SnapshotWatch
    /\ jobKept
    /\ UNCHANGED <<actionVars, nodeProbes, samples, csvToNode, csvToServer, used, reader, view,
                   after, files>>

Poll ==
    /\ PollProbes /\ jobKept
    /\ UNCHANGED <<actionVars, nodeProbes, replies, csvToNode, used, reader, view, after, files>>

-----------------------------------------------------------------------------
(* probes_csv and csv_event_stream, and the browser's downloadCsv.          *)

fileKept == jobKept /\ UNCHANGED <<actionVars, nodeProbes, samples, replies, csvToServer, watches,
                                   queries, arbAt, reader, view, after>>

Download ==
    /\ Count("exports") /\ StartCsv
    /\ files' = Append(files, [id |-> srv.nextId, rows |-> <<>>, at |-> "stream", lost |-> FALSE])
    /\ fileKept

CurrentJob(file) == file.id = srv.job.id
EndsStream(file) == [file EXCEPT !.at = "ended"]

\* A poll of the export: its records go to the file that asked for them, and the file
\* ends with the export, or when another export has taken its place.
FilePoll(i) ==
    LET file == files[i]
        got == [file EXCEPT !.rows = @ \o srv.job.recs]
    IN  /\ worker.at = "free" /\ file.at = "stream" /\ worker' = AfterJob
        /\ IF CurrentJob(file)
           THEN /\ srv.job.recs # <<>> \/ srv.job.done
                /\ files' = [files EXCEPT ![i] = IF srv.job.done THEN EndsStream(got) ELSE got]
                /\ srv' = [srv EXCEPT !.job.recs = <<>>]
           ELSE files' = [files EXCEPT ![i] = EndsStream(file)] /\ UNCHANGED srv
        /\ UNCHANGED <<csvToNode, used>> /\ fileKept

\* The caller of a poll has given up when its job runs: what it takes is lost.
FilePollGivenUp(i) ==
    /\ worker.at = "free" /\ files[i].at = "stream" /\ CurrentJob(files[i])
    /\ Count("timeouts") /\ worker' = AfterJob /\ srv' = [srv EXCEPT !.job.recs = <<>>]
    /\ files' = [files EXCEPT ![i] = [EndsStream(@) EXCEPT !.lost = TRUE]]
    /\ UNCHANGED csvToNode /\ fileKept

\* The browser asks for the status of its export, and saves the file.
SaveFile(i) ==
    /\ worker.at = "free" /\ files[i].at = "ended" /\ worker' = AfterJob
    /\ files' = [files EXCEPT ![i].at = IF CurrentJob(files[i]) /\ ~srv.job.failed
                                        THEN "saved" ELSE "refused"]
    /\ UNCHANGED <<srv, csvToNode, used>> /\ fileKept

\* 60 s have passed since the export began.
CsvDeadline ==
    /\ ~srv.job.done /\ ~srv.job.expired /\ Count("timeouts")
    /\ srv' = [srv EXCEPT !.job.expired = TRUE]
    /\ UNCHANGED <<worker, csvToNode, files>> /\ fileKept

-----------------------------------------------------------------------------
Node == HandleControl \/ EndControl \/ Service \/ EmitPass \/ QuietPass
Arbiter == HostCommand \/ Forward \/ ForwardWatch \/ ForwardQuery \/ ForwardChunk
Server == UartAnswered \/ QueryTimeout \/ Collect \/ Poll \/ CsvDeadline
Client == \/ Invoke \/ Watch \/ StreamWatch \/ SeeStatus \/ ReadUart \/ Download
          \/ \E i \in DOMAIN files : FilePoll(i) \/ FilePollGivenUp(i) \/ SaveFile(i)

Next == Node \/ Arbiter \/ Server \/ Client

\* The node, the arbiter and the worker go on; of the passes that find the window's
\* time over there is always another; and the viewer's stream polls.
Fairness ==
    /\ WF_vars(HandleControl) /\ WF_vars(EndControl) /\ WF_vars(Service)
    /\ WF_vars(EmitPass \/ QuietPass) /\ SF_vars(EmitPass)
    /\ WF_vars(ForwardWatch) /\ WF_vars(ForwardQuery)
    /\ WF_vars(Collect) /\ WF_vars(Poll) /\ SF_vars(StreamWatch)

Spec == Init /\ [][Next]_vars /\ Fairness

-----------------------------------------------------------------------------
Levels == {"Low", "High"}

\* A hold ends: its pin is High at most a pass of the guest past the deadline of
\* Hold::poll, however often the node is stopped, started and reset in between.
HoldOnTime == switch.pin = "High" => now < switch.deadline + Quantum

\* Every request the server published is on its way, applied or lost, and only one of
\* these; the requests are applied in the order they were published in.
InFlight == waiting \o inbox \o invokes
ActionsInOrder ==
    LET ids == [i \in DOMAIN applied |-> applied[i].id]
               \o [i \in DOMAIN InFlight |-> InFlight[i].id]
    IN  /\ \A i, j \in DOMAIN ids : i < j => ids[i] < ids[j]
        /\ Range(ids) \cap gone = {} /\ Range(ids) \cup gone = 1..lastId

\* The test's stream is what the guest's words were as the tap took them, without a gap
\* and without a repetition, wherever the log keeps them and whenever it was asked.
StreamExact == IsPrefix(reader.words, taken)

\* Rows that are some of the records, in their order.
Within(rows, recs) ==
    \E at \in [DOMAIN rows -> DOMAIN recs] :
        /\ \A i, j \in DOMAIN rows : i < j => at[i] < at[j]
        /\ \A i \in DOMAIN rows : rows[i] = recs[at[i]]

\* The files a browser saved, but for those of which a poll was given up.
Saved == {files[i] : i \in {j \in DOMAIN files : files[j].at = "saved" /\ ~files[j].lost}}

\* What a file that was saved lacks of its export was overwritten in a full queue, and
\* what it holds is the export's, in its order.  The file of an export that is not longer
\* than a queue is whole, whatever earlier exports left in the queues.
CsvAccounted ==
    \A file \in Saved :
        LET export == exported[file.id]
        IN  /\ file.id \in DOMAIN exported /\ Within(file.rows, export.recs)
            /\ Len(file.rows) + export.overwritten = Len(export.recs)
            /\ Len(export.recs) <= CsvCap => file.rows = export.recs

\* A change of a watched pin that is in the node's window reaches the viewer, or the last
\* of those that follow does, unless the watch is given up.
LiveCatchesUp ==
    LET watched == "pin" \in watch /\ "pin" \in srv.watch
    IN  (watched /\ \E rec \in Range(log.window) : log.latest["pin"] = <<rec>>)
        ~> (view = log.latest["pin"] \/ ~watched)
=============================================================================
