--------------------------- MODULE SessionServer ---------------------------
(***************************************************************************)
(* The session server of cluster-backend (server.rs): one worker thread     *)
(* takes jobs from a queue in order, runs each to its end, answers it, and  *)
(* then polls the arbiter's status and log inboxes and its exit.            *)
(*                                                                         *)
(* A caller sends a job as an HTTP request of TcpipBackend; the request is  *)
(* under way in `wire` until a handler of cluster-backend puts it in the    *)
(* queue.  A caller that gives up leaves the job behind: it still runs, and *)
(* its answer is dropped.                                                   *)
(***************************************************************************)
EXTENDS Integers, Sequences, FiniteSets, SequencesExt

CONSTANTS LogCap,   \* LOG_CAP: log lines the server keeps
          HostSlots \* samples that ctrl/s2a and status/a2s hold (16)

ASSUME ServerAssumption == LogCap \in Nat \ {0} /\ HostSlots \in Nat \ {0}

VARIABLES wire,   \* requests under way to cluster-backend
          queue,  \* the worker's job queue
          answer, \* handler -> the answer to its last request
          srv,    \* the server's Simulation record
          worker, \* "receive", "drain" or "reap"
          arb,    \* the arbiter process as the server can see it
          cmds,   \* ctrl/s2a
          stats,  \* status/a2s
          inbox,  \* log lines waiting in ServerLogInbox
          limits  \* the bounds of this behaviour

serverVars == <<wire, queue, answer, srv, worker, arb, cmds, stats, inbox>>

NoToken == 0
NoAnswer == [code |-> "none", value |-> 0]
StatusAt(state, time, reason) == [state |-> state, time |-> time, reason |-> reason]
FirstStatus == StatusAt("stopped", 0, "none")

\* HostStatusWire: the state goes over the wire as one bit.
FromStatus(s) == [running |-> s.state = "running", time |-> s.time, reason |-> s.reason]
ToStatus(w) == StatusAt(IF w.running THEN "running" ELSE "stopped", w.time, w.reason)

\* Either queue of the host bus: a full one drops its oldest sample.
Published(samples, sample) ==
    IF Len(samples) < HostSlots THEN Append(samples, sample) ELSE Append(Tail(samples), sample)

ServerInit(handlers) ==
    /\ wire = {} /\ queue = <<>> /\ answer = [h \in handlers |-> NoAnswer]
    /\ srv = [exists |-> TRUE, child |-> TRUE, status |-> FirstStatus, viewer |-> NoToken,
              nextId |-> 1, logs |-> <<>>, nextSeq |-> 1]
    /\ worker = "receive"
    /\ arb = [alive |-> TRUE, status |-> FirstStatus, told |-> FirstStatus,
              breaks |-> FALSE, uncleared |-> FALSE, failed |-> 0,
              lines |-> 0, stops |-> 0]
    /\ cmds = <<>> /\ stats = <<>> /\ inbox = 0

-----------------------------------------------------------------------------
(* Requests.                                                                 *)

Job(from, kind, arg) == [from |-> from, kind |-> kind, arg |-> arg]

\* The handler's blocking call on the backend.
Send(h, kind, arg) ==
    /\ wire' = wire \cup {Job(h, kind, arg)}
    /\ answer' = [answer EXCEPT ![h] = NoAnswer]
    /\ UNCHANGED <<queue, srv, worker, arb, cmds, stats, inbox>>

\* The handler of cluster-backend's HTTP API takes a request and queues its job.
Deliver(sender) ==
    \E job \in wire :
        /\ job.from = sender /\ wire' = wire \ {job} /\ queue' = Append(queue, job)
        /\ UNCHANGED <<answer, srv, worker, arb, cmds, stats, inbox>>

\* Mutant: what the caller had sent is taken back.
AbandonAll(h, gone) ==
    /\ wire' = {job \in wire : job.from # h}
    /\ queue' = SelectSeq(queue, LAMBDA job : job.from # h)
    /\ answer' = [answer EXCEPT ![h] = NoAnswer]
    /\ UNCHANGED <<srv, worker, arb, cmds, stats, inbox>>

\* The caller stops waiting; what it sent stays behind under another name.
Abandon(h, gone) ==
    LET left(job) == [job EXCEPT !.from = IF @ = h THEN gone ELSE @]
    IN  /\ wire' = {left(job) : job \in wire}
        /\ queue' = [i \in DOMAIN queue |-> left(queue[i])]
        /\ answer' = [answer EXCEPT ![h] = NoAnswer]
        /\ UNCHANGED <<srv, worker, arb, cmds, stats, inbox>>

-----------------------------------------------------------------------------
(* dispatch_job.                                                             *)

\* Something a poll would find.
ToPoll == stats # <<>> \/ inbox > 0 \/ (srv.child /\ ~arb.alive)

\* The worker runs the job at the head of the queue and answers it.
Answered(kind, code, value) ==
    /\ worker = "receive" /\ queue # <<>> /\ Head(queue).kind = kind
    /\ queue' = Tail(queue) /\ worker' = IF ToPoll THEN "drain" ELSE "receive"
    /\ answer' = [h \in DOMAIN answer |-> IF h = Head(queue).from
                      THEN [code |-> code, value |-> value] ELSE answer[h]]
    /\ UNCHANGED <<wire, stats, inbox>>

Arg == Head(queue).arg
Kept == UNCHANGED <<srv, cmds, arb>>

\* Everything but these two is refused once the simulation is deleted.
Missing(kind) == ~srv.exists /\ Answered(kind, "missing", 0) /\ Kept

Exists == Answered("exists", "ok", srv.exists) /\ Kept

\* Mutant: an attach takes the simulation over.
ViewerAttachOver ==
    /\ srv.exists /\ Answered("attach", "ok", srv.nextId)
    /\ srv' = [srv EXCEPT !.viewer = srv.nextId, !.nextId = @ + 1]
    /\ UNCHANGED <<cmds, arb>>

ViewerAttach ==
    /\ srv.exists
    /\ \/ srv.viewer # NoToken /\ Answered("attach", "busy", 0) /\ Kept
       \/ /\ srv.viewer = NoToken /\ Answered("attach", "ok", srv.nextId)
          /\ srv' = [srv EXCEPT !.viewer = srv.nextId, !.nextId = @ + 1]
          /\ UNCHANGED <<cmds, arb>>

ViewerCheck ==
    srv.exists /\ Answered("check", IF srv.viewer = Arg THEN "ok" ELSE "busy", 0) /\ Kept

\* A detach with another's token, or of a deleted simulation, is accepted too.
ViewerDetach ==
    /\ Answered("detach", "ok", 0)
    /\ srv' = IF srv.viewer = Arg THEN [srv EXCEPT !.viewer = NoToken] ELSE srv
    /\ UNCHANGED <<cmds, arb>>

\* Start, stop, reset and step go to the arbiter unless it is known to have exited.
RunCommand ==
    /\ srv.exists
    /\ IF srv.status.state = "exited" THEN Answered("command", "conflict", 0) /\ Kept
       ELSE /\ Answered("command", "ok", 0) /\ cmds' = Published(cmds, Arg.cmd)
            /\ UNCHANGED <<srv, arb>>

\* Dropping the simulation sends Shutdown and kills the arbiter at once.
Delete ==
    /\ srv.exists /\ Answered("delete", "ok", 0)
    /\ srv' = [srv EXCEPT !.exists = FALSE, !.child = FALSE, !.viewer = NoToken]
    /\ arb' = [arb EXCEPT !.alive = FALSE] /\ cmds' = <<>>

GetStatus == srv.exists /\ Answered("status", "ok", srv.status) /\ Kept

\* The lines numbered after `last`: those at the end, as the window is numbered on.
LinesAfter(lines, last) ==
    SubSeq(lines, Cardinality({i \in DOMAIN lines : lines[i] <= last}) + 1, Len(lines))

\* Mutant: the client's last line is sent again.
GetLogsFrom ==
    srv.exists /\ Answered("logs", "ok", LinesAfter(srv.logs, Arg - 1)) /\ Kept

GetLogs == srv.exists /\ Answered("logs", "ok", LinesAfter(srv.logs, Arg)) /\ Kept

LogHighWater == srv.exists /\ Answered("highwater", "ok", srv.nextSeq - 1) /\ Kept

\* InspectServer::handle in the node, between two of its passes: a breakpoint is there
\* or not; registers and memory are read and written beside it.
InspectServed(op) == IF op = "look" THEN arb.breaks ELSE op = "add"

\* What an operation the node carries out, or does not, makes of its breakpoints; ghost
\* `uncleared`: the last call to clear them was not carried out.
Inspected(op, done) ==
    [arb EXCEPT !.breaks = IF done THEN InspectServed(op) ELSE @,
                !.uncleared = IF op = "clear" THEN ~done ELSE @]

\* The worker asks the node's inspect socket and waits for its answer.
Inspect ==
    /\ srv.exists /\ Answered("inspect", "ok", 0)
    /\ arb' = Inspected(Arg, TRUE) /\ UNCHANGED <<srv, cmds>>

\* inspect_rpc fails; a node too slow to answer in 2 s still carries the request out,
\* before any later one.
InspectFails ==
    /\ srv.exists /\ Answered("inspect", "error", 0) /\ arb.failed < limits.failures
    /\ \E done \in BOOLEAN : arb' = [Inspected(Arg, done) EXCEPT !.failed = @ + 1]
    /\ UNCHANGED <<srv, cmds>>

-----------------------------------------------------------------------------
(* poll_simulation.                                                          *)

\* Lines numbered on from the last, the oldest dropped past LOG_CAP.
AppendLogs(s, n) ==
    LET all == s.logs \o [i \in 1..n |-> s.nextSeq + i - 1]
        cut == IF Len(all) > LogCap THEN Len(all) - LogCap ELSE 0
    IN  [s EXCEPT !.logs = SubSeq(all, cut + 1, Len(all)), !.nextSeq = @ + n]

\* Every status and every log line that has arrived; the last status stays.  The
\* poll after a job, or after 20 ms without one, is left out when it finds nothing.
Drain ==
    /\ worker \in {"receive", "drain"} /\ srv.exists /\ ToPoll
    /\ srv' = AppendLogs(IF stats = <<>> THEN srv ELSE [srv EXCEPT !.status = ToStatus(Last(stats))], inbox)
    /\ stats' = <<>> /\ inbox' = 0 /\ worker' = "reap"
    /\ UNCHANGED <<wire, queue, answer, arb, cmds>>

\* The child's exit is looked at last, once.
Reap ==
    /\ worker = "reap" /\ worker' = "receive"
    /\ srv' = IF srv.child /\ ~arb.alive
              THEN [AppendLogs(srv, 1) EXCEPT !.status.state = "exited", !.child = FALSE]
              ELSE srv
    /\ UNCHANGED <<wire, queue, answer, arb, cmds, stats, inbox>>

-----------------------------------------------------------------------------
(* The arbiter, as far as the server sees it: Arbiter.tla is the detail.     *)

ArbiterAt(status) == arb' = [arb EXCEPT !.status = status]

ArbiterCommand ==
    /\ arb.alive /\ cmds # <<>> /\ cmds' = Tail(cmds)
    /\ CASE Head(cmds) \in {"start", "step", "reset"} ->
                ArbiterAt(StatusAt("running", arb.status.time, "none"))
         [] Head(cmds) = "stop" /\ arb.status.state = "running" ->
                ArbiterAt(StatusAt("stopped", arb.status.time, "external_stop"))
         [] OTHER -> UNCHANGED arb
    /\ UNCHANGED <<wire, queue, answer, srv, worker, stats, inbox>>

ArbiterAdvance ==
    /\ arb.alive /\ arb.status.state = "running" /\ arb.status.time < limits.time
    /\ arb' = [arb EXCEPT !.status.time = @ + 1]
    /\ UNCHANGED <<wire, queue, answer, srv, worker, cmds, stats, inbox>>

\* A cap, a breakpoint or the end of a step.
ArbiterStop ==
    /\ arb.alive /\ arb.status.state = "running" /\ arb.stops < limits.stops
    /\ \E reason \in {"until", "step"} \cup (IF arb.breaks THEN {"breakpoint"} ELSE {}) :
           arb' = [arb EXCEPT !.status = StatusAt("stopped", arb.status.time, reason),
                              !.stops = @ + 1]
    /\ UNCHANGED <<wire, queue, answer, srv, worker, cmds, stats, inbox>>

\* write_status, on a change.
ArbiterReport ==
    /\ arb.alive /\ arb.status # arb.told
    /\ stats' = Published(stats, FromStatus(arb.status)) /\ arb' = [arb EXCEPT !.told = arb.status]
    /\ UNCHANGED <<wire, queue, answer, srv, worker, cmds, inbox>>

ArbiterLog ==
    /\ arb.alive /\ arb.lines < limits.lines
    /\ arb' = [arb EXCEPT !.lines = @ + 1] /\ inbox' = inbox + 1
    /\ UNCHANGED <<wire, queue, answer, srv, worker, cmds, stats>>

\* The session loop ends with an error, or the process is killed.
ArbiterExit ==
    /\ arb.alive /\ srv.exists /\ limits.exits /\ arb' = [arb EXCEPT !.alive = FALSE]
    /\ UNCHANGED <<wire, queue, answer, srv, worker, cmds, stats, inbox>>

DispatchJob ==
    \/ \E kind \in {"attach", "check", "command", "delete", "status", "logs", "highwater", "inspect"} :
           Missing(kind)
    \/ Exists \/ ViewerAttach \/ ViewerCheck \/ ViewerDetach \/ RunCommand \/ Delete
    \/ GetStatus \/ GetLogs \/ LogHighWater \/ Inspect \/ InspectFails

WorkerStep == DispatchJob \/ Drain \/ Reap

ArbiterStep ==
    ArbiterCommand \/ ArbiterAdvance \/ ArbiterStop \/ ArbiterReport \/ ArbiterLog
=============================================================================
