------------------------------ MODULE Session ------------------------------
(***************************************************************************)
(* The session layer: the HTTP handlers of simulation-frontend (http.rs),   *)
(* its GDB thread (gdb/), and the session server they call.  Every handler  *)
(* makes one blocking call at a time; `pc` is the call it waits for.  A     *)
(* viewer stream owns the simulation while it is open, and its token is     *)
(* checked before a request of its client is acted on.                      *)
(***************************************************************************)
EXTENDS SessionServer

CONSTANTS Clients,    \* browser tabs and test harnesses
          Scenes,     \* which handlers a behaviour uses: subset of AllScenes
          Limits,     \* bounds, for each scene: streams, requests and their commands, GDB
                      \* operations, calls given up, inspections that fail, virtual time, log lines,
                      \* stops, exits
          MaxTokens, MaxGaveUp \* what streams and given-up calls stay within

AllScenes == {"viewers", "status", "log", "gdb", "delete"}

Viewer(c) == <<"viewer", c>>
Request(c) == <<"request", c>>
StatusReader == <<"status", "">>
LogReader == <<"log", "">>
Attach == <<"attach", "">>
Detach == <<"detach", "">>
Gdb == <<"gdb", "">>
Handlers == {Viewer(c) : c \in Clients} \cup {Request(c) : c \in Clients}
            \cup {StatusReader, LogReader, Attach, Detach, Gdb}

ASSUME SessionAssumption ==
    /\ Scenes \subseteq AllScenes /\ Clients \subseteq STRING /\ Clients # {}
    /\ MaxTokens \in Nat /\ MaxGaveUp \in Nat
    /\ Limits \in [AllScenes -> [connects : 0..MaxTokens, requests : Nat, gdb : Nat,
                                 gaveUp : 0..MaxGaveUp, failures : Nat, time : Nat, lines : Nat, stops : Nat,
                                 exits : BOOLEAN,
                                 commands : SUBSET {"start", "stop", "reset", "delete"}]]

VARIABLES scene,
          pc,     \* handler -> where it is; "idle" if no request of its kind is served
          token,  \* client -> the token its viewer stream was given last
          cmd,    \* client -> the command it asked for
          shown,  \* what the status reader last received
          after,  \* the log reader's position
          heard, since, \* ghost: lines the log reader received; where it began
          slot,   \* the simulation has a GDB slot in the map
          closing,\* GdbSlot::shutdown joins the thread of a slot taken out of it
          before, \* the status wait_running compares with
          used    \* bounds: how often each thing was done

sessionVars == <<scene, pc, token, cmd, shown, after, heard, since, slot, closing, before, used,
                 limits>>
vars == <<serverVars, sessionVars>>

Unknown == StatusAt("unknown", 0, "none")

Init ==
    /\ ServerInit(Handlers) /\ scene \in Scenes /\ limits = Limits[scene]
    /\ pc = [h \in Handlers |-> "idle"]
    /\ token = [c \in Clients |-> NoToken] /\ cmd = [c \in Clients |-> "stop"]
    /\ shown = Unknown /\ after = 0 /\ heard = <<>> /\ since = 0
    /\ slot = FALSE /\ closing = FALSE /\ before = Unknown
    /\ used = [connects |-> 0, requests |-> 0, gdb |-> 0, gaveUp |-> 0]

Uses(h) == h[1] \in (CASE scene = "viewers" -> {"viewer", "request"}
                       [] scene \in {"status", "log"} -> {"viewer", "request", scene}
                       [] scene \in {"gdb", "delete"} -> {"viewer", "request", "attach", "detach", "gdb"})
\* Only the first scene has more than one client.
Active(c) == scene = "viewers" \/ c = CHOOSE first \in Clients : TRUE

At(h, place) == pc[h] = place
Done(h, place) == pc[h] = place /\ answer[h] # NoAnswer
Ok(h) == answer[h].code = "ok"

\* h calls the backend and waits at `place`; or goes on to `place` with no call.
Call(h, place, kind, arg) == pc' = [pc EXCEPT ![h] = place] /\ Send(h, kind, arg)
GoTo(h, place) ==
    /\ pc' = [pc EXCEPT ![h] = place] /\ answer' = [answer EXCEPT ![h] = NoAnswer]
    /\ UNCHANGED <<wire, queue, srv, worker, arb, cmds, stats, inbox>>

\* The flag of the slot in the map, as its thread sets it.
GdbConnected == slot /\ ~closing /\ pc[Gdb] \notin {"idle", "bye"}

Count(what) == used' = [used EXCEPT ![what] = @ + 1]

-----------------------------------------------------------------------------
(* viewer_sse and its ViewerGuard.                                           *)

viewerKept == UNCHANGED <<scene, limits, cmd, shown, after, heard, since, slot, closing, before>>

ViewerConnect(c) ==
    /\ At(Viewer(c), "idle") /\ Active(c) /\ used.connects < limits.connects /\ Count("connects")
    /\ Call(Viewer(c), "exists", "exists", 0) /\ viewerKept /\ UNCHANGED token

ViewerFound(c) ==
    /\ Done(Viewer(c), "exists") /\ viewerKept /\ UNCHANGED <<token, used>>
    /\ IF answer[Viewer(c)].value THEN Call(Viewer(c), "attach", "attach", 0)
       ELSE GoTo(Viewer(c), "idle")

\* The guard exists from here on, and the client is sent the token.
ViewerOpen(c) ==
    /\ Done(Viewer(c), "attach") /\ viewerKept /\ UNCHANGED used
    /\ IF Ok(Viewer(c))
       THEN token' = [token EXCEPT ![c] = answer[Viewer(c)].value] /\ GoTo(Viewer(c), "open")
       ELSE GoTo(Viewer(c), "idle") /\ UNCHANGED token

\* The client goes away: dropping the stream drops the guard.
ViewerClose(c) ==
    /\ At(Viewer(c), "open") /\ viewerKept /\ UNCHANGED <<token, used>>
    /\ Call(Viewer(c), "detach", "detach", token[c])

ViewerClosed(c) ==
    Done(Viewer(c), "detach") /\ GoTo(Viewer(c), "idle") /\ viewerKept /\ UNCHANGED <<token, used>>

-----------------------------------------------------------------------------
(* Requests that start, stop, reset or delete the simulation.                *)

requestKept == UNCHANGED <<scene, limits, token, shown, after, heard, since, before>>

\* A client uses the last token it saw, valid or not.
RequestSent(c) ==
    /\ At(Request(c), "idle") /\ token[c] # NoToken
    /\ used.requests < limits.requests /\ Count("requests")
    /\ \E wanted \in limits.commands : cmd' = [cmd EXCEPT ![c] = wanted]
    /\ Call(Request(c), "check", "check", token[c]) /\ requestKept /\ UNCHANGED <<slot, closing>>

\* run_command refuses while GDB is connected, and then calls the backend.
RequestChecked(c) ==
    /\ Done(Request(c), "check") /\ cmd[c] # "delete"
    /\ IF Ok(Request(c)) /\ ~GdbConnected
       THEN Call(Request(c), "sent", "command", [cmd |-> cmd[c], by |-> "http"])
       ELSE GoTo(Request(c), "idle")
    /\ requestKept /\ UNCHANGED <<cmd, used, slot, closing>>

\* delete_with_gdb takes the slot out of the map, joins its thread, then deletes.
DeleteChecked(c) ==
    /\ Done(Request(c), "check") /\ cmd[c] = "delete"
    /\ IF Ok(Request(c))
       THEN GoTo(Request(c), "join") /\ slot' = FALSE /\ closing' = (closing \/ slot)
       ELSE GoTo(Request(c), "idle") /\ UNCHANGED <<slot, closing>>
    /\ requestKept /\ UNCHANGED <<cmd, used>>

DeleteSent(c) ==
    /\ At(Request(c), "join") /\ ~closing /\ Call(Request(c), "sent", "delete", 0)
    /\ requestKept /\ UNCHANGED <<cmd, used, slot, closing>>

RequestDone(c) ==
    /\ Done(Request(c), "sent") /\ GoTo(Request(c), "idle")
    /\ requestKept /\ UNCHANGED <<cmd, used, slot, closing>>

-----------------------------------------------------------------------------
(* The status and log streams.                                               *)

readerKept == UNCHANGED <<scene, limits, token, cmd, slot, closing, before, used>>

ReaderConnect(h) ==
    /\ Uses(h) /\ At(h, "idle") /\ h \in {StatusReader, LogReader} /\ heard = <<>> /\ since = 0
    /\ \E c \in Clients : token[c] # NoToken /\ Call(h, "check", "check", token[c])
    /\ readerKept /\ UNCHANGED <<shown, after, heard, since>>

StatusChecked ==
    /\ Done(StatusReader, "check")
    /\ IF Ok(StatusReader) THEN Call(StatusReader, "poll", "status", 0)
       ELSE GoTo(StatusReader, "idle")
    /\ readerKept /\ UNCHANGED <<shown, after, heard, since>>

\* Mutant: a status that differs only in its time is never sent.
StatusPolledStates ==
    /\ Done(StatusReader, "poll")
    /\ IF Ok(StatusReader)
       THEN /\ shown' = (IF answer[StatusReader].value.state = shown.state
                            /\ answer[StatusReader].value.reason = shown.reason
                         THEN shown ELSE answer[StatusReader].value)
            /\ Call(StatusReader, "poll", "status", 0)
       ELSE GoTo(StatusReader, "idle") /\ UNCHANGED shown
    /\ readerKept /\ UNCHANGED <<after, heard, since>>

\* A change of state or reason is sent at once, one of the time alone after a pause.
StatusPolled ==
    /\ Done(StatusReader, "poll")
    /\ IF Ok(StatusReader)
       THEN shown' = answer[StatusReader].value /\ Call(StatusReader, "poll", "status", 0)
       ELSE GoTo(StatusReader, "idle") /\ UNCHANGED shown
    /\ readerKept /\ UNCHANGED <<after, heard, since>>

LogChecked ==
    /\ Done(LogReader, "check")
    /\ IF Ok(LogReader) THEN Call(LogReader, "begin", "highwater", 0) ELSE GoTo(LogReader, "idle")
    /\ readerKept /\ UNCHANGED <<shown, after, heard, since>>

\* The stream begins after the last line there is.
LogBegin ==
    /\ Done(LogReader, "begin")
    /\ IF Ok(LogReader)
       THEN /\ after' = answer[LogReader].value /\ since' = answer[LogReader].value
            /\ Call(LogReader, "poll", "logs", answer[LogReader].value)
       ELSE GoTo(LogReader, "idle") /\ UNCHANGED <<after, since>>
    /\ readerKept /\ UNCHANGED <<shown, heard>>

LogPolled ==
    /\ Done(LogReader, "poll")
    /\ LET lines == answer[LogReader].value
           next  == IF lines = <<>> THEN after ELSE Last(lines)
       IN  IF Ok(LogReader)
           THEN /\ heard' = heard \o lines /\ after' = next
                /\ Call(LogReader, "poll", "logs", next)
           ELSE GoTo(LogReader, "idle") /\ UNCHANGED <<heard, after>>
    /\ readerKept /\ UNCHANGED <<shown, since>>

-----------------------------------------------------------------------------
(* The GDB slot: POST and DELETE /gdb, and the thread that serves a client.  *)

gdbKept == UNCHANGED <<scene, limits, token, cmd, shown, after, heard, since>>

AttachSent ==
    /\ Uses(Attach) /\ At(Attach, "idle") /\ ~GdbConnected /\ used.gdb < limits.gdb /\ Count("gdb")
    /\ Call(Attach, "board", "status", 0) /\ gdbKept /\ UNCHANGED <<slot, closing, before>>

\* The new slot takes its place in the map; one it displaces is shut down.
AttachListens ==
    /\ Done(Attach, "board") /\ ~closing
    /\ IF Ok(Attach) THEN GoTo(Attach, "join") /\ slot' = TRUE /\ closing' = slot
       ELSE GoTo(Attach, "idle") /\ UNCHANGED <<slot, closing>>
    /\ gdbKept /\ UNCHANGED <<before, used>>

AttachStops ==
    /\ At(Attach, "join") /\ ~closing
    /\ Call(Attach, "stop", "command", [cmd |-> "stop", by |-> "attach"])
    /\ gdbKept /\ UNCHANGED <<slot, closing, before, used>>

AttachClears ==
    /\ Done(Attach, "stop")
    /\ IF Ok(Attach) THEN Call(Attach, "clear", "inspect", "clear") ELSE GoTo(Attach, "idle")
    /\ gdbKept /\ UNCHANGED <<slot, closing, before, used>>

DetachSent ==
    /\ Uses(Detach) /\ At(Detach, "idle") /\ used.gdb < limits.gdb /\ Count("gdb")
    /\ Call(Detach, "exists", "exists", 0) /\ gdbKept /\ UNCHANGED <<slot, closing, before>>

DetachCloses ==
    /\ Done(Detach, "exists") /\ ~closing
    /\ IF answer[Detach].value /\ slot
       THEN GoTo(Detach, "join") /\ slot' = FALSE /\ closing' = TRUE
       ELSE GoTo(Detach, "idle") /\ UNCHANGED <<slot, closing>>
    /\ gdbKept /\ UNCHANGED <<before, used>>

DetachClears ==
    /\ At(Detach, "join") /\ ~closing /\ Call(Detach, "clear", "inspect", "clear")
    /\ gdbKept /\ UNCHANGED <<slot, closing, before, used>>

AttachDone ==
    /\ \E h \in {Attach, Detach} : Done(h, "clear") /\ GoTo(h, "idle")
    /\ gdbKept /\ UNCHANGED <<slot, closing, before, used>>

threadKept == gdbKept /\ UNCHANGED slot

GdbConnect ==
    /\ At(Gdb, "idle") /\ slot /\ ~closing /\ used.gdb < limits.gdb /\ Count("gdb")
    /\ Call(Gdb, "hello", "inspect", "clear") /\ threadKept /\ UNCHANGED <<closing, before>>

\* The answers to clearing, and to what a client inspects.
GdbReady ==
    /\ \E place \in {"hello", "set"} : Done(Gdb, place) /\ GoTo(Gdb, "session")
    /\ threadKept /\ UNCHANGED <<closing, before, used>>

\* add_sw_breakpoint and remove_sw_breakpoint.
GdbSetBreak ==
    /\ At(Gdb, "session") /\ used.gdb < limits.gdb /\ Count("gdb")
    /\ \E op \in {"add", "remove"} : Call(Gdb, "set", "inspect", op)
    /\ threadKept /\ UNCHANGED <<closing, before>>

\* Registers and memory.
GdbLook ==
    /\ At(Gdb, "session") /\ used.gdb < limits.gdb /\ Count("gdb")
    /\ Call(Gdb, "set", "inspect", "look") /\ threadKept /\ UNCHANGED <<closing, before>>

GdbResume ==
    /\ At(Gdb, "session") /\ used.gdb < limits.gdb /\ Count("gdb")
    /\ \E how \in {"start", "step"} : Call(Gdb, "resumed", "command", [cmd |-> how, by |-> "gdb"])
    /\ threadKept /\ UNCHANGED <<closing, before>>

\* wait_running: a status to compare with, then polls until it moved or 2 s passed.
GdbResumed ==
    /\ Done(Gdb, "resumed") /\ Ok(Gdb) /\ Call(Gdb, "before", "status", 0)
    /\ threadKept /\ UNCHANGED <<closing, before, used>>

GdbBefore ==
    /\ Done(Gdb, "before") /\ Ok(Gdb) /\ before' = answer[Gdb].value
    /\ Call(Gdb, "moved", "status", 0) /\ threadKept /\ UNCHANGED <<closing, used>>

GdbMoved ==
    /\ Done(Gdb, "moved") /\ Ok(Gdb)
    /\ LET now == answer[Gdb].value
       IN  \/ Call(Gdb, "wait", "status", 0)
           \/ now = before /\ now.state # "running" /\ Call(Gdb, "moved", "status", 0)
    /\ threadKept /\ UNCHANGED <<closing, before, used>>

\* wait_for_stop_reason: a byte from GDB interrupts, a stop with a reason is reported.
GdbWaited ==
    /\ Done(Gdb, "wait") /\ Ok(Gdb) /\ ~closing
    /\ LET now == answer[Gdb].value
       IN  \/ Call(Gdb, "halt", "command", [cmd |-> "stop", by |-> "gdb"])
           \/ IF now.state # "running" /\ now.reason # "none" THEN GoTo(Gdb, "session")
              ELSE Call(Gdb, "wait", "status", 0)
    /\ threadKept /\ UNCHANGED <<closing, before, used>>

\* on_interrupt: stop, then polls until not running.
GdbHalted ==
    /\ \/ Done(Gdb, "halt") /\ Ok(Gdb) /\ Call(Gdb, "halting", "status", 0)
       \/ /\ Done(Gdb, "halting") /\ Ok(Gdb)
          /\ IF answer[Gdb].value.state # "running" THEN GoTo(Gdb, "session")
             ELSE Call(Gdb, "halting", "status", 0)
    /\ threadKept /\ UNCHANGED <<closing, before, used>>

\* Mutant: the breakpoints of a client that goes are left behind.
GdbLeaveBreaks ==
    /\ At(Gdb, "session") \/ Done(Gdb, "wait") \/ Done(Gdb, "halting")
    /\ GoTo(Gdb, "idle") /\ threadKept /\ UNCHANGED <<closing, before, used>>

\* The connection ends: by the client, by shutdown, or by a failed call.
GdbLeave ==
    /\ \/ At(Gdb, "session")
       \/ Done(Gdb, "wait")
       \/ pc[Gdb] \in {"resumed", "before", "moved", "halt", "halting"} /\ Done(Gdb, pc[Gdb])
          /\ (~Ok(Gdb) \/ At(Gdb, "halting"))
    /\ Call(Gdb, "bye", "inspect", "clear") /\ threadKept /\ UNCHANGED <<closing, before, used>>

GdbLeft ==
    /\ Done(Gdb, "bye") /\ GoTo(Gdb, "idle") /\ threadKept /\ UNCHANGED <<closing, before, used>>

\* The thread sees the shutdown flag between two clients, and is joined.
GdbJoined ==
    /\ At(Gdb, "idle") /\ closing /\ closing' = FALSE
    /\ UNCHANGED <<serverVars, pc, before, used>> /\ threadKept

-----------------------------------------------------------------------------
(* Calls that are given up: 60 s pass, or the client of the handler is gone. *)

Waiting(h) == pc[h] \notin {"idle", "open", "join", "session", "again"}

GiveUp(h) ==
    /\ Waiting(h) /\ h # Gdb /\ used.gaveUp < limits.gaveUp /\ Count("gaveUp")
    /\ pc' = [pc EXCEPT ![h] = IF h \in {StatusReader, LogReader} /\ @ = "poll" THEN "again" ELSE "idle"]
    /\ Abandon(h, <<"gone", used.gaveUp>>)
    /\ UNCHANGED <<scene, limits, token, cmd, shown, after, heard, since, slot, closing, before>>

\* A stream whose poll failed polls again.
StatusAgain ==
    /\ At(StatusReader, "again") /\ Call(StatusReader, "poll", "status", 0)
    /\ readerKept /\ UNCHANGED <<shown, after, heard, since>>

LogAgain ==
    /\ At(LogReader, "again") /\ Call(LogReader, "poll", "logs", after)
    /\ readerKept /\ UNCHANGED <<shown, after, heard, since>>

-----------------------------------------------------------------------------
ViewerStep(c) == ViewerFound(c) \/ ViewerOpen(c) \/ ViewerClosed(c)
RequestStep(c) == RequestChecked(c) \/ DeleteChecked(c) \/ DeleteSent(c) \/ RequestDone(c)
StatusStep == StatusChecked \/ StatusPolled \/ StatusAgain
LogStep == LogChecked \/ LogBegin \/ LogPolled \/ LogAgain
AttachStep == AttachListens \/ AttachStops \/ AttachClears \/ AttachDone \/ DetachCloses \/ DetachClears
GdbGoesOn == GdbReady \/ GdbResumed \/ GdbBefore \/ GdbMoved \/ GdbHalted \/ GdbLeft \/ GdbJoined
\* What the environment does of its own accord.
Outside ==
    \/ \E c \in Clients : ViewerConnect(c) \/ ViewerClose(c) \/ RequestSent(c)
    \/ \E h \in Handlers : ReaderConnect(h) \/ GiveUp(h)
    \/ AttachSent \/ DetachSent \/ GdbConnect \/ GdbSetBreak \/ GdbLook \/ GdbResume \/ GdbWaited

Senders == Handlers \cup {<<"gone", n>> : n \in 0..MaxGaveUp - 1}
Delivery == \E sender \in Senders : Deliver(sender)
ServerStep == (Delivery \/ WorkerStep \/ ArbiterStep \/ ArbiterExit) /\ UNCHANGED sessionVars

Next ==
    \/ ServerStep \/ Outside \/ StatusStep \/ LogStep \/ AttachStep \/ GdbGoesOn \/ GdbLeave
    \/ \E c \in Clients : ViewerStep(c) \/ RequestStep(c)

\* Requests sent are delivered, the worker and the arbiter go on, a stream polls on.
\* Nothing is asked of the other handlers, of clients or of GDB.
Fairness ==
    /\ \A sender \in Senders : WF_vars(Deliver(sender) /\ UNCHANGED sessionVars)
    /\ WF_vars(WorkerStep /\ UNCHANGED sessionVars)
    /\ WF_vars(ArbiterReport /\ UNCHANGED sessionVars)
    /\ WF_vars(StatusStep)

Spec == Init /\ [][Next]_vars /\ Fairness

-----------------------------------------------------------------------------
(* What the session layer promises.                                          *)

\* While a viewer stream is open, the simulation is held under its token: no other
\* stream is open, whatever checks, late detaches and abandoned attaches still run.
StreamHoldsViewer ==
    \A c \in Clients : At(Viewer(c), "open") /\ srv.exists => srv.viewer = token[c]

\* A stream that ends gives the simulation back, even when its detach is given up.
ViewerReleased ==
    \A c \in Clients : \A t \in 1..MaxTokens :
        (At(Viewer(c), "detach") /\ token[c] = t) ~> srv.viewer # t

\* The log stream sends every line kept since it began once and in order, also after
\* polls that were given up: what it skipped had left the server's window.
LogsGapless ==
    /\ \A i \in DOMAIN heard : heard[i] > (IF i = 1 THEN since ELSE heard[i - 1])
    /\ \A seq \in since + 1..after : seq \in ToSet(heard) \/ seq \notin ToSet(srv.logs)

\* A status stream on a living arbiter catches up with the arbiter's own status.
StatusReaches ==
    <>[](pc[StatusReader] \in {"poll", "again"} /\ arb.alive)
        => <>[](shown = arb.status)

LeftBehind ==
    pc[Gdb] \in {"bye", "idle"} /\ arb.breaks /\ srv.exists /\ ~arb.uncleared

\* When a GDB connection ends its breakpoints go, those included whose setting was answered
\* with an error, unless another client connects or the call that clears them itself
\* fails: its error is ignored (gdb/mod.rs:151).
BreaksCleared == LeftBehind ~> ~LeftBehind

\* The HTTP command of a client is not run while a GDB client is connected (docs/gdb.md:20).
NoCommandUnderGdb ==
    [][RunCommand /\ Arg.by = "http" => ~GdbConnected]_vars
=============================================================================
