----------------------------- MODULE AgentResume -----------------------------
(***************************************************************************)
(* Resuming a VM and accepting its agent: runner.Resume                    *)
(* (src/pkg/roles/runner/resume.go, lines 33-270; unnamed/part_006 holds  *)
(* a copy, lines 462-652) around AgentServer.Accept and                    *)
(* its Close functions (src/pkg/ipc/agent_server.go, lines 48-260).        *)
(*                                                                         *)
(* Resume resumes the snapshot, sets suspendOnPanicWithError and calls     *)
(* Accept with a context bounded by the resume timeout.  Accept starts a   *)
(* watcher goroutine (w1), accepts one connection, starts a second watcher *)
(* (w2) and the goroutine running the registry's LinkStream (the Wait      *)
(* OnceValue), waits until the client's connect hook cancels readyCtx and  *)
(* returns; its deferred cancel() then ends its internal context.  Resume  *)
(* starts its own goroutine on the same Wait, calls the AfterResume RPC    *)
(* and returns.  A panic in Resume or in its goroutines runs the rescue    *)
(* hook: close the agent connection and listener, then take a snapshot.    *)
(*                                                                         *)
(* A Go select is modelled as Go runs it: a goroutine blocked in it takes  *)
(* the case of the first channel closed; a goroutine that reaches it when  *)
(* several channels are closed takes any one of them.  The helper          *)
(* utils.GetPanicHandler (not in this repository) is taken to run          *)
(* handleGoroutinePanics' function in a new goroutine and to cancel the    *)
(* internal context when it recovers a panic.                              *)
(***************************************************************************)
EXTENDS Naturals

CONSTANT
    CheckAcceptingClose  \* the rescue hook tests acceptingAgent.Close != nil

ASSUME CheckAcceptingClose \in BOOLEAN

\* The goroutines that wait in a select on Accept's internalCtx and readyCtx.
Selectors == {"main", "w1", "w2"}

VARIABLES
    mainPc,         \* Resume's goroutine, inside Accept while accepting
    suspendOnPanicWithError,
    internalDone,   \* Accept's internalCtx is done
    readyDone,      \* readyCtx is cancelled (the client connected)
    remoteDone,     \* Resume's ctx (Accept's remoteCtx) is done
    timedOut,       \* the resume timeout fired while Accept ran
    sel,            \* the select state of each selector
    w2pc,           \* the second watcher after its select
    closed,         \* the flag under closeLock
    lisOpen,        \* the unix listener is open
    dialed,         \* the VM's agent has dialed the listener
    connOpen,       \* the accepted connection is open
    closer,         \* who closed the connection
    link,           \* the Wait OnceValue: "none", "running", "nil", "err"
    acceptResult,   \* what Accept returned: "none", "ok", "err", "broken"
    waiter,         \* Resume's goroutine on acceptingAgent.Wait
    resumed,        \* ResumeSnapshot succeeded: the VM runs
    hasConn,        \* lis.Accept returned a connection (Close is set)
    rescuers,       \* goroutines running the rescue hook, with their step
    snapshots,      \* rescue snapshots taken
    runnerClose     \* the owner's resumedRunner.Close, with its step

vars == <<mainPc, suspendOnPanicWithError, internalDone, readyDone, remoteDone,
          timedOut, sel, w2pc, closed, lisOpen, dialed, connOpen, closer, link,
          acceptResult, waiter, resumed, hasConn, rescuers, snapshots, runnerClose>>

\* The goroutines that can run the rescue hook (OnAfterRecover).
Rescuers == {"main", "waiter"}

MainPCs == {"resumeSnapshot", "lisAccept", "serve", "await", "remotes",
            "afterResume", "panic", "returned", "failed"}

\* Resume is inside Accept: the timeout and the remote context reach
\* Accept's internal context.
InAccept == mainPc \in {"lisAccept", "serve", "await", "remotes"}

-----------------------------------------------------------------------------
(* Channels and selects *)

\* Closing internalCtx's or readyCtx's Done channel: every goroutine
\* blocked in the select wakes with that case.
Wake(case) == [g \in Selectors |-> IF sel[g] = "blocked" THEN case ELSE sel[g]]

CancelInternal ==
    /\ internalDone' = TRUE
    /\ sel' = IF internalDone THEN sel ELSE Wake("internal")

\* A goroutine reaches its select: it takes a closed channel's case, any
\* one if both are closed, or blocks.
ReachSelect(g) ==
    /\ sel[g] = "new"
    /\ \/ internalDone /\ sel' = [sel EXCEPT ![g] = "internal"]
       \/ readyDone /\ sel' = [sel EXCEPT ![g] = "ready"]
       \/ ~internalDone /\ ~readyDone /\ sel' = [sel EXCEPT ![g] = "blocked"]

-----------------------------------------------------------------------------
(* Resume's goroutine *)

\* Variant: suspendOnPanicWithError is never set.
ResumeSnapshotNoFlag ==
    /\ mainPc = "resumeSnapshot"
    /\ resumed' = TRUE
    /\ sel' = [sel EXCEPT !["w1"] = "new"]
    /\ mainPc' = "lisAccept"
    /\ UNCHANGED <<hasConn, suspendOnPanicWithError, internalDone, readyDone,
                   remoteDone, timedOut, w2pc, closed, lisOpen, dialed, connOpen,
                   closer, link, acceptResult, waiter, rescuers, snapshots, runnerClose>>

\* firecracker.ResumeSnapshot succeeds; suspendOnPanicWithError = true;
\* Accept starts w1 and calls lis.Accept   (resume.go 216-231, agent_server.go 80-112)
ResumeSnapshot ==
    /\ mainPc = "resumeSnapshot"
    /\ suspendOnPanicWithError' = TRUE
    /\ resumed' = TRUE
    /\ sel' = [sel EXCEPT !["w1"] = "new"]
    /\ mainPc' = "lisAccept"
    /\ UNCHANGED <<hasConn, internalDone, readyDone, remoteDone, timedOut, w2pc, closed,
                   lisOpen, dialed, connOpen, closer, link, acceptResult,
                   waiter, rescuers, snapshots, runnerClose>>

\* ResumeSnapshot fails (or its context ends): panic before the flag is
\* set   (resume.go 216-227)
ResumeSnapshotFails ==
    /\ mainPc = "resumeSnapshot"
    /\ mainPc' = "panic"
    /\ UNCHANGED <<resumed, hasConn, suspendOnPanicWithError, internalDone, readyDone, remoteDone,
                   timedOut, sel, w2pc, closed, lisOpen, dialed, connOpen,
                   closer, link, acceptResult, waiter, rescuers, snapshots, runnerClose>>

\* lis.Accept returns the agent's connection   (agent_server.go 112-113)
AcceptConn ==
    /\ mainPc = "lisAccept"
    /\ lisOpen /\ dialed
    /\ connOpen' = TRUE
    /\ hasConn' = TRUE
    /\ mainPc' = "serve"
    /\ UNCHANGED <<resumed, suspendOnPanicWithError, internalDone, readyDone, remoteDone,
                   timedOut, sel, w2pc, closed, lisOpen, dialed, closer, link,
                   acceptResult, waiter, rescuers, snapshots, runnerClose>>

\* lis.Accept fails because the listener was closed: under closeLock, a
\* closed listener with internalCtx done panics (Accept returns its
\* error); closed with internalCtx alive returns no error and no Remote;
\* otherwise it panics; the deferred cancel() ends internalCtx
\* (agent_server.go 113-126, 86-95)
AcceptFails ==
    /\ mainPc = "lisAccept"
    /\ ~lisOpen
    /\ acceptResult' = IF closed /\ ~internalDone THEN "broken" ELSE "err"
    /\ CancelInternal
    /\ mainPc' = "panic"
    /\ UNCHANGED <<resumed, hasConn, suspendOnPanicWithError, readyDone, remoteDone, timedOut,
                   w2pc, closed, lisOpen, dialed, connOpen, closer, link,
                   waiter, rescuers, snapshots, runnerClose>>

\* Set acceptingAgentServer.Close; start w2, the registry whose client
\* connect hook cancels readyCtx, and the goroutine running Wait (the
\* registry's LinkStream); reach the final select   (agent_server.go 128-237)
Serve ==
    /\ mainPc = "serve"
    /\ sel' = [sel EXCEPT !["w2"] = "new", !["main"] = "new"]
    /\ link' = "running"
    /\ mainPc' = "await"
    /\ UNCHANGED <<resumed, hasConn, suspendOnPanicWithError, internalDone, readyDone, remoteDone,
                   timedOut, w2pc, closed, lisOpen, dialed, connOpen, closer,
                   acceptResult, waiter, rescuers, snapshots, runnerClose>>

\* The final select of Accept: internalCtx done panics (Accept returns an
\* error), readyCtx done goes on to ForRemotes   (agent_server.go 239-248)
AwaitInternal ==
    /\ mainPc = "await"
    /\ sel["main"] = "internal"
    /\ acceptResult' = "err"
    /\ mainPc' = "panic"
    /\ UNCHANGED <<resumed, hasConn, suspendOnPanicWithError, internalDone, readyDone, remoteDone,
                   timedOut, sel, w2pc, closed, lisOpen, dialed, connOpen,
                   closer, link, waiter, rescuers, snapshots, runnerClose>>

\* ForRemotes finds the connected remote; Accept returns it and its
\* deferred cancel() ends internalCtx; Resume starts its goroutine on
\* acceptingAgent.Wait   (agent_server.go 250-261, resume.go 231-243)
AcceptReturns ==
    /\ mainPc = "await"
    /\ sel["main"] = "ready"
    /\ acceptResult' = "ok"
    /\ CancelInternal
    /\ waiter' = "waiting"
    /\ mainPc' = "afterResume"
    /\ UNCHANGED <<resumed, hasConn, suspendOnPanicWithError, readyDone, remoteDone, timedOut,
                   w2pc, closed, lisOpen, dialed, connOpen, closer, link,
                   rescuers, snapshots, runnerClose>>

\* The AfterResume RPC: answered over an open connection, it fails (and
\* Resume panics) over a closed one or once ctx is done  (resume.go 260-267)
AfterResume ==
    /\ mainPc = "afterResume"
    /\ mainPc' = IF connOpen /\ ~remoteDone THEN "returned" ELSE "panic"
    /\ UNCHANGED <<resumed, hasConn, suspendOnPanicWithError, internalDone, readyDone, remoteDone,
                   timedOut, sel, w2pc, closed, lisOpen, dialed, connOpen,
                   closer, link, acceptResult, waiter, rescuers, snapshots, runnerClose>>

-----------------------------------------------------------------------------
(* Accept's watchers and the goroutine running Wait *)

\* agentServer.Close: under closeLock set closed, remove the socket file
\* and close the listener that StartAgentServer opened
\* (agent_server.go 48-78)
AgentServerClose ==
    /\ closed' = TRUE
    /\ lisOpen' = FALSE

\* Variant: w1 returns without closing the agent server.
W1InternalNoClose ==
    /\ sel["w1"] = "internal"
    /\ sel' = [sel EXCEPT !["w1"] = "done"]
    /\ UNCHANGED <<mainPc, suspendOnPanicWithError, internalDone, readyDone,
                   remoteDone, timedOut, w2pc, closed, lisOpen, dialed, connOpen,
                   closer, link, acceptResult, waiter, resumed, hasConn,
                   rescuers, snapshots, runnerClose>>

\* w1: internalCtx done first closes the agent server: under closeLock set
\* closed, remove the socket and close the listener; readyCtx done first
\* does nothing   (agent_server.go 68-78, 98-110)
W1Internal ==
    /\ sel["w1"] = "internal"
    /\ sel' = [sel EXCEPT !["w1"] = "done"]
    /\ AgentServerClose
    /\ UNCHANGED <<mainPc, suspendOnPanicWithError, internalDone, readyDone,
                   remoteDone, timedOut, w2pc, dialed, connOpen, closer, link,
                   acceptResult, waiter, resumed, hasConn, rescuers, snapshots, runnerClose>>

W1Ready ==
    /\ sel["w1"] = "ready"
    /\ sel' = [sel EXCEPT !["w1"] = "done"]
    /\ UNCHANGED <<mainPc, suspendOnPanicWithError, internalDone, readyDone,
                   remoteDone, timedOut, w2pc, closed, lisOpen, dialed, connOpen,
                   closer, link, acceptResult, waiter, resumed, hasConn,
                   rescuers, snapshots, runnerClose>>

\* w2: internalCtx done first closes at once; readyCtx done first waits for
\* remoteCtx and then closes   (agent_server.go 148-166)
W2Select ==
    /\ \/ sel["w2"] = "internal" /\ w2pc' = "internal"
       \/ sel["w2"] = "ready" /\ remoteDone /\ w2pc' = "remote"
    /\ sel' = [sel EXCEPT !["w2"] = "done"]
    /\ UNCHANGED <<mainPc, suspendOnPanicWithError, internalDone, readyDone,
                   remoteDone, timedOut, closed, lisOpen, dialed, connOpen,
                   closer, link, acceptResult, waiter, resumed, hasConn,
                   rescuers, snapshots, runnerClose>>

\* acceptingAgentServer.Close: under closeLock set closed and close the
\* connection   (agent_server.go 128-135)
CloseConn(who) ==
    /\ closed' = TRUE
    /\ connOpen' = FALSE
    /\ closer' = IF connOpen THEN who ELSE closer

W2CloseConn ==
    /\ w2pc \in {"internal", "remote"}
    /\ CloseConn(w2pc)
    /\ w2pc' = "join"
    /\ UNCHANGED <<mainPc, suspendOnPanicWithError, internalDone, readyDone,
                   remoteDone, timedOut, sel, lisOpen, dialed, link,
                   acceptResult, waiter, resumed, hasConn, rescuers, snapshots, runnerClose>>

\* Close then returns Wait(): an error panics (Accept's handler cancels
\* internalCtx); otherwise w2 closes the agent server
\* (agent_server.go 137-141, 150-163)
W2Join ==
    /\ w2pc = "join"
    /\ link \in {"nil", "err"}
    /\ IF link = "err"
          THEN CancelInternal /\ UNCHANGED <<closed, lisOpen>>
          ELSE AgentServerClose /\ UNCHANGED <<internalDone, sel>>
    /\ w2pc' = "done"
    /\ UNCHANGED <<mainPc, suspendOnPanicWithError, readyDone, remoteDone,
                   timedOut, dialed, connOpen, closer, link, acceptResult,
                   waiter, resumed, hasConn, rescuers, snapshots, runnerClose>>

\* LinkStream returns once the connection is closed: under closeLock, a
\* close of ours yields remoteCtx.Err(), anything else an error; Accept's
\* goroutine on Wait panics on an error   (agent_server.go 193-229)
LinkEnds ==
    /\ link = "running"
    /\ ~connOpen
    /\ link' = IF closed /\ ~remoteDone THEN "nil" ELSE "err"
    /\ IF link' = "err" THEN CancelInternal ELSE UNCHANGED <<internalDone, sel>>
    /\ UNCHANGED <<mainPc, suspendOnPanicWithError, readyDone, remoteDone,
                   timedOut, w2pc, closed, lisOpen, dialed, connOpen, closer,
                   acceptResult, waiter, resumed, hasConn, rescuers, snapshots, runnerClose>>

-----------------------------------------------------------------------------
(* The rescue hook (OnAfterRecover of Resume's panic handler) *)

\* Resume's goroutine on acceptingAgent.Wait panics on an error
\* (resume.go 239-243)
WaiterReturns ==
    /\ waiter = "waiting"
    /\ link \in {"nil", "err"}
    /\ waiter' = IF link = "err" THEN "panic" ELSE "done"
    /\ UNCHANGED <<mainPc, suspendOnPanicWithError, internalDone, readyDone,
                   remoteDone, timedOut, sel, w2pc, closed, lisOpen, dialed,
                   connOpen, closer, link, acceptResult, resumed, hasConn,
                   rescuers, snapshots, runnerClose>>

Panicked(r) == IF r = "main" THEN mainPc = "panic" ELSE waiter = "panic"

\* Variant: the hook skips acceptingAgent.Close.
StartRescueNoConnClose(r) ==
    /\ Panicked(r)
    /\ rescuers[r] = "none"
    /\ rescuers' = [rescuers EXCEPT ![r] =
                      IF ~suspendOnPanicWithError THEN "done" ELSE "closeAgent"]
    /\ UNCHANGED <<mainPc, suspendOnPanicWithError, internalDone, readyDone,
                   remoteDone, timedOut, sel, w2pc, closed, lisOpen, dialed,
                   connOpen, closer, link, acceptResult, waiter, resumed,
                   hasConn, snapshots, runnerClose>>

\* A recovered panic: with suspendOnPanicWithError the hook closes the
\* accepting agent if Accept returned one (resume.go 158-168).  resume.go
\* tests only acceptingAgent != nil; part_006 490-499 also tests Close != nil.
\* Close is nil exactly when lis.Accept failed (hasConn FALSE).
StartRescue(r) ==
    /\ Panicked(r)
    /\ rescuers[r] = "none"
    /\ rescuers' = [rescuers EXCEPT ![r] =
                      IF ~suspendOnPanicWithError THEN "done"
                      ELSE IF acceptResult # "none" /\ (hasConn \/ ~CheckAcceptingClose)
                           THEN "closeConn"
                      ELSE "closeAgent"]
    /\ UNCHANGED <<mainPc, suspendOnPanicWithError, internalDone, readyDone,
                   remoteDone, timedOut, sel, w2pc, closed, lisOpen, dialed,
                   connOpen, closer, link, acceptResult, waiter, resumed,
                   hasConn, snapshots, runnerClose>>

RescueCloseConn(r) ==
    /\ rescuers[r] = "closeConn"
    /\ IF hasConn
          THEN /\ CloseConn("rescue")
               /\ rescuers' = [rescuers EXCEPT ![r] = "join"]
          ELSE /\ rescuers' = [rescuers EXCEPT ![r] = "crashed"]
               /\ UNCHANGED <<closed, connOpen, closer>>
    /\ UNCHANGED <<mainPc, suspendOnPanicWithError, internalDone, readyDone,
                   remoteDone, timedOut, sel, w2pc, lisOpen, dialed, link,
                   acceptResult, waiter, resumed, hasConn, snapshots, runnerClose>>

\* Close returns Wait()'s result (joined into errs)   (agent_server.go 137-141)
RescueJoin(r) ==
    /\ rescuers[r] = "join"
    /\ link \in {"nil", "err"}
    /\ rescuers' = [rescuers EXCEPT ![r] = "closeAgent"]
    /\ UNCHANGED <<mainPc, suspendOnPanicWithError, internalDone, readyDone,
                   remoteDone, timedOut, sel, w2pc, closed, lisOpen, dialed,
                   connOpen, closer, link, acceptResult, waiter, resumed,
                   hasConn, snapshots, runnerClose>>

\* agent.Close()   (resume.go 169-171, agent_server.go 68-78)
RescueCloseAgent(r) ==
    /\ rescuers[r] = "closeAgent"
    /\ AgentServerClose
    /\ rescuers' = [rescuers EXCEPT ![r] = "snapshot"]
    /\ UNCHANGED <<mainPc, suspendOnPanicWithError, internalDone, readyDone,
                   remoteDone, timedOut, sel, w2pc, dialed, connOpen, closer,
                   link, acceptResult, waiter, resumed, hasConn, snapshots, runnerClose>>

\* Variant: the hook's step is not advanced after the snapshot.
RescueSnapshotRepeats(r) ==
    /\ rescuers[r] = "snapshot"
    /\ snapshots' = snapshots + 1
    /\ UNCHANGED <<mainPc, suspendOnPanicWithError, internalDone, readyDone,
                   remoteDone, timedOut, sel, w2pc, closed, lisOpen, dialed,
                   connOpen, closer, link, acceptResult, waiter, resumed,
                   hasConn, rescuers, runnerClose>>

\* CreateSnapshot(Full) so that the resume can be retried; Resume's own
\* goroutine then returns its error   (resume.go 63-152, 173-176)
RescueSnapshot(r) ==
    /\ rescuers[r] = "snapshot"
    /\ snapshots' = snapshots + 1
    /\ rescuers' = [rescuers EXCEPT ![r] = "done"]
    /\ UNCHANGED <<mainPc, suspendOnPanicWithError, internalDone, readyDone,
                   remoteDone, timedOut, sel, w2pc, closed, lisOpen, dialed,
                   connOpen, closer, link, acceptResult, waiter, resumed,
                   hasConn, runnerClose>>

\* Resume returns the recovered error once its hook has run.
ResumeFails ==
    /\ mainPc = "panic"
    /\ rescuers["main"] = "done"
    /\ mainPc' = "failed"
    /\ UNCHANGED <<suspendOnPanicWithError, internalDone, readyDone, remoteDone,
                   timedOut, sel, w2pc, closed, lisOpen, dialed, connOpen,
                   closer, link, acceptResult, waiter, resumed, hasConn,
                   rescuers, snapshots, runnerClose>>

-----------------------------------------------------------------------------
(* resumedRunner.Close, called by the owner of a resumed runner *)

\* Variant: Close forgets acceptingAgent.Close and goes straight to Wait.
RunnerCloseConnSkipped ==
    /\ mainPc = "returned" /\ runnerClose = "none"
    /\ runnerClose' = "join"
    /\ UNCHANGED <<mainPc, suspendOnPanicWithError, internalDone, readyDone,
                   remoteDone, timedOut, sel, w2pc, closed, lisOpen, dialed,
                   connOpen, closer, link, acceptResult, waiter, resumed,
                   hasConn, rescuers, snapshots>>

\* acceptingAgent.Close: close the connection under closeLock
\* (resume.go 246-249, agent_server.go 128-135)
RunnerCloseConn ==
    /\ mainPc = "returned" /\ runnerClose = "none"
    /\ CloseConn("owner")
    /\ runnerClose' = "join"
    /\ UNCHANGED <<mainPc, suspendOnPanicWithError, internalDone, readyDone,
                   remoteDone, timedOut, sel, w2pc, lisOpen, dialed, link,
                   acceptResult, waiter, resumed, hasConn, rescuers, snapshots>>

\* acceptingAgent.Close returns Wait(): an error is Close's error; nil
\* goes on to agent.Close() and a second Wait() of the same OnceValue,
\* which returns the same nil   (resume.go 246-258, agent_server.go 137-141)
RunnerCloseJoin ==
    /\ runnerClose = "join"
    /\ link \in {"nil", "err"}
    /\ IF link = "err"
          THEN runnerClose' = "failed" /\ UNCHANGED <<closed, lisOpen>>
          ELSE runnerClose' = "done" /\ AgentServerClose
    /\ UNCHANGED <<mainPc, suspendOnPanicWithError, internalDone, readyDone,
                   remoteDone, timedOut, sel, w2pc, dialed, connOpen, closer,
                   link, acceptResult, waiter, resumed, hasConn, rescuers,
                   snapshots>>

RunnerCloseStep == RunnerCloseConn \/ RunnerCloseJoin

-----------------------------------------------------------------------------
(* The VM's agent, the resume timeout and the caller's context *)

\* The resumed VM's agent dials the vsock listener.
Dial ==
    /\ resumed /\ lisOpen /\ ~dialed
    /\ dialed' = TRUE
    /\ UNCHANGED <<mainPc, suspendOnPanicWithError, internalDone, readyDone,
                   remoteDone, timedOut, sel, w2pc, closed, lisOpen, connOpen,
                   closer, link, acceptResult, waiter, resumed, hasConn,
                   rescuers, snapshots, runnerClose>>

\* The agent links over the connection: the registry's OnClientConnect
\* hook cancels readyCtx   (agent_server.go 175-182)
ClientConnects ==
    /\ link = "running" /\ connOpen /\ ~readyDone
    /\ readyDone' = TRUE
    /\ sel' = Wake("ready")
    /\ UNCHANGED <<mainPc, suspendOnPanicWithError, internalDone, remoteDone,
                   timedOut, w2pc, closed, lisOpen, dialed, connOpen, closer,
                   link, acceptResult, waiter, resumed, hasConn, rescuers,
                   snapshots, runnerClose>>

\* resumeSnapshotAndAcceptCtx reaches the resume timeout while Accept runs.
Timeout ==
    /\ InAccept /\ ~internalDone
    /\ timedOut' = TRUE
    /\ CancelInternal
    /\ UNCHANGED <<mainPc, suspendOnPanicWithError, readyDone, remoteDone, w2pc,
                   closed, lisOpen, dialed, connOpen, closer, link,
                   acceptResult, waiter, resumed, hasConn, rescuers, snapshots, runnerClose>>

\* The caller cancels Resume's ctx (the parent of Accept's contexts).
RemoteCancel ==
    /\ ~remoteDone
    /\ remoteDone' = TRUE
    /\ IF InAccept THEN CancelInternal ELSE UNCHANGED <<internalDone, sel>>
    /\ UNCHANGED <<mainPc, suspendOnPanicWithError, readyDone, timedOut, w2pc,
                   closed, lisOpen, dialed, connOpen, closer, link,
                   acceptResult, waiter, resumed, hasConn, rescuers, snapshots, runnerClose>>

-----------------------------------------------------------------------------

Init ==
    /\ mainPc = "resumeSnapshot"
    /\ suspendOnPanicWithError = FALSE
    /\ internalDone = FALSE
    /\ readyDone = FALSE
    /\ remoteDone = FALSE
    /\ timedOut = FALSE
    /\ sel = [g \in Selectors |-> "none"]
    /\ w2pc = "none"
    /\ closed = FALSE
    /\ lisOpen = TRUE      \* StartAgentServer listened before Resume's block
    /\ dialed = FALSE
    /\ connOpen = FALSE
    /\ closer = "none"
    /\ link = "none"
    /\ acceptResult = "none"
    /\ waiter = "none"
    /\ resumed = FALSE
    /\ hasConn = FALSE
    /\ rescuers = [r \in Rescuers |-> "none"]
    /\ snapshots = 0
    /\ runnerClose = "none"

MainStep ==
    \/ ResumeSnapshot \/ AcceptConn \/ AcceptFails \/ Serve
    \/ AwaitInternal \/ AcceptReturns \/ AfterResume \/ ResumeFails

WatcherStep ==
    \/ W1Internal \/ W1Ready \/ W2Select \/ W2CloseConn \/ W2Join
    \/ LinkEnds \/ WaiterReturns

RescueStep(r) ==
    \/ StartRescue(r) \/ RescueCloseConn(r) \/ RescueJoin(r)
    \/ RescueCloseAgent(r) \/ RescueSnapshot(r)

\* Resume has returned; goroutines it leaked may still wait on remoteCtx.
Finished ==
    /\ mainPc \in {"returned", "failed"}
    /\ UNCHANGED vars

Next ==
    \/ MainStep \/ ResumeSnapshotFails
    \/ \E g \in Selectors : ReachSelect(g) /\ UNCHANGED <<mainPc,
          suspendOnPanicWithError, internalDone, readyDone, remoteDone,
          timedOut, w2pc, closed, lisOpen, dialed, connOpen, closer, link,
          acceptResult, waiter, resumed, hasConn, rescuers, snapshots, runnerClose>>
    \/ WatcherStep
    \/ \E r \in Rescuers : RescueStep(r)
    \/ Dial \/ ClientConnects \/ Timeout \/ RemoteCancel
    \/ RunnerCloseStep
    \/ Finished

\* Goroutines are scheduled fairly and the resume timer fires; the agent's
\* dial and link, a failing ResumeSnapshot, the caller's cancel and the
\* owner's call of Close are not assumed; a Close once called runs on.
Fairness ==
    /\ WF_vars(MainStep)
    /\ \A g \in Selectors : WF_vars(ReachSelect(g) /\ UNCHANGED <<mainPc,
          suspendOnPanicWithError, internalDone, readyDone, remoteDone,
          timedOut, w2pc, closed, lisOpen, dialed, connOpen, closer, link,
          acceptResult, waiter, resumed, hasConn, rescuers, snapshots, runnerClose>>)
    /\ WF_vars(WatcherStep)
    /\ \A r \in Rescuers : WF_vars(RescueStep(r))
    /\ WF_vars(Timeout)
    /\ WF_vars(RunnerCloseJoin)

Spec == Init /\ [][Next]_vars /\ Fairness

-----------------------------------------------------------------------------
(* Properties *)

TypeOK ==
    /\ mainPc \in MainPCs
    /\ {suspendOnPanicWithError, internalDone, readyDone, remoteDone, timedOut,
        closed, lisOpen, dialed, connOpen, resumed, hasConn} \subseteq BOOLEAN
    /\ sel \in [Selectors -> {"none", "new", "blocked", "internal", "ready", "done"}]
    /\ w2pc \in {"none", "internal", "remote", "join", "done"}
    /\ closer \in {"none", "internal", "remote", "rescue", "owner"}
    /\ link \in {"none", "running", "nil", "err"}
    /\ acceptResult \in {"none", "ok", "err", "broken"}
    /\ waiter \in {"none", "waiting", "panic", "done"}
    /\ rescuers \in [Rescuers -> {"none", "closeConn", "join", "closeAgent", "crashed",
                                  "snapshot", "done"}]
    \* one rescue snapshot at most per goroutine that can panic
    /\ snapshots \in 0..2
    /\ runnerClose \in {"none", "join", "done", "failed"}

\* Resume returns, with or without an error, whatever the agent does: the
\* resume timeout ends Accept (w1 closes the listener, the final select
\* takes internalCtx) and every Close waits only for a LinkStream that the
\* close itself ends.
ResumeReturns == <>(mainPc \in {"returned", "failed"})

\* A Resume that fails after ResumeSnapshot succeeded has taken a rescue
\* snapshot (the comment "If a resume failed, flush the snapshot so that we
\* can re-try" on suspendOnPanicWithError).
FailedResumeRescued == mainPc = "failed" /\ resumed => snapshots >= 1

\* "Connections need to be closed before creating the snapshot": every
\* rescue snapshot is taken with the agent's connection and its listener
\* closed, whichever goroutine panicked.
RescueAfterAgentClosed ==
    [][snapshots' > snapshots => ~connOpen /\ ~lisOpen]_vars

\* The owner's resumedRunner.Close returns: acceptingAgent.Close closes
\* the connection before it waits for LinkStream, so the Wait it joins
\* ends whatever the agent and the caller's context do.
RunnerCloseReturns == runnerClose = "join" ~> runnerClose \in {"done", "failed"}

\* Once Accept has returned the agent's connection, Accept's own failure
\* path (w2 on internalCtx) never closes it; only the caller's ctx, Close
\* or the rescue hook may.
AcceptedConnKept == acceptResult = "ok" => closer # "internal"

\* The rescue hook never panics itself.  A panic raised inside
\* OnAfterRecover is not recovered by anything above it: the runner dies
\* without the rescue snapshot and without returning Resume's error.  It
\* would panic by calling acceptingAgent.Close when Accept returned an
\* AcceptingAgentServer whose Close was never set (lis.Accept failed).
NoPanicInRescue == \A r \in Rescuers : rescuers[r] # "crashed"

====
