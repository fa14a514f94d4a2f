---------------------------- MODULE CrawlShutdown ----------------------------
(***************************************************************************)
(* The life of one crawl command (cmd/vespasian/main.go, CrawlCmd.Run with *)
(* setupBrowserAndSignals, doCrawl and setupForceExitHandler;              *)
(* pkg/crawl/browser.go; pkg/crawl/rod_crawler.go).  Three goroutines run: *)
(* main, the crawl that doCrawl starts, and the handler that waits for a   *)
(* second signal.  They share the signal context, the result channel and   *)
(* Chrome, which any of them may tear down.  Signals, the crawl timeout and*)
(* a Chrome that stops answering come at any time.                         *)
(***************************************************************************)
EXTENDS Naturals

CONSTANT MaxSignals   \* bound of the model: signals the operator sends

ASSUME ShutdownAssumption == MaxSignals \in Nat

VARIABLES
  goroutine,   \* where each goroutine is
  headless,    \* the crawl uses Chrome
  chrome,      \* the Chrome process: "none", "running", "hung" or "dead"
  profile,     \* Chrome's temporary user data directory exists
  once,        \* killOnce and cleanupOnce: who is inside, or "fresh", "done"
  signals,     \* the signals sent so far
  notify,      \* the context's channel is registered for signals
  notified,    \* a signal sits in that channel
  sigDone,     \* the signal context is done
  timedOut,    \* the crawl timeout has passed
  force,       \* the handler's channel: "off", "armed" or "signaled"
  fired,       \* the backstop timer fired
  result,      \* what Crawl returned: results with no error ("complete"), with
               \* a context error ("stopped"), or another error ("failed")
  channel,     \* a result sits in doCrawl's channel
  outcome,     \* what the command came to
  exit         \* how the process ended; "no" while it runs

chromeVars == <<headless, chrome, profile, once>>
signalVars == <<signals, notify, notified, sigDone, force>>
resultVars == <<timedOut, fired, result, channel, outcome>>
commandVars == <<goroutine, chromeVars, signalVars, resultVars, exit>>

Goroutine == {"main", "crawl", "handler"}
CommandLabel == {"none",
          "launch", "connect", "notify", "spawn", "select", "drain", "write", "stop",
          "start", "crawling", "over", "report", "disconnect", "send", "sent",
          "wait", "register", "armed",
          "close", "kill", "clean", "exit"}

CommandTypeOK ==
  /\ goroutine \in [Goroutine -> CommandLabel]
  /\ headless \in BOOLEAN
  /\ chrome \in {"none", "running", "hung", "dead"}
  /\ profile \in BOOLEAN
  /\ once \in [{"kill", "clean"} -> {"fresh", "done"} \cup Goroutine]
  /\ signals \in 0..MaxSignals
  /\ notify \in BOOLEAN /\ notified \in BOOLEAN /\ sigDone \in BOOLEAN
  /\ timedOut \in BOOLEAN
  /\ force \in {"off", "armed", "signaled"}
  /\ fired \in BOOLEAN
  /\ result \in {"none", "complete", "stopped", "failed"}
  /\ channel \in BOOLEAN
  /\ outcome \in {"none", "launch failed", "crawl failed", "timed out", "received",
                  "written", "write failed", "bad proxy"}
  /\ exit \in {"no", "killed", "ok", "error", "forced"}

CommandInit ==
  /\ headless \in BOOLEAN
  /\ goroutine = [g \in Goroutine |-> IF g # "main" THEN "none"
                               ELSE IF headless THEN "launch" ELSE "notify"]
  /\ chrome = "none"
  /\ profile = FALSE
  /\ once = [o \in {"kill", "clean"} |-> "fresh"]
  /\ signals = 0
  /\ notify = FALSE /\ notified = FALSE /\ sigDone = FALSE
  /\ timedOut = FALSE
  /\ force = "off"
  /\ fired = FALSE
  /\ result = "none"
  /\ channel = FALSE
  /\ outcome = "none"
  /\ exit = "no"

CommandGoto(g, from, to) ==
  /\ exit = "no"
  /\ goroutine[g] = from
  /\ goroutine' = [goroutine EXCEPT ![g] = to]

-----------------------------------------------------------------------------
(* What comes from outside.  A signal reaches every channel registered for *)
(* it; with none registered it ends the process.                           *)
Signal ==
  /\ exit = "no"
  /\ signals < MaxSignals
  /\ signals' = signals + 1
  /\ notified' = (notified \/ notify)
  /\ force' = IF force = "off" THEN "off" ELSE "signaled"
  /\ exit' = IF notify \/ force # "off" THEN "no" ELSE "killed"
  /\ UNCHANGED <<goroutine, chromeVars, notify, sigDone, resultVars>>

(* The goroutine of signal.NotifyContext. *)
CancelOnSignal ==
  /\ exit = "no"
  /\ notified /\ ~sigDone
  /\ sigDone' = TRUE
  /\ UNCHANGED <<goroutine, chromeVars, signals, notify, notified, force, resultVars, exit>>

CrawlTimeout ==
  /\ exit = "no"
  /\ goroutine["crawl"] = "crawling"
  /\ ~timedOut
  /\ timedOut' = TRUE
  /\ UNCHANGED <<goroutine, chromeVars, signalVars, fired, result, channel, outcome, exit>>

ChromeHangs ==
  /\ exit = "no"
  /\ chrome = "running"
  /\ chrome' = "hung"
  /\ UNCHANGED <<goroutine, headless, profile, once, signalVars, resultVars, exit>>

(* The operator's last resort, for a process that no longer reacts. *)
KillProcess ==
  /\ exit = "no"
  /\ chrome = "hung"
  /\ exit' = "killed"
  /\ UNCHANGED <<goroutine, chromeVars, signalVars, resultVars>>

BackstopFires ==
  /\ exit = "no"
  /\ goroutine["main"] = "drain"
  /\ ~fired
  /\ fired' = TRUE
  /\ UNCHANGED <<goroutine, chromeVars, signalVars, timedOut, result, channel, outcome, exit>>

-----------------------------------------------------------------------------
(* Chrome.  Browser.close is a CDP call: it waits for an answer, fails once*)
(* the process is dead, and Chrome may be gone when it returns.            *)
CloseCall(g, from, to) ==
  /\ CommandGoto(g, from, to)
  /\ chrome # "hung"
  /\ chrome' \in {chrome, IF chrome = "running" THEN "dead" ELSE chrome}
  /\ UNCHANGED <<headless, profile, once, signalVars, resultVars, exit>>

(* sync.Once: the first caller runs the function and the others wait for   *)
(* it.  Mutant: the others do not wait.                                    *)
SkipOnceEarly(o, g, from, to) ==
  /\ CommandGoto(g, from, to)
  /\ once[o] \notin {"fresh", g}
  /\ UNCHANGED <<chromeVars, signalVars, resultVars, exit>>

SkipOnce(o, g, from, to) ==
  /\ CommandGoto(g, from, to)
  /\ once[o] = "done"
  /\ UNCHANGED <<chromeVars, signalVars, resultVars, exit>>

EnterOnce(o, g, at) ==
  /\ CommandGoto(g, at, at)
  /\ once[o] = "fresh"
  /\ once' = [once EXCEPT ![o] = g]
  /\ UNCHANGED <<headless, chrome, profile, signalVars, resultVars, exit>>

(* launcher.Kill, and launcher.Cleanup, which waits for Chrome to exit. *)
FinishKill(g, from, to) ==
  /\ CommandGoto(g, from, to)
  /\ once["kill"] = g
  /\ once' = [once EXCEPT !["kill"] = "done"]
  /\ chrome' = "dead"
  /\ UNCHANGED <<headless, profile, signalVars, resultVars, exit>>

FinishCleanup(g, from, to) ==
  /\ CommandGoto(g, from, to)
  /\ once["clean"] = g
  /\ chrome = "dead"
  /\ once' = [once EXCEPT !["clean"] = "done"]
  /\ profile' = FALSE
  /\ UNCHANGED <<headless, chrome, signalVars, resultVars, exit>>

(* Mutant: nobody kills; Browser.close is trusted to end Chrome. *)
KillOmitted(g, from, to) ==
  /\ CommandGoto(g, from, to)
  /\ UNCHANGED <<chromeVars, signalVars, resultVars, exit>>

Kill(g, from, to) ==
  EnterOnce("kill", g, from) \/ FinishKill(g, from, to) \/ SkipOnce("kill", g, from, to)

(* BrowserManager.Close: ask, kill, clean up. *)
CloseBrowser(g) ==
  \/ CloseCall(g, "close", "kill")
  \/ Kill(g, "kill", "clean")
  \/ EnterOnce("clean", g, "clean")
  \/ FinishCleanup(g, "clean", "exit")
  \/ SkipOnce("clean", g, "clean", "exit")

Closing == IF headless THEN "close" ELSE "exit"

-----------------------------------------------------------------------------
(* main: Chrome is launched before signals are watched. *)
Fail(from, what) ==
  /\ CommandGoto("main", from, "exit")
  /\ outcome' = what
  /\ exit' = "error"
  /\ UNCHANGED <<signalVars, timedOut, fired, result, channel>>

(* What the launcher started and left behind when it fails is its own: nothing here. *)
LaunchFails == Fail("launch", "launch failed") /\ UNCHANGED chromeVars

LaunchChrome ==
  /\ CommandGoto("main", "launch", "connect")
  /\ chrome' = "running"
  /\ profile' = TRUE
  /\ UNCHANGED <<headless, once, signalVars, resultVars, exit>>

(* A browser that cannot be reached is killed and cleaned up on the spot. *)
ConnectFails ==
  /\ Fail("connect", "launch failed")
  /\ chrome' = "dead"
  /\ profile' = FALSE
  /\ UNCHANGED <<headless, once>>

Connect ==
  /\ CommandGoto("main", "connect", "notify")
  /\ chrome # "hung"
  /\ UNCHANGED <<chromeVars, signalVars, resultVars, exit>>

NotifyContext ==
  /\ CommandGoto("main", "notify", "spawn")
  /\ notify' = TRUE
  /\ UNCHANGED <<chromeVars, signals, notified, sigDone, force, resultVars, exit>>

(* The handler and the crawl are started. *)
Spawn ==
  /\ exit = "no"
  /\ goroutine["main"] = "spawn"
  /\ goroutine' = [main |-> "select", crawl |-> "start", handler |-> "wait"]
  /\ UNCHANGED <<chromeVars, signalVars, resultVars, exit>>

(* doCrawl checks the proxy first; with Chrome, the launch has done so. *)
RejectProxy ==
  /\ exit = "no"
  /\ ~headless
  /\ goroutine["main"] = "spawn"
  /\ goroutine' = [goroutine EXCEPT !["main"] = "stop", !["handler"] = "wait"]
  /\ outcome' = "bad proxy"
  /\ UNCHANGED <<chromeVars, signalVars, timedOut, fired, result, channel, exit>>

(* Mutant: a crawl that was stopped counts as a failed one. *)
ReceiveStrictly(from) ==
  /\ channel
  /\ CommandGoto("main", from, IF result = "complete" THEN "write" ELSE "stop")
  /\ channel' = FALSE
  /\ outcome' = IF result = "complete" THEN "received" ELSE "crawl failed"
  /\ UNCHANGED <<chromeVars, signalVars, timedOut, fired, result, exit>>

(* Mutant: the error of the crawl is passed on as it is. *)
ReceiveUnclassified(from) ==
  /\ channel
  /\ CommandGoto("main", from, IF result = "complete" THEN "write" ELSE "stop")
  /\ channel' = FALSE
  /\ outcome' = IF result = "complete" THEN "received" ELSE result
  /\ UNCHANGED <<chromeVars, signalVars, timedOut, fired, result, exit>>

(* Either select of doCrawl takes the result; a context error of the crawl *)
(* is swallowed and its results are used.                                  *)
Receive(from) ==
  /\ channel
  /\ CommandGoto("main", from, IF result = "failed" THEN "stop" ELSE "write")
  /\ channel' = FALSE
  /\ outcome' = IF result = "failed" THEN "crawl failed" ELSE "received"
  /\ UNCHANGED <<chromeVars, signalVars, timedOut, fired, result, exit>>

Interrupted ==
  /\ CommandGoto("main", "select", "drain")
  /\ sigDone
  /\ UNCHANGED <<chromeVars, signalVars, resultVars, exit>>

(* Mutant: no backstop. *)
NeverGiveUp ==
  /\ CommandGoto("main", "drain", "drain")
  /\ UNCHANGED <<chromeVars, signalVars, resultVars, exit>>

GiveUp ==
  /\ CommandGoto("main", "drain", "stop")
  /\ fired
  /\ outcome' = "timed out"
  /\ UNCHANGED <<chromeVars, signalVars, timedOut, fired, result, channel, exit>>

(* JS analysis, which degrades and never fails, and writeOutput. *)
WriteOutput ==
  /\ CommandGoto("main", "write", "stop")
  /\ outcome' \in {"written", "write failed"}
  /\ UNCHANGED <<chromeVars, signalVars, timedOut, fired, result, channel, exit>>

(* The deferred cleanup: stop cancels the context and restores the default *)
(* action of signals, then Chrome is closed.                               *)
Stop ==
  /\ CommandGoto("main", "stop", Closing)
  /\ sigDone' = TRUE
  /\ notify' = FALSE
  /\ UNCHANGED <<chromeVars, signals, notified, force, resultVars, exit>>

ExitMain ==
  /\ exit = "no"
  /\ goroutine["main"] = "exit"
  /\ exit' = IF outcome = "written" THEN "ok" ELSE "error"
  /\ UNCHANGED <<goroutine, chromeVars, signalVars, resultVars>>

Main ==
  \/ LaunchFails \/ LaunchChrome
  \/ ConnectFails \/ Connect
  \/ NotifyContext
  \/ Spawn \/ RejectProxy
  \/ Receive("select") \/ Interrupted
  \/ Receive("drain") \/ GiveUp
  \/ WriteOutput
  \/ Stop
  \/ CloseBrowser("main")
  \/ ExitMain

-----------------------------------------------------------------------------
(* The crawl goroutine. *)
CrawlCtxDone == sigDone \/ timedOut

Returns(from, to, r) ==
  /\ CommandGoto("crawl", from, to)
  /\ result' = r
  /\ UNCHANGED <<chromeVars, signalVars, timedOut, fired, channel, outcome, exit>>

(* Validation, scope, cookies or the engine's connection fail; or the      *)
(* context is done before anything was started.                            *)
CrawlRefused ==
  \/ Returns("start", "send", "failed")
  \/ sigDone /\ Returns("start", "send", "stopped")

(* The engine connects to Chrome, cookies are set, the workers start. *)
StartEngine ==
  /\ CommandGoto("crawl", "start", "crawling")
  /\ chrome # "hung"
  /\ UNCHANGED <<chromeVars, signalVars, resultVars, exit>>

(* engine.Crawl returns (see RodCrawl). *)
EngineReturns ==
  /\ CommandGoto("crawl", "crawling", "over")
  /\ UNCHANGED <<chromeVars, signalVars, resultVars, exit>>

(* The context is looked at twice: to kill Chrome, and for the error. *)
CheckInterrupted ==
  /\ CommandGoto("crawl", "over", IF headless /\ CrawlCtxDone THEN "kill" ELSE "report")
  /\ UNCHANGED <<chromeVars, signalVars, resultVars, exit>>

Report ==
  LET next == IF headless THEN "disconnect" ELSE "send"
  IN  \/ CrawlCtxDone /\ Returns("report", next, "stopped")
      \/ ~CrawlCtxDone /\ Returns("report", next, "complete")
      \/ ~CrawlCtxDone /\ Returns("report", next, "failed")

(* Mutant: the result channel has no buffer, so that sending needs main    *)
(* waiting at the other end.                                               *)
SendUnbuffered ==
  /\ CommandGoto("crawl", "send", "sent")
  /\ goroutine["main"] \in {"select", "drain"}
  /\ channel' = TRUE
  /\ UNCHANGED <<chromeVars, signalVars, timedOut, fired, result, outcome, exit>>

Send ==
  /\ CommandGoto("crawl", "send", "sent")
  /\ channel' = TRUE
  /\ UNCHANGED <<chromeVars, signalVars, timedOut, fired, result, outcome, exit>>

Crawl ==
  \/ CrawlRefused \/ StartEngine
  \/ CheckInterrupted
  \/ Kill("crawl", "kill", "report")
  \/ Report
  \/ CloseCall("crawl", "disconnect", "send")
  \/ Send

-----------------------------------------------------------------------------
(* The force-exit handler: it registers for signals only when the context  *)
(* is done, so that the first signal is not taken for the second.          *)
FirstSignalHandled ==
  /\ CommandGoto("handler", "wait", "register")
  /\ sigDone
  /\ UNCHANGED <<chromeVars, signalVars, resultVars, exit>>

Register ==
  /\ CommandGoto("handler", "register", "armed")
  /\ force' = "armed"
  /\ UNCHANGED <<chromeVars, signals, notify, notified, sigDone, resultVars, exit>>

ForceExit ==
  /\ CommandGoto("handler", "armed", Closing)
  /\ force = "signaled"
  /\ UNCHANGED <<chromeVars, signalVars, resultVars, exit>>

ExitForced ==
  /\ exit = "no"
  /\ goroutine["handler"] = "exit"
  /\ exit' = "forced"
  /\ UNCHANGED <<goroutine, chromeVars, signalVars, resultVars>>

Handler ==
  \/ FirstSignalHandled
  \/ Register
  \/ ForceExit
  \/ CloseBrowser("handler")
  \/ ExitForced

-----------------------------------------------------------------------------
CommandOver == exit # "no" /\ UNCHANGED commandVars

CommandNext ==
  \/ Signal \/ CancelOnSignal \/ CrawlTimeout \/ ChromeHangs \/ KillProcess
  \/ BackstopFires
  \/ Main \/ Crawl \/ EngineReturns \/ Handler
  \/ CommandOver

(* Goroutines are scheduled, the backstop timer fires, and the engine      *)
(* returns unless Chrome has stopped answering.  Nobody promises a signal, *)
(* and Chrome need never answer again.                                     *)
CommandSpec ==
  /\ CommandInit /\ [][CommandNext]_commandVars
  /\ WF_commandVars(CancelOnSignal) /\ WF_commandVars(BackstopFires)
  /\ WF_commandVars(Main) /\ WF_commandVars(Crawl) /\ WF_commandVars(Handler)
  /\ WF_commandVars(chrome # "hung" /\ EngineReturns)

-----------------------------------------------------------------------------
(* No orphan: whichever goroutine ends the process, and however their three*)
(* tear-downs of Chrome overlap, Chrome is dead and its directory is gone  *)
(* first.  Only a signal nobody is registered for ends the process without.*)
NoOrphanChrome ==
  exit \in {"ok", "error", "forced"} => chrome \in {"none", "dead"} /\ ~profile

(* Graceful shutdown keeps what was crawled: a command that ends in an     *)
(* error had a crawl that failed by itself, or one that had not come back  *)
(* when the backstop fired; a signal or a timeout alone is no error.       *)
StoppedCrawlIsKept ==
  /\ exit = "ok" => result \in {"complete", "stopped"}
  /\ outcome = "crawl failed" => result = "failed"
  /\ outcome = "timed out" => fired /\ notified
  /\ exit = "error" => outcome \in {"launch failed", "bad proxy", "crawl failed",
                                     "timed out", "write failed"}

(* The backstop works: once the context is done, doCrawl returns even if   *)
(* the crawl never does, and a crawl that ends late still gets rid of its  *)
(* result.                                                                 *)
BackstopWorks ==
  /\ (sigDone /\ goroutine["main"] \in {"select", "drain"}) ~>
       (exit # "no" \/ goroutine["main"] \in {"write", "stop"})
  /\ (goroutine["crawl"] = "send") ~> (exit # "no" \/ goroutine["crawl"] = "sent")

(* A command told to stop stops, unless Chrome has stopped answering. *)
ShutdownEnds == sigDone ~> (exit # "no" \/ chrome = "hung")

(* The comment of onForceExit: cleanup runs with panic recovery "to        *)
(* guarantee exitFn is called".  Said of every force exit: once the second *)
(* signal is taken, the process exits.                                     *)
ForceExitGuaranteed ==
  (goroutine["handler"] \in {"close", "kill", "clean", "exit"}) ~> (exit # "no")
=============================================================================
