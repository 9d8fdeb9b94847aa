----------------------------- MODULE EmuThread -----------------------------
(***************************************************************************)
(* The pause protocol between the UI thread and the emulator's thread of   *)
(* the wx port (wx/np2mt.cpp), with the handlers of the main window that   *)
(* use it (wx/np2frame.cpp).                                               *)
(*                                                                         *)
(* The threads share three volatile flags and no lock: every read or write *)
(* of a flag is a step of its own.  np2_exec, which runs a frame, is the   *)
(* state "exec" of the thread that called it.                              *)
(*                                                                         *)
(* Not modelled: a reordering of the flags' accesses by the processor, the *)
(* sound that StopEmulation and StartEmulation mute, and the critical      *)
(* section (np2_multithread_enter_cs), which nothing in the port enters.   *)
(***************************************************************************)
EXTENDS Naturals

CONSTANT Polls   \* how often np2_multithread_suspend looks at s_paused (500 ms)

ASSUME PollsAssumption == Polls \in Nat \ {0}

VARIABLES
  running,      \* s_running
  pause_req,    \* s_pause_req
  paused,       \* s_paused
  emuthread,    \* s_emuthread is not NULL
  multithread,  \* np2wabcfg.multithread
  m_running,    \* Np2Frame::m_running: the user has not paused the emulator
  dialog,       \* the preferences are open, in an event loop of their own
  emu,          \* where the emulator's thread is
  ui,           \* where the UI thread is
  purpose,      \* what the suspend in progress is for
  polls,        \* looks at s_paused that are left (timeout_ms)
  was_paused    \* history: s_paused when the last suspend was called

shared == <<running, pause_req, paused, emuthread>>
frame == <<multithread, m_running, dialog>>
waiting == <<purpose, polls, was_paused>>
vars == <<shared, frame, emu, ui, waiting>>

EmuStates == {"none", "while", "look", "idle", "go", "exec", "leave", "done"}
UiStates == {"loop", "suspend", "section", "resume", "exec", "stop", "join", "closed"}

(* pause: the user pauses; dialog: the preferences; disk: a medium is       *)
(* changed; shot: a screenshot is written.                                  *)
Purposes == {"pause", "dialog", "disk", "shot"}

TypeOK ==
  /\ running \in BOOLEAN /\ pause_req \in BOOLEAN /\ paused \in BOOLEAN
  /\ emuthread \in BOOLEAN /\ multithread \in BOOLEAN
  /\ m_running \in BOOLEAN /\ dialog \in BOOLEAN /\ was_paused \in BOOLEAN
  /\ emu \in EmuStates
  /\ ui \in UiStates
  /\ purpose \in Purposes
  /\ polls \in 0 .. Polls

(* The window has been built: np2_multithread_start has run if configured.  *)
Init ==
  /\ multithread \in BOOLEAN
  /\ emuthread = multithread
  /\ running = multithread
  /\ pause_req = FALSE
  /\ paused = FALSE
  /\ m_running = TRUE
  /\ dialog = FALSE
  /\ emu = IF multithread THEN "while" ELSE "none"
  /\ ui = "loop"
  /\ purpose = "pause"
  /\ polls = 0
  /\ was_paused = FALSE

-----------------------------------------------------------------------------
(* emu_thread_func, which looks at s_running, then at s_pause_req.          *)

EmuGoto(from, to) ==
  /\ emu = from
  /\ emu' = to
  /\ UNCHANGED <<running, pause_req, emuthread, frame, ui, waiting>>

EmuWhile == EmuGoto("while", IF running THEN "look" ELSE "leave") /\ UNCHANGED paused
EmuLook == EmuGoto("look", IF pause_req THEN "idle" ELSE "go") /\ UNCHANGED paused
EmuIdle == EmuGoto("idle", "while") /\ paused' = TRUE

(* mutant: s_paused is not taken back *)
GoStillPaused == paused

GoPaused == FALSE
EmuGo == EmuGoto("go", "exec") /\ paused' = GoPaused
EmuReturns == EmuGoto("exec", "while") /\ UNCHANGED paused
EmuLeave == EmuGoto("leave", "done") /\ paused' = TRUE

Emulator == EmuWhile \/ EmuLook \/ EmuIdle \/ EmuGo \/ EmuReturns \/ EmuLeave

-----------------------------------------------------------------------------
(* np2_multithread_suspend, _resume and _stop, called by the UI thread.     *)

(* mutants: no wait at all; a wait without a timeout *)
DontWait == TRUE
WaitReported == paused

(* The wait ends with the report or with the timeout.                       *)
WaitOver == paused \/ polls = 0

Suspend(for) ==
  /\ ui = "loop"
  /\ pause_req' = TRUE
  /\ purpose' = for
  /\ polls' = Polls
  /\ was_paused' = paused
  /\ ui' = "suspend"
  /\ UNCHANGED <<running, paused, emuthread, multithread, emu>>

(* mutant: the time is not counted down *)
Forever == UNCHANGED polls

PollOnce == polls' = polls - 1

SuspendPolls ==
  /\ ui = "suspend"
  /\ ~WaitOver
  /\ PollOnce
  /\ UNCHANGED <<shared, frame, emu, ui, purpose, was_paused>>

(* A disk or a screenshot is handled at once, before the next event.        *)
SuspendReturns ==
  /\ ui = "suspend"
  /\ WaitOver
  /\ ui' = IF purpose \in {"disk", "shot"} THEN "section" ELSE "loop"
  /\ dialog' = (dialog \/ purpose = "dialog")
  /\ UNCHANGED <<shared, multithread, m_running, emu, waiting>>

(* np2_multithread_resume clears s_paused, then s_pause_req.                *)
ResumeFirst == paused' = FALSE /\ ui' = "resume"

(* mutant: the request is left standing *)
KeepRequest == pause_req

ClearRequest == FALSE

ResumeReturns ==
  /\ ui = "resume"
  /\ pause_req' = ClearRequest
  /\ ui' = "loop"
  /\ UNCHANGED <<running, paused, emuthread, frame, emu, waiting>>

StartEmulation ==
  IF m_running THEN ResumeFirst ELSE ui' = "loop" /\ UNCHANGED paused

(* mutant: stop does not tell the thread *)
StopKeepsRunning == running

StopRunning == FALSE

StopClears ==
  /\ ui = "stop"
  /\ running' = StopRunning
  /\ ui' = "join"
  /\ UNCHANGED <<pause_req, paused, emuthread, frame, emu, waiting>>

(* NP2_Thread_Wait returns when the thread has ended.                       *)
Joined ==
  /\ ui = "join"
  /\ emu = "done"
  /\ emuthread' = FALSE
  /\ ui' = "closed"
  /\ UNCHANGED <<running, pause_req, paused, frame, emu, waiting>>

-----------------------------------------------------------------------------
(* The handlers of the window.  While the preferences are open only timers  *)
(* are handled.                                                             *)

OnEmuStartPause ==
  /\ ~dialog
  /\ m_running' = ~m_running
  /\ IF m_running
     THEN Suspend("pause")
     ELSE /\ ui = "loop"
          /\ ResumeFirst
          /\ UNCHANGED <<running, pause_req, emuthread, multithread, emu, waiting>>
  /\ UNCHANGED dialog

OnEmuPreference == ~dialog /\ Suspend("dialog") /\ UNCHANGED <<m_running, dialog>>
OnDiskChange == ~dialog /\ Suspend("disk") /\ UNCHANGED <<m_running, dialog>>
OnCycleScreenshotTimer == Suspend("shot") /\ UNCHANGED <<m_running, dialog>>

DiskChanged ==
  /\ ui = "section" /\ purpose = "disk"
  /\ StartEmulation
  /\ UNCHANGED <<running, pause_req, emuthread, frame, emu, waiting>>

ScreenshotWritten ==
  /\ ui = "section" /\ purpose = "shot"
  /\ ResumeFirst
  /\ UNCHANGED <<running, pause_req, emuthread, frame, emu, waiting>>

(* The preferences are closed, with OK or not.                              *)
PreferencesClosed ==
  /\ ui = "loop" /\ dialog
  /\ dialog' = FALSE
  /\ multithread' \in BOOLEAN
  /\ StartEmulation
  /\ UNCHANGED <<running, pause_req, emuthread, m_running, emu, waiting>>

(* OnEmuTimer drives the emulator itself when multithread is off.           *)
OnEmuTimer ==
  /\ ui = "loop"
  /\ ~multithread /\ m_running
  /\ ui' = "exec"
  /\ UNCHANGED <<shared, frame, emu, waiting>>

TimerReturns ==
  /\ ui = "exec"
  /\ ui' = "loop"
  /\ UNCHANGED <<shared, frame, emu, waiting>>

(* np2_multithread_stop returns at once if there is no thread.              *)
OnClose ==
  /\ ui = "loop" /\ ~dialog
  /\ IF emuthread
     THEN ui' = "stop" /\ pause_req' = FALSE
     ELSE ui' = "closed" /\ UNCHANGED pause_req
  /\ UNCHANGED <<running, paused, emuthread, frame, emu, waiting>>

(* What the UI thread does without waiting for the user.                    *)
UiContinues ==
  \/ SuspendPolls \/ SuspendReturns \/ ResumeReturns
  \/ StopClears \/ Joined
  \/ DiskChanged \/ ScreenshotWritten \/ TimerReturns

UserActs ==
  \/ OnEmuStartPause \/ OnEmuPreference \/ OnDiskChange
  \/ OnCycleScreenshotTimer \/ PreferencesClosed \/ OnEmuTimer \/ OnClose

Next == Emulator \/ UiContinues \/ UserActs

Spec == Init /\ [][Next]_vars

(* A handler that was entered is run to its end.                            *)
FairSpec == Spec /\ WF_vars(UiContinues)

(* The emulator's thread is scheduled, and its frames end.                  *)
EmulatorRuns == WF_vars(Emulator)
-----------------------------------------------------------------------------
(* While the emulator's thread runs a frame it does not report itself idle, *)
(* whatever suspends and resumes have come in between.                      *)
ExecNotReported == emu = "exec" => ~paused

(* A suspend that did not find an old report, and that returned before its  *)
(* timeout, has stopped the emulator: it stays out of np2_exec for as long  *)
(* as the section lasts that the suspend was called for.                    *)
FreshSuspendStops ==
  ui = "section" /\ polls > 0 /\ ~was_paused => emu \notin {"go", "exec"}

(* Handlers that overlap the preferences or a pause by the user may well    *)
(* resume too early, but no order of handlers leaves the request standing   *)
(* when the user has the emulator running and no dialog is open.            *)
NoRequestLeft == ui = "loop" /\ ~dialog /\ m_running => ~pause_req

(* What the above rest on: the request stands from the call of a suspend to *)
(* the end of its section, and a fresh report in it is not outdated.        *)
RequestStands ==
  /\ ui = "suspend" /\ ~was_paused =>
       pause_req /\ (paused => emu \notin {"go", "exec"})
  /\ ui = "section" /\ polls > 0 /\ ~was_paused =>
       pause_req /\ paused /\ emu \notin {"go", "exec"}
  /\ ui = "exec" /\ ~dialog /\ m_running => ~pause_req
  /\ ui = "suspend" /\ purpose = "pause" => ~m_running

IInv == TypeOK /\ ExecNotReported /\ NoRequestLeft /\ RequestStands

(* Even if np2_exec hangs, a suspend returns to the UI.                     *)
SuspendEnds == (ui = "suspend") ~> (ui # "suspend")

(* Closing the window ends the thread, in whatever state it was.            *)
CloseEnds == EmulatorRuns => ((ui = "stop") ~> (ui = "closed"))

(* If the user lets the emulator run, its thread runs frames again.         *)
RunsAgain ==
  EmulatorRuns /\ <>[](ui = "loop" /\ ~dialog /\ m_running /\ emuthread) =>
    []<>(emu = "exec")

(* np2mt.h: suspend waits until the thread is actually idle (in time).      *)
SuspendWaits == ui = "section" /\ polls > 0 => emu # "exec"
=============================================================================
