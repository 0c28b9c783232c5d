----------------------------- MODULE WinContext -----------------------------
(***************************************************************************)
(* The Windows backend under the contexts of libusbx: windows_init and     *)
(* windows_exit, which all contexts of a process share (os/windows_usb.c), *)
(* and the thread that reads the clock for windows_clock_gettime.          *)
(*                                                                         *)
(* A semaphore makes windows_init and windows_exit exclude each other.     *)
(* Each is one step, except that the last windows_exit waits for the       *)
(* thread.  The default context may be freed under one of its users (see   *)
(* UsbContext): what such a user does then is undefined, here nothing.     *)
(***************************************************************************)
EXTENDS UsbContext

CONSTANTS
  Unheld, Lost,          (* the semaphore is free, is never released       *)
  Callers,               (* users who ask for the time                     *)
  MAX_TIMER_SEMAPHORES,
  MaxRetries,            (* bound: waits for the clock that fail           *)
  MaxUnbalanced          (* bound: calls of windows_exit that fail         *)

ASSUME WinContextAssumption ==
  /\ {Unheld, Lost} \cap Users = {} /\ Unheld # Lost /\ Callers \subseteq Users
  /\ MAX_TIMER_SEMAPHORES \in Nat /\ MaxRetries \in Nat /\ MaxUnbalanced \in Nat

VARIABLES
  semaphore,         (* Unheld, Lost, or the user in windows_exit          *)
  concurrent_usage,
  backed,            (* contexts between windows_init and windows_exit     *)
  unbalanced,        (* calls of windows_exit that did not count           *)
  is_polling_set,
  thread,            (* where timer_thread is                              *)
  hires_frequency,   (* it has found the counter                           *)
  asked, quit,       (* the events timer_request                           *)
  request_count, nb_responses, timer_response,
  clock,             (* where a user is in windows_clock_gettime           *)
  retries

backendv == <<semaphore, concurrent_usage, backed, unbalanced, is_polling_set>>
threadv  == <<thread, hires_frequency, quit>>
timerv   == <<asked, request_count, nb_responses, timer_response>>
clockv   == <<clock, retries>>
allvars  == <<contextv, backendv, threadv, timerv, clockv>>

WinInit ==
  /\ ContextInit
  /\ semaphore = Unheld /\ concurrent_usage = -1 /\ backed = {} /\ unbalanced = 0
  /\ is_polling_set = FALSE
  /\ thread = "none" /\ hires_frequency = FALSE /\ quit = FALSE /\ asked = FALSE
  /\ request_count = 0 /\ nb_responses = 0 /\ timer_response = 0
  /\ clock = [u \in Users |-> "idle"] /\ retries = 0

-----------------------------------------------------------------------------
(* libusb_init and libusb_exit                                             *)

First == concurrent_usage = -1

\* init_polling, exit_polling: nothing to do if the table is, or is not, set up
InitPolling == is_polling_set' = TRUE
ExitPolling == is_polling_set' = FALSE

\* windows_init: the first one creates the thread and what it shares.
CountUsage ==
  /\ semaphore = Unheld
  /\ concurrent_usage' = concurrent_usage + 1 /\ InitPolling
  /\ IF First
     THEN thread' = "start" /\ quit' = FALSE /\ asked' = FALSE /\ timer_response' = 0
     ELSE UNCHANGED <<thread, quit, asked, timer_response>>
  /\ UNCHANGED <<semaphore, hires_frequency, request_count, nb_responses>>

BackendInit(c) == CountUsage /\ backed' = backed \cup {c} /\ UNCHANGED <<unbalanced, clockv>>

InitContext(u, c, handed) == Create(u, c, handed) /\ BackendInit(c)

ReuseContext(u) == Reuse(u) /\ UNCHANGED <<backendv, threadv, timerv, clockv>>

\* windows_init finds no semaphore, or cannot wait for it.
BackendRefused == UNCHANGED <<backendv, threadv>>

(* The first windows_init fails: this version of Windows, or an object of  *)
(* the timer that cannot be created.  It is undone, but for the table of   *)
(* poll descriptors.                                                       *)
BackendFails ==
  /\ semaphore = Unheld /\ First
  /\ InitPolling \/ UNCHANGED is_polling_set
  /\ UNCHANGED <<semaphore, concurrent_usage, backed, unbalanced, threadv>>

\* It returns where the libraries cannot be loaded: nobody releases the semaphore.
LibrariesMissing ==
  /\ semaphore = Unheld /\ First
  /\ semaphore' = Lost /\ concurrent_usage' = concurrent_usage + 1
  /\ InitPolling
  /\ UNCHANGED <<backed, unbalanced, threadv>>

\* usbi_io_init fails: windows_exit follows, and the thread has come and gone.
IoInitFails ==
  /\ semaphore = Unheld
  /\ IF First THEN ExitPolling ELSE UNCHANGED is_polling_set
  /\ hires_frequency' = (hires_frequency \/ First)
  /\ UNCHANGED <<semaphore, concurrent_usage, backed, unbalanced, thread, quit>>

(* windows_exit finds no semaphore, or cannot wait for it: it returns      *)
(* before it counts, and has no way to say so.                             *)
ExitRefused == unbalanced < MaxUnbalanced /\ unbalanced' = unbalanced + 1

\* usbi_io_init fails, and so does the windows_exit that follows.
IoInitStays == CountUsage /\ ExitRefused /\ UNCHANGED backed

InitContextFails(u, c) ==
  /\ CreateFails(u, c)
  /\ \/ /\ BackendRefused \/ BackendFails \/ LibrariesMissing \/ IoInitFails
        /\ UNCHANGED timerv
     \/ IoInitStays
  /\ UNCHANGED clockv

\* Nobody has freed, or is about to free, the context that u was given.
Usable(u) ==
  /\ user[u] = "in" /\ got[u] \in live /\ Context(u) = got[u]
  /\ ~\E v \in Users : user[v] = "leaving" /\ mine[v] = got[u]

ExitContext(u) ==
  /\ Usable(u) /\ clock[u] = "idle"
  /\ ExitCounted(u) \/ ExitLast(u)
  /\ UNCHANGED <<backendv, threadv, timerv, clockv>>

\* Mutant: the thread is told to quit while one context is left.
LastButOne == concurrent_usage = 1

LastUsage == concurrent_usage = 0

\* windows_exit
BackendExit(u) ==
  /\ user[u] = "leaving" /\ mine[u] \in backed
  /\ semaphore = Unheld
  /\ concurrent_usage' = concurrent_usage - 1
  /\ IF LastUsage
     THEN semaphore' = u /\ quit' = TRUE /\ ExitPolling /\ backed' = backed
     ELSE backed' = backed \ {mine[u]} /\ UNCHANGED <<semaphore, quit, is_polling_set>>
  /\ UNCHANGED <<contextv, unbalanced, thread, hires_frequency, timerv, clockv>>

BackendExitFails(u) ==
  /\ user[u] = "leaving" /\ mine[u] \in backed
  /\ semaphore # u /\ ExitRefused
  /\ backed' = backed \ {mine[u]}
  /\ UNCHANGED <<contextv, semaphore, concurrent_usage, is_polling_set, threadv, timerv, clockv>>

\* The thread has ended, or is terminated because one cannot wait for that.
BackendGone(u) ==
  /\ semaphore = u /\ thread' = "none"
  /\ backed' = backed \ {mine[u]} /\ semaphore' = Unheld
  /\ UNCHANGED <<contextv, concurrent_usage, unbalanced, is_polling_set, hires_frequency, quit, timerv, clockv>>

FreeContext(u) ==
  /\ DestroyContext(u) /\ mine[u] \notin backed
  /\ UNCHANGED <<backendv, threadv, timerv, clockv>>

-----------------------------------------------------------------------------
(* windows_clock_gettime.  As long as the thread has not found the counter *)
(* the time of day is returned, and nothing happens.                       *)

Clock(u, from, to) == Usable(u) /\ clock[u] = from /\ clock' = [clock EXCEPT ![u] = to]

Ask(u) ==
  /\ u \in Callers /\ hires_frequency /\ Clock(u, "idle", "asked")
  /\ request_count' = request_count + 1
  /\ UNCHANGED <<contextv, backendv, threadv, asked, nb_responses, timer_response, retries>>

Signal(u) ==
  /\ Clock(u, "asked", "waiting") /\ asked' = TRUE
  /\ UNCHANGED <<contextv, backendv, threadv, request_count, nb_responses, timer_response, retries>>

\* The wait is over in time, and timer_tp is copied.
Answered(u) ==
  /\ timer_response > 0 /\ Clock(u, "waiting", "idle")
  /\ timer_response' = timer_response - 1
  /\ UNCHANGED <<contextv, backendv, threadv, asked, request_count, nb_responses, retries>>

\* It is not: the request is made once more.
Retry(u) ==
  /\ retries < MaxRetries /\ retries' = retries + 1
  /\ Clock(u, "waiting", "asked")
  /\ request_count' = request_count + 1
  /\ UNCHANGED <<contextv, backendv, threadv, asked, nb_responses, timer_response>>

\* It fails: there is no time. The response is left for somebody else.
Unanswered(u) ==
  /\ retries < MaxRetries /\ retries' = retries + 1
  /\ Clock(u, "waiting", "idle")
  /\ UNCHANGED <<contextv, backendv, threadv, timerv>>

-----------------------------------------------------------------------------
(* windows_clock_gettime_threaded                                          *)

Advance(from, to) == thread = from /\ thread' = to
Same == UNCHANGED <<contextv, backendv, clockv>>

FindCounter ==
  /\ Advance("start", "wait") /\ hires_frequency' = TRUE
  /\ UNCHANGED <<quit, timerv>> /\ Same

\* Of two events the first one is reported.
Wake ==
  /\ asked /\ Advance("wait", "test")
  /\ UNCHANGED <<hires_frequency, quit, timerv>> /\ Same

Quit ==
  /\ quit /\ ~asked /\ Advance("wait", "ended")
  /\ UNCHANGED <<hires_frequency, quit, timerv>> /\ Same

Test ==
  /\ Advance("test", IF request_count = 0 THEN "reset" ELSE "time")
  /\ UNCHANGED <<hires_frequency, quit, timerv>> /\ Same

ResetRequest ==
  /\ Advance("reset", "again") /\ asked' = FALSE
  /\ UNCHANGED <<hires_frequency, quit, request_count, nb_responses, timer_response>> /\ Same

\* Mutant: a request that came before the event was reset is not looked for.
NoMore == TRUE

NoneMeanwhile == request_count = 0

TestAgain ==
  /\ Advance("again", IF NoneMeanwhile THEN "wait" ELSE "time")
  /\ UNCHANGED <<hires_frequency, quit, timerv>> /\ Same

\* timer_tp is read, then the number of those who wait for it.
ReadTime ==
  /\ Advance("time", "answer")
  /\ nb_responses' = request_count /\ request_count' = 0
  /\ UNCHANGED <<hires_frequency, quit, asked, timer_response>> /\ Same

\* ReleaseSemaphore: all of them, or none if there would be too many.
Released(n) == IF timer_response + n > MAX_TIMER_SEMAPHORES THEN timer_response ELSE timer_response + n

Answer ==
  /\ Advance("answer", "wait")
  /\ timer_response' = Released(nb_responses) /\ nb_responses' = 0
  /\ UNCHANGED <<hires_frequency, quit, asked, request_count>> /\ Same

Thread == \/ FindCounter \/ Wake \/ Quit \/ Test \/ ResetRequest \/ TestAgain
          \/ ReadTime \/ Answer

\* The next slot for a context: the slots do not differ.
Fresh == IF created = Contexts THEN {} ELSE {CHOOSE c \in Contexts : c \notin created}

WinNext ==
  \/ Thread
  \/ \E u \in Users :
       \/ ReuseContext(u) \/ ExitContext(u) \/ BackendExit(u) \/ BackendExitFails(u) \/ BackendGone(u) \/ FreeContext(u)
       \/ Ask(u) \/ Signal(u) \/ Answered(u) \/ Retry(u) \/ Unanswered(u)
       \/ \E c \in Fresh : InitContextFails(u, c) \/ \E handed \in {NULL, c} : InitContext(u, c, handed)

(* The waits for a semaphore are served in turn.                           *)
Fairness ==
  /\ WF_allvars(Thread)
  /\ \A u \in Callers : WF_allvars(Signal(u)) /\ SF_allvars(Answered(u))

WinSpec == WinInit /\ [][WinNext]_allvars /\ Fairness
-----------------------------------------------------------------------------
WinTypeOK ==
  /\ semaphore \in Users \cup {Unheld, Lost} /\ concurrent_usage \in Nat \cup {-1}
  /\ backed \subseteq Contexts /\ unbalanced \in 0 .. MaxUnbalanced /\ is_polling_set \in BOOLEAN
  /\ thread \in {"none", "start", "wait", "test", "reset", "again", "time", "answer", "ended"}
  /\ hires_frequency \in BOOLEAN /\ asked \in BOOLEAN /\ quit \in BOOLEAN
  /\ request_count \in Nat /\ nb_responses \in Nat /\ timer_response \in 0 .. MAX_TIMER_SEMAPHORES
  /\ clock \in [Users -> {"idle", "asked", "waiting"}] /\ retries \in 0 .. MaxRetries

(* The count is that of the contexts that have the backend, failures       *)
(* included, and of the calls of windows_exit that failed: each of those   *)
(* keeps the backend for ever. It is there exactly as long as the count    *)
(* says so, and so for everyone who can use a context.                     *)
BackendBalanced ==
  /\ WinTypeOK
  /\ semaphore = Unheld =>
       /\ concurrent_usage + 1 = Cardinality(backed) + unbalanced
       /\ thread = "none" <=> backed = {} /\ unbalanced = 0
  /\ \A c \in live : c \in backed \/ \E u \in Users : user[u] = "leaving" /\ mine[u] = c
  /\ \A u \in Users : Usable(u) => thread \notin {"none", "ended"} /\ ~quit /\ is_polling_set

(* A request for the time is answered without another one, although the    *)
(* thread resets the event after it has looked at the count.               *)
ClockAnswers == \A u \in Callers : clock[u] = "waiting" ~> clock[u] # "waiting" \/ ~Usable(u)
=============================================================================
