---------------------------- MODULE MCUsbEvents ----------------------------
(* UsbEvents with two threads: one or both have a timeout.  Calls of poll() *)
(* fail in one of the three settings.                                      *)
EXTENDS UsbEvents
CONSTANTS x, y

MCLimit(a, b) == [t \in Threads |-> IF t = x THEN a ELSE b]
MCSettings ==
  {[mode |-> "plain",   cond |-> "pthreads", limit |-> MCLimit(0, 1), errors |-> 2],
   [mode |-> "plain",   cond |-> "windows",  limit |-> MCLimit(0, 1), errors |-> 0],
   [mode |-> "timerfd", cond |-> "pthreads", limit |-> MCLimit(1, 1), errors |-> 0]}
=============================================================================
