----------------------------- MODULE UsbContext -----------------------------
(***************************************************************************)
(* The contexts of libusbx: libusb_init and libusb_exit of users that      *)
(* share a process, and the default context that NULL stands for (core.c). *)
(***************************************************************************)
EXTENDS Integers, FiniteSets

CONSTANTS
  Users,
  Contexts, \* slots for struct libusb_context; a slot is used once
  NULL,
  MaxFails  \* bound: initialisations that fail

ASSUME ContextsAssumption == NULL \notin Contexts /\ MaxFails \in Nat

VARIABLES
  usbi_default_context,
  default_context_refcnt,
  created, (* contexts that were allocated                      *)
  live,    (* those of them that are not freed                  *)
  user,    (* "out", "in", or "leaving": unlocked, about to free *)
  mine,    (* what a user hands to libusbx: NULL or a context   *)
  got,     (* the context that libusb_init has prepared for it  *)
  fails

contextv == <<usbi_default_context, default_context_refcnt, created, live, user, mine, got, fails>>

ContextInit ==
  /\ usbi_default_context = NULL /\ default_context_refcnt = 0
  /\ created = {} /\ live = {} /\ fails = 0
  /\ user = [u \in Users |-> "out"] /\ mine = [u \in Users |-> NULL]
  /\ got = [u \in Users |-> NULL]

\* libusb_init(NULL) while there is a default context, with default_context_lock
Reuse(u) ==
  /\ user[u] = "out" /\ usbi_default_context # NULL
  /\ default_context_refcnt' = default_context_refcnt + 1
  /\ user' = [user EXCEPT ![u] = "in"] /\ mine' = [mine EXCEPT ![u] = NULL]
  /\ got' = [got EXCEPT ![u] = usbi_default_context]
  /\ UNCHANGED <<usbi_default_context, created, live, fails>>

\* The first context of all becomes the default one, before it can count its users.
Default(c) == IF usbi_default_context = NULL THEN c ELSE usbi_default_context

\* libusb_init(NULL) for the first time, or with a context of the user's own.
\* The count is raised only while there is no default context: never.
Create(u, c, handed) ==
  /\ user[u] = "out" /\ c \notin created
  /\ handed = NULL => usbi_default_context = NULL
  /\ created' = created \cup {c} /\ live' = live \cup {c}
  /\ usbi_default_context' = Default(c)
  /\ user' = [user EXCEPT ![u] = "in"] /\ mine' = [mine EXCEPT ![u] = handed]
  /\ got' = [got EXCEPT ![u] = c]
  /\ UNCHANGED <<default_context_refcnt, fails>>

\* The backend or usbi_io_init fails: the context is freed, and stays the default.
CreateFails(u, c) ==
  /\ user[u] = "out" /\ c \notin created /\ fails < MaxFails
  /\ created' = created \cup {c} /\ usbi_default_context' = Default(c)
  /\ fails' = fails + 1
  /\ UNCHANGED <<default_context_refcnt, live, user, mine, got>>

\* USBI_GET_CONTEXT
Context(u) == IF mine[u] = NULL THEN usbi_default_context ELSE mine[u]

\* libusb_exit of a user of the default context who is not the last one
ExitCounted(u) ==
  /\ user[u] = "in" /\ Context(u) = usbi_default_context
  /\ default_context_refcnt > 1
  /\ default_context_refcnt' = default_context_refcnt - 1
  /\ user' = [user EXCEPT ![u] = "out"]
  /\ UNCHANGED <<usbi_default_context, created, live, mine, got, fails>>

\* libusb_exit otherwise: the default context is given up with the lock held.
ExitLast(u) ==
  /\ user[u] = "in" /\ Context(u) # NULL \* else it reads through a null pointer
  /\ mine' = [mine EXCEPT ![u] = Context(u)]
  /\ user' = [user EXCEPT ![u] = "leaving"]
  /\ IF Context(u) = usbi_default_context
     THEN /\ default_context_refcnt <= 1 /\ usbi_default_context' = NULL
          /\ default_context_refcnt' = default_context_refcnt - 1
     ELSE UNCHANGED <<usbi_default_context, default_context_refcnt>>
  /\ UNCHANGED <<created, live, got, fails>>

\* usbi_io_exit and free(), without the lock
DestroyContext(u) ==
  /\ user[u] = "leaving" /\ user' = [user EXCEPT ![u] = "out"]
  /\ live' = live \ {mine[u]}
  /\ UNCHANGED <<usbi_default_context, default_context_refcnt, created, mine, got, fails>>
=============================================================================
