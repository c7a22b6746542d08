------------------------------ MODULE Admission ------------------------------
(***************************************************************************)
(* What a request to the limited endpoints of the API meets before its      *)
(* handler: the start of the process (api/app/main.py, core/config.py), the *)
(* validation of the body (schemas/auth.py, module Passwords) and the rate  *)
(* limiter (core/rate_limit.py).  What the handlers do is module Auth.      *)
(*                                                                          *)
(* The counters are kept by a library in the memory of the process, one for *)
(* each endpoint and client address, in fixed windows: a window begins with *)
(* the first hit, ends by the clock, and every call is a hit, also one that *)
(* is rejected.  FastAPI validates the body before it calls the decorated   *)
(* endpoint, so an invalid body is no hit.                                  *)
(*                                                                          *)
(* Left out: a login or refresh with an invalid body, which is no hit       *)
(* either, and the object store, which ensure_bucket looks for at the start *)
(* and which stops it only when it cannot be reached.                       *)
(***************************************************************************)
EXTENDS Passwords

CONSTANTS Passes, Locals, Names, \* what a registration may hold
          Endpoints, \* the limited ones, "register" among them
          Clients,   \* addresses
          Limit,     \* hits an endpoint admits in a window
          Window,    \* length of its windows, in ticks of the clock
          Settings,  \* settings that have a placeholder or default value
          None       \* absent value

Buckets == Endpoints \X Clients

Forms == [password : Passes, local : Locals, name : Names]

Confs == [production : BOOLEAN, defaults : SUBSET Settings, limited : BOOLEAN]

ASSUME AdmissionAssumption ==
  /\ "register" \in Endpoints
  /\ Limit \in [Endpoints -> Nat \ {0}]
  /\ Window \in [Endpoints -> Nat \ {0}]
  /\ Passes \cup Locals \cup Names \subseteq Seq(Chars)
  /\ None \notin Forms

VARIABLES up,     \* the process runs
          limited,\* settings.rate_limit_enabled of the process
          count,  \* hits of the window of each bucket; bound: Limit + 1
          left,   \* ticks until that window ends, 0 while there is none
          judged, \* history: the form the last step answered, and how
          recent  \* history: calls each bucket admitted, up to each age in ticks

limiterVars == <<count, left, recent>>
vars == <<up, limited, count, left, judged, recent>>

Unjudged == [form |-> None, admitted |-> FALSE]

Ages(e) == 0..Window[e] - 1

NothingRecent == [b \in Buckets |-> [a \in Ages(b[1]) |-> 0]]

TypeOK == /\ up \in BOOLEAN
          /\ limited \in BOOLEAN
          /\ count \in [Buckets -> Nat] /\ left \in [Buckets -> Nat]
          /\ DOMAIN recent = Buckets
          /\ \A b \in Buckets : /\ count[b] \in 0..Limit[b[1]] + 1
                                /\ left[b] \in 0..Window[b[1]]
                                /\ (count[b] = 0) = (left[b] = 0)
                                /\ recent[b] \in [Ages(b[1]) -> Nat]
          /\ judged \in [form : Forms \cup {None}, admitted : BOOLEAN]

FreshLimiter == /\ count = [b \in Buckets |-> 0]
                /\ left = [b \in Buckets |-> 0]
                /\ recent = NothingRecent

Init == /\ up = FALSE
        /\ limited = FALSE
        /\ FreshLimiter
        /\ judged = Unjudged

-----------------------------------------------------------------------------
(* The process                                                              *)

(* validate_for_production, with production_config_problems.                *)
MayStart(c) == c.production => c.defaults = {}

Start(c) ==
  /\ ~up
  /\ MayStart(c)
  /\ up' = TRUE
  /\ limited' = c.limited
  /\ judged' = Unjudged
  /\ UNCHANGED limiterVars

(* Stopped, deployed anew or crashed: the counters go with the process.     *)
Stop ==
  /\ up
  /\ up' = FALSE
  /\ limited' = FALSE
  /\ count' = [b \in Buckets |-> 0]
  /\ left' = [b \in Buckets |-> 0]
  /\ recent' = NothingRecent
  /\ judged' = Unjudged

-----------------------------------------------------------------------------
(* The limiter                                                              *)

(* What the bucket counts once it is hit.                                   *)
Counted(b) == Min({count[b] + 1, Limit[b[1]] + 1})

(* Should the call itself be forgotten:                                     *)
AllowsOneMore(b) == count[b] <= Limit[b[1]]

Allows(b) == Counted(b) <= Limit[b[1]]

(* Should every hit, and not the first only, set when the window ends:      *)
ElasticWindow(b) == Window[b[1]]

WindowOf(b) == IF count[b] = 0 THEN Window[b[1]] ELSE left[b]

(* The call is a hit, and goes on to the handler if it is admitted.         *)
Hit(b, admitted) ==
  /\ up
  /\ admitted = (limited => Allows(b))
  /\ IF limited THEN /\ count' = [count EXCEPT ![b] = Counted(b)]
                     /\ left' = [left EXCEPT ![b] = WindowOf(b)]
                     /\ recent' = IF admitted
                             THEN [recent EXCEPT ![b] = [a \in Ages(b[1]) |-> @[a] + 1]]
                             ELSE recent
                ELSE UNCHANGED limiterVars
  /\ UNCHANGED <<up, limited>>

-----------------------------------------------------------------------------
(* The endpoints                                                            *)

Valid == {f \in Forms : Acceptable(f)}

(* 422, before the endpoint is called.                                      *)
RegisterRefused(f) ==
  /\ up
  /\ judged' = [form |-> f, admitted |-> FALSE]
  /\ UNCHANGED <<up, limited, limiterVars>>

(* The endpoint is called: 429, or the handler.                             *)
Register(f, k) ==
  \E admitted \in BOOLEAN :
    /\ Hit(<<"register", k>>, admitted)
    /\ judged' = IF admitted THEN [form |-> f, admitted |-> TRUE] ELSE Unjudged

(* login and refresh, with a valid body.                                    *)
Call(e, k) ==
  /\ e # "register"
  /\ \E admitted \in BOOLEAN : Hit(<<e, k>>, admitted)
  /\ judged' = Unjudged

-----------------------------------------------------------------------------
(* The clock: a window that ends takes its count along.                     *)

Tick ==
  /\ left' = [b \in Buckets |-> IF left[b] = 0 THEN 0 ELSE left[b] - 1]
  /\ count' = [b \in Buckets |-> IF left[b] <= 1 THEN 0 ELSE count[b]]
  /\ recent' = [b \in Buckets |->
                  [a \in Ages(b[1]) |-> IF a = 0 THEN 0 ELSE recent[b][a - 1]]]
  /\ judged' = Unjudged
  /\ UNCHANGED <<up, limited>>

Next == \/ \E c \in Confs : Start(c)
        \/ Stop
        \/ \E f \in Forms \ Valid : RegisterRefused(f)
        \/ \E f \in Valid, k \in Clients : Register(f, k)
        \/ \E e \in Endpoints, k \in Clients : Call(e, k)
        \/ Tick

Spec == Init /\ [][Next]_vars

(* Time passes, whoever calls.                                              *)
FairSpec == Spec /\ WF_vars(Tick)

-----------------------------------------------------------------------------

(* A registration reaches its handler only with a strong password, and is   *)
(* refused as invalid only for a weak one or a name out of bounds, at every *)
(* boundary of the lengths and however cases are mixed                      *)
(* (passwords.py:38-69, schemas/auth.py:7-17).                              *)
PolicyHolds ==
  judged.form # None =>
    judged.admitted = (Strong(judged.form) /\ Len(judged.form.name) \in 1..MaxName)

(* Windows are not sliding: around the end of one, twice the limit less one *)
(* calls of an address may pass in the time of a window, and never more, as *)
(* long as the process lives.  A limiter that is disabled counts nothing,   *)
(* and what passes it is not meant (rate_limit.py:14-22).                   *)
BurstBounded ==
  \A b \in Buckets : recent[b][Window[b[1]] - 1] <= 2 * Limit[b[1]] - 1

(* An address that is blocked gets through again, however often it calls    *)
(* meanwhile (rate_limit.py:14-22: the window is fixed).                    *)
BlockedGetsThrough == \A b \in Buckets : []<>(limited => Allows(b))
=============================================================================
