--------------------------- MODULE KeymessDispatch ---------------------------
(***************************************************************************)
(* The keyless request dispatcher of g3keymess:                            *)
(* src/g3keymess/src/backend/dispatch.rs.                                  *)
(*                                                                         *)
(* DISPATCH_CONTAINER holds one Dispatcher per supported key type.  At     *)
(* startup each backend worker pushes its request sender into the         *)
(* dispatchers of the key types it serves (register_rsa_2048, ...).  A     *)
(* server task then calls dispatch(req): the key type selects the          *)
(* dispatcher, fetch_add on its counter picks the worker                   *)
(* (cur >> counter_shift) % workers.len(), and try_send queues the request *)
(* on that worker's bounded channel or hands it back as Err(req).          *)
(*                                                                         *)
(* Which key types a worker registers, and the worker task that drains its *)
(* channel, are in the backend module, which is not under src/; the key    *)
(* types per worker are the constant Supports.  A request whose dispatcher *)
(* has no worker panics on the modulo by zero; the task ends and the       *)
(* request is lost (counted in panics).                                    *)
(***************************************************************************)
EXTENDS Naturals, Sequences, FiniteSets

CONSTANTS
    Workers,        \* backend workers
    Keys,           \* the keys requests may carry, as [id, size, curve]
    Supports,       \* worker -> the dispatchers it registers with
    CounterShift,   \* counter_shift of DISPATCH_CONTAINER (8 in the code)
    ChanCap,        \* capacity of a worker's mpsc channel
    MaxReqs         \* requests dispatched in a behaviour

\* The fields of DispatcherContainer.
Dispatchers == {"rsa_2048", "rsa_3072", "rsa_4096", "ecdsa_p256", "ecdsa_p384", "ecdsa_p521"}

ASSUME /\ Supports \in [Workers -> SUBSET Dispatchers]
       /\ CounterShift \in Nat /\ ChanCap \in Nat \ {0} /\ MaxReqs \in Nat

VARIABLES
    phase,      \* "Startup" while workers register, then "Serving"
    workers,    \* dispatcher -> its workers Vec, in push order
    counter,    \* dispatcher -> its AtomicUsize counter
    chan,       \* worker -> the requests (keys) queued on its channel
    closed,     \* worker -> its receiver was dropped
    sent,       \* dispatcher -> worker -> requests it chose that worker for
    reqs,       \* requests dispatched so far
    panics      \* dispatch calls that panicked

vars == <<phase, workers, counter, chan, closed, sent, reqs, panics>>

TypeOK ==
    /\ phase \in {"Startup", "Serving"}
    /\ workers \in [Dispatchers -> Seq(Workers)]
    /\ counter \in [Dispatchers -> 0..MaxReqs]
    /\ chan \in [Workers -> Seq(Keys)]
    /\ \A w \in Workers : Len(chan[w]) <= ChanCap
    /\ closed \in [Workers -> BOOLEAN]
    /\ sent \in [Dispatchers -> [Workers -> 0..MaxReqs]]
    /\ reqs \in 0..MaxReqs /\ panics \in 0..MaxReqs

\* DispatcherContainer::with_counter_shift: every Dispatcher has counter 0
\* and no workers.
Init ==
    /\ phase = "Startup"
    /\ workers = [d \in Dispatchers |-> <<>>]
    /\ counter = [d \in Dispatchers |-> 0]
    /\ chan = [w \in Workers |-> <<>>]
    /\ closed = [w \in Workers |-> FALSE]
    /\ sent = [d \in Dispatchers |-> [w \in Workers |-> 0]]
    /\ reqs = 0 /\ panics = 0

Registered(w, d) == \E i \in 1..Len(workers[d]) : workers[d][i] = w

\* register_rsa_2048 ... register_ecdsa_p521: push the sender.
Register(w, d) ==
    /\ phase = "Startup"
    /\ d \in Supports[w] /\ ~Registered(w, d)
    /\ workers' = [workers EXCEPT ![d] = Append(@, w)]
    /\ UNCHANGED <<phase, counter, chan, closed, sent, reqs, panics>>

\* The backend has registered every worker; the servers start.
StartServing ==
    /\ phase = "Startup"
    /\ \A w \in Workers : \A d \in Supports[w] : Registered(w, d)
    /\ phase' = "Serving"
    /\ UNCHANGED <<workers, counter, chan, closed, sent, reqs, panics>>

\* A match with the 3072 and 4096 arms swapped.
RouteSwapped(k) ==
    CASE k.id = "RSA" ->
            (CASE k.size = 256 -> "rsa_2048"
               [] k.size = 384 -> "rsa_4096"
               [] k.size = 512 -> "rsa_3072"
               [] OTHER -> "None")
      [] k.id = "EC" ->
            (CASE k.curve = "P256" -> "ecdsa_p256"
               [] k.curve = "P384" -> "ecdsa_p384"
               [] k.curve = "P521" -> "ecdsa_p521"
               [] OTHER -> "None")
      [] OTHER -> "None"

\* DispatcherContainer::dispatch: the dispatcher for the key, "None" for a
\* key type, size or curve it does not serve (and an EC key whose ec_key()
\* fails).
Route(k) ==
    CASE k.id = "RSA" ->
            (CASE k.size = 256 -> "rsa_2048"
               [] k.size = 384 -> "rsa_3072"
               [] k.size = 512 -> "rsa_4096"
               [] OTHER -> "None")
      [] k.id = "EC" ->
            (CASE k.curve = "P256" -> "ecdsa_p256"
               [] k.curve = "P384" -> "ecdsa_p384"
               [] k.curve = "P521" -> "ecdsa_p521"
               [] OTHER -> "None")
      [] OTHER -> "None"

\* Dispatcher::dispatch, the worker index: (cur >> counter_shift) % len.
PickIndex(cur, n) == (cur \div (2 ^ CounterShift)) % n

\* A dispatcher whose fetch_add is a load.
DispatchToNoIncrement(d, k) ==
    LET n == Len(workers[d]) IN
    /\ n > 0
    /\ LET w == workers[d][PickIndex(counter[d], n) + 1] IN
          /\ sent' = [sent EXCEPT ![d][w] = @ + 1]
          /\ IF ~closed[w] /\ Len(chan[w]) < ChanCap
                THEN chan' = [chan EXCEPT ![w] = Append(@, k)]
                ELSE UNCHANGED chan
    /\ UNCHANGED <<counter, panics>>

\* Dispatcher::dispatch: fetch_add, pick the worker (a modulo by zero when
\* no worker registered panics), try_send: a full or closed channel hands
\* the request back as Err(req).
DispatchTo(d, k) ==
    LET n == Len(workers[d]) IN
    /\ counter' = [counter EXCEPT ![d] = @ + 1]
    /\ IF n = 0
          THEN panics' = panics + 1 /\ UNCHANGED <<sent, chan>>
          ELSE LET w == workers[d][PickIndex(counter[d], n) + 1] IN
               /\ sent' = [sent EXCEPT ![d][w] = @ + 1]
               /\ IF ~closed[w] /\ Len(chan[w]) < ChanCap
                     THEN chan' = [chan EXCEPT ![w] = Append(@, k)]
                     ELSE UNCHANGED chan
               /\ UNCHANGED panics

\* dispatch(req) of a server task, for a request with key k.
Dispatch(k) ==
    /\ phase = "Serving" /\ reqs < MaxReqs
    /\ reqs' = reqs + 1
    /\ IF Route(k) = "None"
          THEN UNCHANGED <<counter, chan, sent, panics>>
          ELSE DispatchTo(Route(k), k)
    /\ UNCHANGED <<phase, workers, closed>>

\* The worker task takes the next request from its channel.
Consume(w) ==
    /\ chan[w] # <<>>
    /\ chan' = [chan EXCEPT ![w] = Tail(@)]
    /\ UNCHANGED <<phase, workers, counter, closed, sent, reqs, panics>>

\* The worker task ends and drops its receiver with what it buffered.
WorkerExit(w) ==
    /\ phase = "Serving" /\ ~closed[w]
    /\ closed' = [closed EXCEPT ![w] = TRUE]
    /\ chan' = [chan EXCEPT ![w] = <<>>]
    /\ UNCHANGED <<phase, workers, counter, sent, reqs, panics>>

\* Every request was dispatched and every channel drained.
Terminated ==
    /\ reqs = MaxReqs /\ \A w \in Workers : chan[w] = <<>>
    /\ UNCHANGED vars

Next ==
    \/ \E w \in Workers, d \in Dispatchers : Register(w, d)
    \/ StartServing
    \/ \E k \in Keys : Dispatch(k)
    \/ \E w \in Workers : Consume(w) \/ WorkerExit(w)
    \/ Terminated

Spec == Init /\ [][Next]_vars

-----------------------------------------------------------------------------

\* The key type a dispatcher serves, stated as the key's bit length or
\* curve name rather than as the code's nested match.
RsaBits == [rsa_2048 |-> 2048, rsa_3072 |-> 3072, rsa_4096 |-> 4096]
EcCurve == [ecdsa_p256 |-> "P256", ecdsa_p384 |-> "P384", ecdsa_p521 |-> "P521"]
Serves(d, k) ==
    \/ k.id = "RSA" /\ d \in DOMAIN RsaBits /\ RsaBits[d] = 8 * k.size
    \/ k.id = "EC" /\ d \in DOMAIN EcCurve /\ EcCurve[d] = k.curve

\* A request queued on a worker's channel is one that worker registered to
\* serve: DispatcherContainer::dispatch sends each key type to the
\* dispatcher of that type and never to one whose workers registered for
\* another type.
QueuedAtServingWorker ==
    \A w \in Workers : \A i \in 1..Len(chan[w]) :
        \E d \in Dispatchers : Serves(d, chan[w][i]) /\ Registered(w, d)

\* The counter spreads a dispatcher's requests over its workers in turns of
\* 2^counter_shift: no worker was chosen more than 2^counter_shift times
\* more often than another of the same dispatcher.
Balanced ==
    \A d \in Dispatchers : \A i, j \in 1..Len(workers[d]) :
        sent[d][workers[d][i]] <= sent[d][workers[d][j]] + 2 ^ CounterShift

=============================================================================
