------------------------------ MODULE WsPrices ------------------------------
(***************************************************************************)
(* The subscriptions of data/ws_prices.py: which tokens the program wants  *)
(* prices of, which it believes to be subscribed, and which the server     *)
(* streams.                                                                *)
(*                                                                         *)
(* subscribe() and unsubscribe() only change sets; _flush_pending() sends  *)
(* the difference and awaits ws.send(), during which both may be called    *)
(* again and the connection may break.  Each step below runs from one      *)
(* await to the next.                                                      *)
(***************************************************************************)
EXTENDS Integers

CONSTANTS Tokens,
          MaxBreaks    \* bound: connections that break

ASSUME WsAssumption == MaxBreaks \in Nat

VARIABLES
    wanted,      \* tokens subscribed and not unsubscribed by the callers
    subscribed, pending, unsub,    \* _subscribed, _pending, _pending_unsub
    link,        \* "up": inside websockets.connect()
    server,      \* tokens the server streams on this connection
    flush,       \* the send that is awaited: step, its batch, initial_connect
    breaks,      \* connections broken so far
    lost         \* history: tokens of a batch that no send delivered, and
                 \*   tokens unsubscribed while they are wanted

client == <<subscribed, pending, unsub>>
WSvars == <<wanted, client, link, server, flush, breaks, lost>>

NoFlush == [step |-> "none", batch |-> {}, initial |-> FALSE]

WSTypeOK ==
    /\ wanted \subseteq Tokens /\ lost \subseteq Tokens
    /\ subscribed \subseteq Tokens /\ pending \subseteq Tokens /\ unsub \subseteq Tokens
    /\ link \in {"up", "down"} /\ server \subseteq Tokens
    /\ flush \in [step : {"none", "unsub", "sub"}, batch : SUBSET Tokens, initial : BOOLEAN]
    /\ (flush.step = "none") = (flush.batch = {})
    /\ link = "down" => flush = NoFlush /\ server = {}
    /\ breaks \in 0..MaxBreaks

(* run() was given the tokens of the positions open at the start. *)
WSInit ==
    /\ wanted \in SUBSET Tokens
    /\ pending = wanted /\ subscribed = {} /\ unsub = {}
    /\ link = "down" /\ server = {} /\ flush = NoFlush
    /\ breaks = 0 /\ lost = {}

(***************************************************************************)
(* The callers: main_loop, when a position is opened and when it is closed.*)
(* Nothing keeps them from repeating a call.                               *)
(***************************************************************************)
Subscribe(t) ==
    /\ wanted' = wanted \cup {t}
    /\ pending' = pending \cup ({t} \ subscribed)
    /\ lost' = lost \ {t}
    /\ UNCHANGED <<subscribed, unsub, link, server, flush, breaks>>

Unsubscribe(t) ==
    /\ wanted' = wanted \ {t}
    /\ subscribed' = subscribed \ {t} /\ pending' = pending \ {t}
    /\ unsub' = unsub \cup {t}
    /\ UNCHANGED <<link, server, flush, breaks, lost>>

(***************************************************************************)
(* _flush_pending(), with the sets sub and pen it finds.                   *)
(***************************************************************************)
(* The batch leaves _pending before the await. *)
TakePending(initial, sub, pen) ==
    /\ subscribed' = sub /\ pending' = {}
    /\ flush' = IF pen = {} THEN NoFlush
                ELSE [step |-> "sub", batch |-> pen, initial |-> initial]

\* Mutant: the batch stays in _subscribed.
TakeUnsubSubscribed(initial, sub, pen) ==
    /\ subscribed' = sub /\ pending' = pen /\ unsub' = {}
    /\ flush' = [step |-> "unsub", batch |-> unsub, initial |-> initial]
    /\ lost' = lost \cup ((unsub \cap wanted) \ pen)
(* So does the batch of _pending_unsub.  A token in it that is wanted      *)
(* again and not pending is lost: subscribe() found it in _subscribed.     *)
TakeUnsub(initial, sub, pen) ==
    /\ subscribed' = sub \ unsub /\ pending' = pen /\ unsub' = {}
    /\ flush' = [step |-> "unsub", batch |-> unsub, initial |-> initial]
    /\ lost' = lost \cup ((unsub \cap wanted) \ pen)

BeginFlush(initial, sub, pen) ==
    IF unsub # {} THEN TakeUnsub(initial, sub, pen)
    ELSE TakePending(initial, sub, pen) /\ UNCHANGED <<unsub, lost>>

\* Mutant: what is in _subscribed is not sent again.
ConnectOnce ==
    /\ link = "down" /\ (pending # {} \/ subscribed # {})
    /\ link' = "up"
    /\ BeginFlush(TRUE, subscribed, pending)
    /\ UNCHANGED <<wanted, server, breaks>>
(* _connect_and_run(): what was subscribed is pending again. *)
Connect ==
    /\ link = "down" /\ (pending # {} \/ subscribed # {})
    /\ link' = "up"
    /\ BeginFlush(TRUE, {}, pending \cup subscribed)
    /\ UNCHANGED <<wanted, server, breaks>>

(* _pending_flush_loop() *)
FlushTick ==
    /\ link = "up" /\ flush = NoFlush
    /\ unsub # {} \/ pending # {}
    /\ BeginFlush(FALSE, subscribed, pending)
    /\ UNCHANGED <<wanted, link, server, breaks>>

(* The unsubscribe message is sent; without any subscription left the      *)
(* connection is closed, else the pending ones follow.                     *)
UnsubSent ==
    /\ flush.step = "unsub"
    /\ IF subscribed = {} /\ pending = {}
       THEN /\ link' = "down" /\ server' = {} /\ flush' = NoFlush
            /\ UNCHANGED client
       ELSE /\ server' = server \ flush.batch
            /\ TakePending(flush.initial, subscribed, pending)
            /\ UNCHANGED <<link, unsub>>
    /\ UNCHANGED <<wanted, breaks, lost>>

\* Mutant: the batch is not remembered as subscribed.
SubSentForgotten ==
    /\ flush.step = "sub"
    /\ server' = server \cup flush.batch
    /\ flush' = NoFlush
    /\ UNCHANGED <<wanted, client, link, breaks, lost>>
SubSent ==
    /\ flush.step = "sub"
    /\ server' = server \cup flush.batch
    /\ subscribed' = subscribed \cup flush.batch
    /\ flush' = NoFlush
    /\ UNCHANGED <<wanted, pending, unsub, link, breaks, lost>>

(* The connection breaks: the awaited send raises or is cancelled, and its *)
(* batch is in no set.                                                     *)
Break ==
    /\ link = "up" /\ breaks < MaxBreaks
    /\ link' = "down" /\ server' = {} /\ flush' = NoFlush
    /\ breaks' = breaks + 1
    /\ lost' = IF flush.step = "sub"
               THEN lost \cup ((flush.batch \cap wanted) \ pending) ELSE lost
    /\ UNCHANGED <<wanted, client>>

Callers == \E t \in Tokens : Subscribe(t) \/ Unsubscribe(t)

Run ==
    \/ Connect
    \/ FlushTick
    \/ UnsubSent
    \/ SubSent

WSNext ==
    \/ Callers
    \/ Run
    \/ Break

(* run() and the flush loop never stop; connections break finitely often. *)
WSSpec == WSInit /\ [][WSNext]_WSvars /\ WF_WSvars(Run)

(***************************************************************************)
(* Properties.                                                             *)
(***************************************************************************)
InFlight == IF flush.step = "sub" THEN flush.batch ELSE {}
Tracked == pending \cup subscribed \cup InFlight

(* Between two sends _subscribed is what the server streams, but for the   *)
(* tokens whose unsubscription is queued.                                  *)
ServerMatches ==
    link = "up" /\ flush = NoFlush => subscribed \subseteq server /\ server \subseteq subscribed \cup unsub

(* No wanted token is forgotten but by a batch that is lost.               *)
OnlyBatchesAreLost == wanted \ lost \subseteq Tracked

(* While no connection has broken, a token nobody wants any more is on its *)
(* way out: whatever tracks it, its unsubscription is queued.  A reconnect *)
(* does leak one: it makes the tokens of _subscribed pending, and the      *)
(* queued unsubscription that goes out first no longer finds them there.   *)
UnwantedIsQueued == breaks = 0 => Tracked \ wanted \subseteq unsub

(* A wanted token is streamed in the end, unless it is unsubscribed or its *)
(* batch is lost.                                                          *)
WantedIsStreamed ==
    \A t \in Tokens : t \in wanted \ lost ~> (t \in server \/ t \notin wanted \ lost)

(* Violated.  _connect_and_run() says that after a reconnect all           *)
(* subscribed tokens are subscribed again, and _flush_pending() that the   *)
(* clear before the await leaves no TOCTOU.                                *)
WantedIsTracked == wanted \subseteq Tracked
=============================================================================
