-------------------------- MODULE ProxyTestRunner --------------------------
(***************************************************************************)
(* One proxy test of the agent: the candidate URLs are fetched in turn     *)
(* until one answers with an address, and one result is sent.  A fetch     *)
(* ends by itself (its own timeout of 4000 ms included) or is aborted by   *)
(* the timer of 4500 ms; abort() emits finished before it returns.         *)
(***************************************************************************)
EXTENDS Naturals

CONSTANTS
  Tests, \* tests asked for
  Urls   \* number of candidate URLs

ASSUME UrlsAssumption == Urls \in Nat \ {0}

VARIABLE test \* the state doAttempt shares with its callbacks, by test

(* The results that one event may give: none, or one. *)
Oks == {<<>>, <<TRUE>>, <<FALSE>>}

NoTest == [asker |-> 0, attempt |-> 0, flying |-> {}, sent |-> FALSE]

TestTypeOK(askers) ==
  test \in [Tests -> [asker : askers, attempt : 0..Urls,
                      flying : SUBSET (1..Urls), sent : BOOLEAN]]

TestInit == test = [t \in Tests |-> NoTest]

Running(t) == test[t].asker # 0 /\ ~test[t].sent

(* Mutant: one attempt more than there are URLs. *)
doAttemptTooMany(r) ==
  IF r.sent THEN [r EXCEPT !.flying = {}]
  ELSE IF r.attempt > Urls THEN [r EXCEPT !.flying = {}, !.sent = TRUE]
  ELSE [r EXCEPT !.attempt = @ + 1, !.flying = @ \cup {r.attempt + 1}]

(* doAttempt: the next fetch, or, when there is none left, the result and  *)
(* the end of every fetch that is still in flight.                         *)
doAttempt(r) ==
  IF r.sent THEN [r EXCEPT !.flying = {}]
  ELSE IF r.attempt >= Urls THEN [r EXCEPT !.flying = {}, !.sent = TRUE]
  ELSE [r EXCEPT !.attempt = @ + 1, !.flying = @ \cup {r.attempt + 1}]

(* The failure is given when this doAttempt found no URL left. *)
Gives(t, r, oks) ==
  /\ test' = [test EXCEPT ![t] = r]
  /\ oks = (IF r.sent /\ ~test[t].sent THEN <<FALSE>> ELSE <<>>)

start(t, asker, oks) ==
  \/ \* the configuration of the proxy is refused
     Gives(t, [NoTest EXCEPT !.asker = asker, !.sent = TRUE], oks)
  \/ Gives(t, doAttempt([NoTest EXCEPT !.asker = asker]), oks)

(* Mutant: an answer is sent whether or not one was sent before. *)
anyAnswer(t) == TRUE

(* The first answer is sent, a later one is dropped. *)
firstAnswer(t) == ~test[t].sent

(* A fetch ends: it brought an address, or it did not. *)
finished(t, k, oks) ==
  /\ k \in test[t].flying
  /\ LET left == [test[t] EXCEPT !.flying = @ \ {k}] IN
     \/ ~firstAnswer(t) /\ Gives(t, left, oks)
     \/ /\ firstAnswer(t)
        /\ test' = [test EXCEPT ![t] = [left EXCEPT !.sent = TRUE]]
        /\ oks = <<TRUE>>
     \/ firstAnswer(t) /\ Gives(t, doAttempt(left), oks)

(* The timer: finished runs inside abort(), then doAttempt a second time. *)
timeout(t, k, oks) ==
  /\ k \in test[t].flying
  /\ LET left == [test[t] EXCEPT !.flying = @ \ {k}] IN
     Gives(t, IF left.sent THEN left ELSE doAttempt(doAttempt(left)), oks)

(* The agent dies: its tests are never answered. *)
abandonTests ==
  test' = [t \in Tests |->
             IF test[t].asker = 0 THEN test[t]
             ELSE [test[t] EXCEPT !.flying = {}, !.sent = TRUE]]
=============================================================================
