---------------------------- MODULE CreditLedger -----------------------------
(***************************************************************************)
(* What the key pool promises about credits, with no word on how it picks  *)
(* a key: no cooldowns, no groups, no running totals.                      *)
(*                                                                         *)
(* Every key has a balance, known from its last usage snapshot.  A request *)
(* may hold credits of one key, once, and only credits that the balance    *)
(* leaves beside everything else held there.  A hold is kept while a       *)
(* research task may still spend it.  A new snapshot of a key accounts for *)
(* everything held there that is not kept.                                 *)
(***************************************************************************)
EXTENDS Integers, FiniteSets

CONSTANTS Keys, Requests,
          Amounts  \* the credits that a request or a snapshot may name

VARIABLES
  balance,  \* credits the last snapshot leaves on every key; 0 before the first
  held,     \* what every holding request holds: [key, credits, kept]
  past      \* the requests that have held credits

ledgerVars == <<balance, held, past>>

On(k) == {r \in DOMAIN held : held[r].key = k}

\* The credits held on k, counted one by one.
Owed(k) == Cardinality(UNION {{r} \X (1..held[r].credits) : r \in On(k)})

LedgerInit ==
  /\ balance = [k \in Keys |-> 0]
  /\ held = [r \in {} |-> 0]
  /\ past = {}

Hold(r, k, credits, kept) ==
  /\ r \notin past
  /\ Owed(k) + credits <= balance[k]
  /\ held' = [q \in DOMAIN held \cup {r} |->
                IF q = r THEN [key |-> k, credits |-> credits, kept |-> kept]
                ELSE held[q]]
  /\ past' = past \cup {r}
  /\ UNCHANGED balance

\* Tavily rejected the request: it costs nothing.
Release(r) ==
  /\ r \in DOMAIN held
  /\ held' = [q \in DOMAIN held \ {r} |-> held[q]]
  /\ UNCHANGED <<balance, past>>

\* The research task is over.
LetGo(r) ==
  /\ r \in DOMAIN held
  /\ held' = [held EXCEPT ![r].kept = FALSE]
  /\ UNCHANGED <<balance, past>>

\* A snapshot of key k.
Account(k, credits) ==
  /\ balance' = [balance EXCEPT ![k] = credits]
  /\ held' = [q \in {r \in DOMAIN held : held[r].key = k => held[r].kept} |-> held[q]]
  /\ UNCHANGED past

LedgerNext ==
  \/ \E r \in Requests, k \in Keys, credits \in Amounts, kept \in BOOLEAN :
       Hold(r, k, credits, kept)
  \/ \E r \in Requests : Release(r) \/ LetGo(r)
  \/ \E k \in Keys, credits \in Amounts : Account(k, credits)

LedgerSpec == LedgerInit /\ [][LedgerNext]_ledgerVars
=============================================================================
