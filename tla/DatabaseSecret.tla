--------------------------- MODULE DatabaseSecret ---------------------------
(***************************************************************************)
(* The secrets Judicex keeps in the database when the environment gives    *)
(* none: the key of MatterCrypto.from_store, under which the text of       *)
(* private documents is encrypted, and the secret of _resolve_secret, with *)
(* which the audit log signs its rows.  Both look in llm_cache, make a     *)
(* secret when there is none, and put it there; neither looks again.       *)
(*                                                                         *)
(* A look-up and a put are a statement and a commit of their own, so other *)
(* connections come between them.  A connection is closed or lost at any   *)
(* time: the audit log looks up for every row, the cipher once for each    *)
(* connection.                                                             *)
(***************************************************************************)
CONSTANTS
  Conns,  \* connections to the database
  Keys,   \* secrets: bound on how many are in use
  None    \* no secret

ASSUME NoneAssumption == None \notin Keys

VARIABLES
  stored,  \* the row of llm_cache under the reserved key
  pc,      \* a connection: "closed", "put" after it made a secret, or "ready"
  key,     \* the secret it uses
  rows,    \* the secrets under which rows were encrypted or signed
  spoiled  \* history: first look-ups have overlapped, or a put has failed

vars == <<stored, pc, key, rows, spoiled>>

Init ==
  /\ stored = None
  /\ pc = [c \in Conns |-> "closed"]
  /\ key = [c \in Conns |-> None]
  /\ rows = {}
  /\ spoiled = FALSE

\* cache_get finds the row, which never expires.
Find(c) ==
  /\ pc[c] = "closed"
  /\ stored # None
  /\ pc' = [pc EXCEPT ![c] = "ready"]
  /\ key' = [key EXCEPT ![c] = stored]
  /\ UNCHANGED <<stored, rows, spoiled>>

\* A random secret is none of those in use.
Fresh == Keys \ ({stored} \cup {key[c] : c \in Conns} \cup rows)

\* Mutant: the secret is made anew by every connection.
MakeAlways(c) ==
  /\ pc[c] = "closed"
  /\ \A b \in Conns : pc[b] # "put"
  /\ \E k \in Fresh : key' = [key EXCEPT ![c] = k]
  /\ pc' = [pc EXCEPT ![c] = "put"]
  /\ UNCHANGED <<stored, rows, spoiled>>

\* It finds none: a random secret is made.
Make(c) ==
  /\ pc[c] = "closed"
  /\ stored = None
  /\ \E k \in Fresh : key' = [key EXCEPT ![c] = k]
  /\ pc' = [pc EXCEPT ![c] = "put"]
  /\ spoiled' = (spoiled \/ \E b \in Conns : pc[b] # "closed")
  /\ UNCHANGED <<stored, rows>>

\* ON CONFLICT(key) DO UPDATE: a secret that is there is replaced.
Put(c) ==
  /\ pc[c] = "put"
  /\ stored' = key[c]
  /\ pc' = [pc EXCEPT ![c] = "ready"]
  /\ UNCHANGED <<key, rows, spoiled>>

\* The exception of cache_put is swallowed and the secret used all the same.
PutFails(c) ==
  /\ pc[c] = "put"
  /\ pc' = [pc EXCEPT ![c] = "ready"]
  /\ spoiled' = TRUE
  /\ UNCHANGED <<stored, key, rows>>

\* Mutant: rows do not wait for the put.
WriteEarly(c) ==
  /\ pc[c] # "closed"
  /\ rows' = rows \cup {key[c]}
  /\ UNCHANGED <<stored, pc, key, spoiled>>

\* A document is encrypted, an answer signed.
Write(c) ==
  /\ pc[c] = "ready"
  /\ rows' = rows \cup {key[c]}
  /\ UNCHANGED <<stored, pc, key, spoiled>>

\* The request ends, or is lost before its put.
Close(c) ==
  /\ pc[c] # "closed"
  /\ pc' = [pc EXCEPT ![c] = "closed"]
  /\ key' = [key EXCEPT ![c] = None]
  /\ UNCHANGED <<stored, rows, spoiled>>

Next ==
  \E c \in Conns : Find(c) \/ Make(c) \/ Put(c) \/ PutFails(c) \/ Write(c) \/ Close(c)

Spec == Init /\ [][Next]_vars

-----------------------------------------------------------------------------
(* Properties.                                                             *)

\* An open connection has a secret, a closed one has none.
TypeOK ==
  /\ stored \in Keys \cup {None}
  /\ pc \in [Conns -> {"closed", "put", "ready"}]
  /\ key \in [Conns -> Keys \cup {None}]
  /\ \A c \in Conns : key[c] = None <=> pc[c] = "closed"
  /\ rows \subseteq Keys
  /\ spoiled \in BOOLEAN

\* Rows are lost to an overlap of first look-ups or to a failed put, and to
\* nothing else: otherwise who looks the secret up can read every row, decrypt
\* does not raise and verify_record finds every untouched record valid.
RowsReadable == stored # None /\ ~spoiled => rows \subseteq {stored}

\* Nobody has made a secret without having put it.
Settled == stored # None /\ \A c \in Conns : pc[c] # "put"

\* Once a secret is stored and no put is under way, it is the secret for good,
\* however the first connections raced for it.
SecretSettles == [][Settled => Settled' /\ stored' = stored]_vars
=============================================================================
