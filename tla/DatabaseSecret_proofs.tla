----------------------- MODULE DatabaseSecret_proofs -----------------------
(* Theorems about DatabaseSecret, for any connections and secrets.         *)
EXTENDS DatabaseSecret, TLAPS

\* What holds when the first look-ups do not overlap and no put fails: before
\* a secret is stored only its maker is open, afterwards everyone uses it.
OneSecret == ~spoiled =>
  /\ stored = None => /\ rows = {}
                      /\ \A b \in Conns : pc[b] \in {"closed", "put"}
                      /\ \A b, c \in Conns : pc[b] = "put" /\ pc[c] = "put" => b = c
  /\ stored # None => /\ rows \subseteq {stored}
                      /\ \A b \in Conns : pc[b] \in {"closed", "ready"}
                      /\ \A b \in Conns : pc[b] = "ready" => key[b] = stored

-----------------------------------------------------------------------------
\* The initial state has the right types.
LEMMA TypeInit == Init => TypeOK
  BY NoneAssumption DEF Init, TypeOK

\* Every step keeps the types.
LEMMA TypeStep == TypeOK /\ [Next]_vars => TypeOK'
  <1>. SUFFICES ASSUME TypeOK, [Next]_vars PROVE TypeOK'
    OBVIOUS
  <1>. USE NoneAssumption
  <1>1. CASE UNCHANGED vars
    BY <1>1 DEF TypeOK, vars
  <1>2. ASSUME NEW c \in Conns, Find(c) \/ Make(c) PROVE TypeOK'
    <2>1. CASE Find(c)
      BY <2>1 DEF TypeOK, Find
    <2>2. CASE Make(c)
      BY <2>2 DEF TypeOK, Make, Fresh
    <2>. QED BY <1>2, <2>1, <2>2
  <1>3. ASSUME NEW c \in Conns, Put(c) \/ PutFails(c) PROVE TypeOK'
    BY <1>3 DEF TypeOK, Put, PutFails
  <1>4. ASSUME NEW c \in Conns, Write(c) PROVE TypeOK'
    BY <1>4 DEF TypeOK, Write
  <1>5. ASSUME NEW c \in Conns, Close(c) PROVE TypeOK'
    BY <1>5 DEF TypeOK, Close
  <1>. QED BY <1>1, <1>2, <1>3, <1>4, <1>5 DEF Next

\* The variables always have their types.
THEOREM TypeCorrect == Spec => []TypeOK
  <1>. QED BY TypeInit, TypeStep, PTL DEF Spec

-----------------------------------------------------------------------------
\* Nothing is stored at first.
LEMMA OneSecretInit == Init => OneSecret
  BY DEF Init, OneSecret

\* One connection at a time keeps the secret one.
LEMMA OneSecretStep ==
  ASSUME TypeOK, OneSecret, [Next]_vars
  PROVE  OneSecret'
  <1>. USE NoneAssumption
  <1>1. CASE UNCHANGED vars
    BY <1>1 DEF OneSecret, vars
  <1>2. ASSUME NEW c \in Conns, Find(c) PROVE OneSecret'
    BY <1>2 DEF TypeOK, OneSecret, Find
  <1>3. ASSUME NEW c \in Conns, Make(c) PROVE OneSecret'
    BY <1>3 DEF TypeOK, OneSecret, Make
  <1>4. ASSUME NEW c \in Conns, Put(c) PROVE OneSecret'
    <2>0. SUFFICES ASSUME ~spoiled PROVE OneSecret'
      BY <1>4 DEF OneSecret, Put
    <2>1. stored = None /\ rows = {} /\ \A b \in Conns : b # c => pc[b] = "closed"
      BY <2>0, <1>4 DEF TypeOK, OneSecret, Put
    <2>2. stored' = key[c] /\ key[c] # None
      BY <1>4 DEF TypeOK, Put
    <2>. QED BY <1>4, <2>1, <2>2 DEF TypeOK, OneSecret, Put
  <1>5. ASSUME NEW c \in Conns, PutFails(c) PROVE OneSecret'
    BY <1>5 DEF OneSecret, PutFails
  <1>6. ASSUME NEW c \in Conns, Write(c) PROVE OneSecret'
    BY <1>6 DEF TypeOK, OneSecret, Write
  <1>7. ASSUME NEW c \in Conns, Close(c) PROVE OneSecret'
    BY <1>7 DEF TypeOK, OneSecret, Close
  <1>. QED BY <1>1, <1>2, <1>3, <1>4, <1>5, <1>6, <1>7 DEF Next

\* When the first use of a secret is not a race and its put succeeds, every
\* encrypted document and every signed row stays readable.
THEOREM RowsStayReadable == Spec => []RowsReadable
  <1>1. TypeOK /\ OneSecret /\ [Next]_vars => OneSecret'
    BY OneSecretStep
  <1>2. OneSecret => RowsReadable
    BY DEF OneSecret, RowsReadable
  <1>. QED BY TypeCorrect, OneSecretInit, <1>1, <1>2, PTL DEF Spec

-----------------------------------------------------------------------------
\* Whoever raced to store it first, a secret that is stored with no put under
\* way is never replaced.
THEOREM StoredSecretStays == Spec => SecretSettles
  <1>1. TypeOK /\ [Next]_vars => [Settled => Settled' /\ stored' = stored]_vars
    <2>. SUFFICES ASSUME TypeOK, Settled, Next
                  PROVE  Settled' /\ stored' = stored
      OBVIOUS
    <2>1. PICK c \in Conns :
            Find(c) \/ Make(c) \/ Put(c) \/ PutFails(c) \/ Write(c) \/ Close(c)
      BY DEF Next
    <2>2. Find(c) \/ Write(c) \/ Close(c)
      BY <2>1 DEF Settled, Make, Put, PutFails
    <2>. QED BY <2>2 DEF TypeOK, Settled, Find, Write, Close
  <1>. QED BY TypeCorrect, <1>1, PTL DEF Spec, SecretSettles
=============================================================================
