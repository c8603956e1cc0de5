-------------------------- MODULE ChatPanel_proofs --------------------------
(***************************************************************************)
(* Proofs about ChatPanel, for every number of questions, clicks, chats,   *)
(* handlers under way, recent questions and failures.                      *)
(***************************************************************************)
EXTENDS ChatPanel, TLAPS, FiniteSetTheorems

USE ChatAssumption

AskSteps == {"idle", "create", "ask", "stream", "createAnswer", "answer",
             "refresh", "createError", "error", "done"}
ClickSteps == {"idle", "new", "load", "delete", "matter", "list"}
\* Logs of messages in which each question is the k-th for some k.
Logs == {s \in Seq(Message) : \A k \in 1..Cardinality(AskedAt(s)) : KthAsked(s, k) # {}}
Replies == [ok : BOOLEAN, seen : BOOLEAN, chat : Chats \cup {None}, list : SUBSET Chats,
            log : Logs]

\* The tables, the page and the calls, each with its own type.
ServerType ==
  /\ chats \subseteq born /\ born \subseteq Chats /\ linked \subseteq born
  /\ matter \in BOOLEAN
  /\ log \in [Chats -> Logs]
PageType ==
  /\ open \in BOOLEAN /\ busy \in BOOLEAN /\ calm \in BOOLEAN
  /\ active \in Chats \cup {None}
  /\ listed \subseteq Chats
  /\ panel \subseteq Message
  /\ turns \in Seq(Questions) /\ Len(turns) <= MaxTurns
CallsType ==
  /\ pc \in [Handlers -> AskSteps \cup ClickSteps]
  /\ \A q \in Questions : pc[q] \in AskSteps
  /\ \A k \in Clicks : pc[k] \in ClickSteps
  /\ chat \in [Handlers -> Chats \cup {None}]
  /\ tied \in [Handlers -> {"no", "yes", "checked"}]
  /\ reply \in [Handlers -> Replies]
  /\ \A h \in Handlers : pc[h] \in Posting \cup {"load", "delete"} => chat[h] \in Chats
  /\ \A h \in Handlers : Ok(h) /\ pc[h] \in Creating \cup {"load"} => reply[h].chat \in Chats
TypeInv == ServerType /\ PageType /\ CallsType

-----------------------------------------------------------------------------
(***************************************************************************)
(* Whatever overlaps or fails.  A question is in no log before it is       *)
(* posted, an answer or an error is in none before it is; and a question   *)
(* that was posted is stored, or some chat has been deleted.               *)
(***************************************************************************)
Has(c, m) == \E i \in DOMAIN log[c] : log[c][i] = m
Unsaid(q, r) == \A c \in Chats : ~Has(c, Says(q, r))
Once(q, r) == \A c, d \in Chats : Has(c, Says(q, r)) /\ Has(d, Says(q, r)) => c = d

\* The server has stored what the handler has posted.
Posted(q, p) == pc[q] = p /\ reply[q].seen /\ Ok(q)
AfterAsk == {"stream", "createAnswer", "answer", "refresh", "createError", "error"}

QuestionInv(q) ==
  /\ Once(q, "user") /\ Once(q, "assistant")
  /\ pc[q] \in {"idle", "create", "ask"} /\ ~Posted(q, "ask") => Unsaid(q, "user")
  /\ pc[q] \in {"idle", "create", "ask", "stream", "createAnswer", "answer"} /\ ~Posted(q, "answer") =>
       Unsaid(q, "assistant")
  /\ pc[q] \in AskSteps \ {"error", "done"} => Unsaid(q, "error")
  /\ \/ Posted(q, "ask")
     \/ pc[q] \in AfterAsk
     \/ ~Unsaid(q, "assistant")
     \/ ~Unsaid(q, "error")
     => ~Unsaid(q, "user") \/ chats # born

LogsInv ==
  /\ \A c \in Chats \ chats : log[c] = << >>
  /\ \A q \in Questions : QuestionInv(q)

-----------------------------------------------------------------------------
(***************************************************************************)
(* While the user does one thing at a time and nothing fails.              *)
(***************************************************************************)
Active(h) == pc[h] \notin {"idle", "done"}
InSync == active \in chats /\ panel = Range(log[active]) /\ turns = Recent(Asks(log[active]))

\* The role of the message that is posted.
Role(p) == CASE p = "ask" -> "user" [] p = "answer" -> "assistant" [] p = "error" -> "error"

\* What holds while a chat is created, a message is posted, a chat is loaded or
\* deleted or the matter is.
CreateCalm(h) ==
  /\ tied[h] # "no" => matter
  /\ ~reply[h].seen => listed = chats /\ (active # None => InSync)
  /\ reply[h].seen => /\ reply[h].list = chats /\ reply[h].chat \in chats
                      /\ log[reply[h].chat] = << >>
PostCalm(h) ==
  /\ active = chat[h] /\ active \in chats
  /\ ~reply[h].seen => listed = chats /\ panel = Range(log[active]) \cup {Says(h, Role(pc[h]))}
  /\ reply[h].seen => reply[h].list = chats /\ panel = Range(log[active])
  /\ IF pc[h] = "ask" /\ reply[h].seen THEN Recent(Append(turns, h)) = Recent(Asks(log[active]))
                                       ELSE turns = Recent(Asks(log[active]))
LoadCalm(h) ==
  /\ listed = chats
  /\ reply[h].seen => reply[h].chat \in chats /\ reply[h].log = log[reply[h].chat]
DeleteCalm(h) ==
  IF reply[h].seen THEN reply[h].list = chats /\ (active \notin {None, chat[h]} => InSync)
                   ELSE active # None => InSync
StreamCalm == listed = chats /\ InSync

HandlerCalm(h) ==
  /\ pc[h] \notin {"createAnswer", "createError"}
  /\ pc[h] \in {"create", "new"} => CreateCalm(h)
  /\ pc[h] \in Posting => PostCalm(h)
  /\ pc[h] \in {"stream", "refresh"} => StreamCalm
  /\ pc[h] = "load" => LoadCalm(h)
  /\ pc[h] = "delete" => DeleteCalm(h)
  /\ pc[h] \in {"matter", "list"} => open
  /\ pc[h] \notin {"matter", "list"} => (open => matter)
  /\ pc[h] = "list" /\ reply[h].seen => reply[h].list = chats
  /\ pc[h] \in AfterAsk \/ (pc[h] = "ask" /\ reply[h].seen) => Has(active, Says(h, "user"))

\* An answer is where its question is, and a matter leaves no chat of its behind.
TablesCalm ==
  /\ ~matter => linked \cap chats = {}
  /\ \A q \in Questions : \A c \in Chats :
       Has(c, Says(q, "assistant")) => Has(c, Says(q, "user"))
QuietCalm == listed = chats /\ (open => matter) /\ (active # None => InSync)

CalmInv ==
  calm =>
    /\ \A g, h \in Handlers : Active(g) /\ Active(h) => g = h
    /\ \A h \in Handlers : reply[h].seen => Ok(h)
    /\ TablesCalm
    /\ (\A h \in Handlers : ~Active(h)) => QuietCalm
    /\ \A h \in Handlers : Active(h) => HandlerCalm(h)

-----------------------------------------------------------------------------
(***************************************************************************)
(* The operators on logs and recent questions.                             *)
(***************************************************************************)

\* A message that is added is the newest; the others keep their places.
LEMMA Appended ==
  ASSUME NEW S, NEW s \in Seq(S), NEW m \in S
  PROVE  /\ Append(s, m) \in Seq(S) /\ Len(s) \in Nat /\ Len(Append(s, m)) = Len(s) + 1
         /\ DOMAIN s = 1..Len(s) /\ DOMAIN Append(s, m) = (1..Len(s)) \cup {Len(s) + 1}
         /\ Append(s, m)[Len(s) + 1] = m
         /\ \A i \in 1..Len(s) : Append(s, m)[i] = s[i]
  OBVIOUS

\* filter() finds finitely many questions, each at a place of its own.
LEMMA AskedFinite ==
  ASSUME NEW s \in Seq(Message)
  PROVE  /\ IsFiniteSet(AskedAt(s)) /\ Cardinality(AskedAt(s)) \in Nat
         /\ \A i : IsFiniteSet({j \in AskedAt(s) : j <= i})
                   /\ Cardinality({j \in AskedAt(s) : j <= i}) <= Cardinality(AskedAt(s))
<1>1. IsFiniteSet(1..Len(s)) /\ AskedAt(s) \subseteq 1..Len(s)
  BY FS_Interval DEF AskedAt
<1>2. IsFiniteSet(AskedAt(s))
  BY <1>1, FS_Subset
<1>3. ASSUME NEW i PROVE {j \in AskedAt(s) : j <= i} \subseteq AskedAt(s)
  OBVIOUS
<1> QED BY <1>2, <1>3, FS_Subset, FS_CardinalityType

\* A message that is no question leaves the questions as they are.
LEMMA AsksOther ==
  ASSUME NEW s \in Logs, NEW m \in Message, m.role # "user"
  PROVE  Append(s, m) \in Logs /\ Asks(Append(s, m)) = Asks(s)
<1> DEFINE n == Len(s)
           t == Append(s, m)
<1>1. /\ s \in Seq(Message) /\ t \in Seq(Message) /\ n \in Nat
      /\ DOMAIN s = 1..n /\ DOMAIN t = (1..n) \cup {n + 1} /\ t[n + 1] = m
      /\ \A i \in 1..n : t[i] = s[i]
  BY Appended DEF Logs
<1> HIDE DEF n, t
<1>2. AskedAt(t) = AskedAt(s)
  BY <1>1 DEF AskedAt
<1>3. \A k : KthAsked(t, k) = KthAsked(s, k)
  BY <1>2 DEF KthAsked
<1>4. t \in Logs
  BY <1>1, <1>2, <1>3 DEF Logs
<1>5. ASSUME NEW k \in 1..Cardinality(AskedAt(s))
      PROVE  t[CHOOSE i \in KthAsked(t, k) : TRUE] = s[CHOOSE i \in KthAsked(s, k) : TRUE]
  <2>0. PICK x : x = CHOOSE i \in KthAsked(s, k) : TRUE
    OBVIOUS
  <2>1. x \in KthAsked(s, k)
    BY <2>0 DEF Logs
  <2>2. x \in 1..n
    BY <1>1, <2>1 DEF KthAsked, AskedAt
  <2>3. t[x] = s[x]
    BY <1>1, <2>2
  <2>4. x = CHOOSE i \in KthAsked(t, k) : TRUE
    BY <1>3, <2>0
  <2> QED BY <2>0, <2>3, <2>4
<1>6. Asks(t) = Asks(s)
  BY <1>2, <1>5 DEF Asks
<1> QED BY <1>4, <1>6 DEF t

\* The questions of a log are a sequence of questions.
LEMMA AsksTyped ==
  ASSUME NEW s \in Logs
  PROVE  Asks(s) \in Seq(Questions)
<1> DEFINE a == Cardinality(AskedAt(s))
           f == [k \in 1..a |-> s[CHOOSE i \in KthAsked(s, k) : TRUE].of]
<1>1. s \in Seq(Message) /\ DOMAIN s = 1..Len(s) /\ \A k \in 1..a : KthAsked(s, k) # {}
  BY DEF Logs
<1>2. ASSUME NEW k \in 1..a PROVE s[CHOOSE i \in KthAsked(s, k) : TRUE].of \in Questions
  <2>0. PICK x : x = CHOOSE i \in KthAsked(s, k) : TRUE
    OBVIOUS
  <2>1. x \in KthAsked(s, k)
    BY <1>1, <2>0
  <2>2. x \in 1..Len(s)
    BY <1>1, <2>1 DEF KthAsked, AskedAt
  <2>3. s[x] \in Message
    BY <1>1, <2>2
  <2> QED BY <2>0, <2>3 DEF Message
<1>3. f \in [1..a -> Questions]
  BY <1>2
<1>4. a \in Nat
  BY <1>1, AskedFinite
<1> HIDE DEF f, a
<1>5. f \in Seq(Questions)
  BY <1>3, <1>4
<1> QED BY <1>5 DEF f, a, Asks

\* A question that is added is asked last.
LEMMA AsksQuestion ==
  ASSUME NEW s \in Logs, NEW m \in Message, m.role = "user"
  PROVE  Append(s, m) \in Logs /\ Asks(Append(s, m)) = Append(Asks(s), m.of)
<1> DEFINE n == Len(s)
           t == Append(s, m)
           u == AskedAt(s)
           a == Cardinality(u)
<1>1. /\ s \in Seq(Message) /\ t \in Seq(Message) /\ n \in Nat
      /\ DOMAIN s = 1..n /\ DOMAIN t = (1..n) \cup {n + 1} /\ t[n + 1] = m
      /\ \A i \in 1..n : t[i] = s[i]
  BY Appended DEF Logs
<1>2. /\ IsFiniteSet(u) /\ a \in Nat
      /\ \A i : IsFiniteSet({j \in u : j <= i}) /\ Cardinality({j \in u : j <= i}) <= a
  BY <1>1, AskedFinite
<1> HIDE DEF n, t
<1>3. /\ AskedAt(t) = u \cup {n + 1} /\ n + 1 \notin u
      /\ \A i \in u : i \in 1..n
  BY <1>1 DEF AskedAt
<1>4. Cardinality(AskedAt(t)) = a + 1
  BY <1>2, <1>3, FS_AddElement
<1>5. ASSUME NEW i \in u PROVE {j \in AskedAt(t) : j <= i} = {j \in u : j <= i}
  <2>1. ~(n + 1 <= i)
    BY <1>1, <1>3
  <2> QED BY <1>3, <2>1
<1>6. {j \in AskedAt(t) : j <= n + 1} = AskedAt(t)
  BY <1>1, <1>3
<1>7. ASSUME NEW k \in 1..a PROVE KthAsked(t, k) = KthAsked(s, k)
  <2>1. k # a + 1
    BY <1>2
  <2>2. \A i \in AskedAt(t) : i \in u \/ i = n + 1
    BY <1>3
  <2>3. \A i \in u : Cardinality({j \in AskedAt(t) : j <= i}) = Cardinality({j \in u : j <= i})
    BY <1>5
  <2>4. Cardinality({j \in AskedAt(t) : j <= n + 1}) = a + 1
    BY <1>4, <1>6
  <2> HIDE DEF u, a
  <2> QED BY <1>3, <2>1, <2>2, <2>3, <2>4 DEF KthAsked, u
<1>8. KthAsked(t, a + 1) = {n + 1}
  <2>1. \A i \in u : Cardinality({j \in AskedAt(t) : j <= i}) # a + 1
    <3> SUFFICES ASSUME NEW i \in u PROVE Cardinality({j \in AskedAt(t) : j <= i}) # a + 1
      OBVIOUS
    <3>1. Cardinality({j \in u : j <= i}) <= a /\ Cardinality({j \in u : j <= i}) \in Nat
      BY <1>2, FS_CardinalityType
    <3> QED BY <1>2, <1>5, <3>1
  <2>2. Cardinality({j \in AskedAt(t) : j <= n + 1}) = a + 1
    BY <1>4, <1>6
  <2> HIDE DEF u, a
  <2> QED BY <1>3, <2>1, <2>2 DEF KthAsked
<1>9. 1..(a + 1) = (1..a) \cup {a + 1} /\ a + 1 \notin 1..a
  BY <1>2
<1>10. \A k \in 1..a : KthAsked(s, k) # {}
  BY DEF Logs
<1>11. t \in Logs
  <2>1. \A k \in 1..(a + 1) : KthAsked(t, k) # {}
    BY <1>7, <1>8, <1>9, <1>10
  <2> QED BY <1>1, <1>4, <2>1 DEF Logs
<1>12. ASSUME NEW k \in 1..a
       PROVE  t[CHOOSE i \in KthAsked(t, k) : TRUE] = s[CHOOSE i \in KthAsked(s, k) : TRUE]
  <2>0. PICK x : x = CHOOSE i \in KthAsked(s, k) : TRUE
    OBVIOUS
  <2>1. x \in KthAsked(s, k)
    BY <1>10, <2>0
  <2>2. x \in 1..n
    BY <1>1, <2>1 DEF KthAsked, AskedAt
  <2>3. t[x] = s[x]
    BY <1>1, <2>2
  <2>4. x = CHOOSE i \in KthAsked(t, k) : TRUE
    BY <1>7, <2>0
  <2> QED BY <2>0, <2>3, <2>4
<1>13. (CHOOSE i \in KthAsked(t, a + 1) : TRUE) = n + 1
  BY <1>8
<1>14. Asks(t) = [k \in 1..(a + 1) |-> t[CHOOSE i \in KthAsked(t, k) : TRUE].of]
  BY <1>4 DEF Asks
<1>15. Asks(s) = [k \in 1..a |-> s[CHOOSE i \in KthAsked(s, k) : TRUE].of]
  BY DEF Asks
<1>16. Asks(s) \in Seq(Questions)
  BY AsksTyped
<1>17. m.of \in Questions
  BY DEF Message
<1>18. Asks(t) = Append(Asks(s), m.of)
  <2> DEFINE b == Asks(s)
             d == Append(b, m.of)
  <2>1. Len(b) = a
    BY <1>2, <1>15, <1>16
  <2>2. /\ d \in Seq(Questions) /\ Len(d) = a + 1 /\ DOMAIN d = 1..(a + 1)
        /\ d[a + 1] = m.of /\ \A k \in 1..a : d[k] = b[k]
    BY <1>2, <1>16, <1>17, <2>1
  <2>3. /\ DOMAIN Asks(t) = 1..(a + 1) /\ Asks(t)[a + 1] = m.of
        /\ \A k \in 1..a : Asks(t)[k] = b[k]
    <3>1. DOMAIN Asks(t) = 1..(a + 1) /\ a + 1 \in 1..(a + 1)
      BY <1>9, <1>14
    <3>2. Asks(t)[a + 1] = t[n + 1].of
      BY <1>13, <1>14, <3>1
    <3>3. \A k \in 1..a : Asks(t)[k] = b[k]
      <4> SUFFICES ASSUME NEW k \in 1..a PROVE Asks(t)[k] = Asks(s)[k]
        OBVIOUS
      <4>1. Asks(t)[k] = t[CHOOSE i \in KthAsked(t, k) : TRUE].of
        BY <1>9, <1>14
      <4>2. Asks(s)[k] = s[CHOOSE i \in KthAsked(s, k) : TRUE].of
        BY <1>15
      <4> QED BY <1>12, <4>1, <4>2
    <3> QED BY <1>1, <3>1, <3>2, <3>3
  <2>4. Asks(t) = [k \in 1..(a + 1) |-> Asks(t)[k]]
    BY <1>14
  <2>5. d = [k \in 1..(a + 1) |-> d[k]]
    BY <2>2
  <2> HIDE DEF d, b, a
  <2>6. \A k \in 1..(a + 1) : Asks(t)[k] = d[k]
    BY <1>9, <2>2, <2>3
  <2> QED BY <2>4, <2>5, <2>6 DEF d, b
<1> QED BY <1>11, <1>18 DEF t

\* Nothing was asked in an empty log.
LEMMA EmptyLog ==
  << >> \in Logs /\ Asks(<< >>) = << >> /\ Range(<< >>) = {}
<1> DEFINE e == << >>
<1>1. e \in Seq(Message) /\ DOMAIN e = {} /\ e \in Seq(Questions) /\ Len(e) = 0
  OBVIOUS
<1> HIDE DEF e
<1>2. AskedAt(e) = {}
  BY <1>1 DEF AskedAt
<1>3. Cardinality(AskedAt(e)) = 0
  BY <1>2, FS_EmptySet
<1>4. 1..0 = {}
  OBVIOUS
<1>5. e \in Logs
  BY <1>1, <1>3, <1>4 DEF Logs
<1>6. Asks(e) \in Seq(Questions)
  BY <1>5, AsksTyped
<1>7. DOMAIN Asks(e) = {}
  BY <1>3, <1>4 DEF Asks
<1>8. Asks(e) = << >>
  BY <1>6, <1>7
<1>9. Range(e) = {}
  BY <1>1 DEF Range
<1> QED BY <1>5, <1>8, <1>9 DEF e

\* The messages of a log, and the one that is added.
LEMMA AppendedRange ==
  ASSUME NEW s \in Logs, NEW m \in Message
  PROVE  Range(Append(s, m)) = Range(s) \cup {m}
<1>1. s \in Seq(Message)
  BY DEF Logs
<1> DEFINE n == Len(s)
           t == Append(s, m)
<1>2. /\ n \in Nat /\ DOMAIN s = 1..n /\ DOMAIN t = (1..n) \cup {n + 1} /\ t[n + 1] = m
      /\ \A i \in 1..n : t[i] = s[i]
  BY <1>1, Appended
<1> HIDE DEF n, t
<1> QED BY <1>2 DEF Range, t

\* slice(-6): the recent questions are questions, and few.
LEMMA RecentTyped ==
  ASSUME NEW t \in Seq(Questions)
  PROVE  Recent(t) \in Seq(Questions) /\ Len(Recent(t)) <= MaxTurns
<1>1. MaxTurns \in Nat \ {0} /\ Len(t) \in Nat
  BY BoundsAssumption
<1>2. CASE Len(t) > MaxTurns
  <2>1. Len(t) - MaxTurns + 1 \in 1..(Len(t) + 1) /\ Len(t) \in 0..Len(t)
    BY <1>1, <1>2
  <2>2. /\ SubSeq(t, Len(t) - MaxTurns + 1, Len(t)) \in Seq(Questions)
        /\ Len(SubSeq(t, Len(t) - MaxTurns + 1, Len(t))) = MaxTurns
    BY <1>1, <1>2, <2>1
  <2> QED BY <1>1, <1>2, <2>2 DEF Recent
<1>3. CASE ~(Len(t) > MaxTurns)
  BY <1>1, <1>3 DEF Recent
<1> QED BY <1>2, <1>3

\* The recent questions with one more are the recent ones of all with one more:
\* the page need not keep more than those.
LEMMA RecentAppend ==
  ASSUME NEW t \in Seq(Questions), NEW q \in Questions
  PROVE  Recent(Append(Recent(t), q)) = Recent(Append(t, q))
<1>1. MaxTurns \in Nat \ {0} /\ Len(t) \in Nat
  BY BoundsAssumption
<1>2. CASE ~(Len(t) > MaxTurns)
  BY <1>2 DEF Recent
<1>3. CASE Len(t) > MaxTurns
  <2> DEFINE n == Len(t)
             k == MaxTurns
             r == SubSeq(t, n - k + 1, n)
             u == Append(t, q)
             v == Append(r, q)
  <2>1. k \in Nat \ {0} /\ n \in Nat /\ n > k
    BY <1>1, <1>3
  <2>2. /\ r \in Seq(Questions) /\ Len(r) = k
        /\ \A i \in 1..k : r[i] = t[n - k + i]
    BY <2>1
  <2>3. /\ u \in Seq(Questions) /\ Len(u) = n + 1 /\ u[n + 1] = q
        /\ \A i \in 1..n : u[i] = t[i]
    BY <2>1
  <2>4. /\ v \in Seq(Questions) /\ Len(v) = k + 1 /\ v[k + 1] = q
        /\ \A i \in 1..k : v[i] = r[i]
    BY <2>2
  <2>5. Recent(t) = r
    BY <1>3 DEF Recent
  <2> HIDE DEF r, u, v
  <2>6. Recent(v) = SubSeq(v, 2, k + 1)
    BY <2>1, <2>4 DEF Recent
  <2>7. Recent(u) = SubSeq(u, n - k + 2, n + 1)
    BY <2>1, <2>3 DEF Recent
  <2> HIDE DEF n, k
  <2>8. /\ SubSeq(v, 2, k + 1) \in Seq(Questions) /\ Len(SubSeq(v, 2, k + 1)) = k
        /\ \A i \in 1..k : SubSeq(v, 2, k + 1)[i] = v[i + 1]
    BY <2>1, <2>4
  <2>9. /\ SubSeq(u, n - k + 2, n + 1) \in Seq(Questions) /\ Len(SubSeq(u, n - k + 2, n + 1)) = k
        /\ \A i \in 1..k : SubSeq(u, n - k + 2, n + 1)[i] = u[n - k + 1 + i]
    BY <2>1, <2>3
  <2>10. ASSUME NEW i \in 1..k PROVE v[i + 1] = u[n - k + 1 + i]
    <3>1. CASE i = k
      BY <2>1, <2>3, <2>4, <3>1
    <3>2. CASE i # k
      <4>1. i + 1 \in 1..k /\ n - k + (i + 1) \in 1..n /\ n - k + (i + 1) = n - k + 1 + i
        BY <2>1, <3>2
      <4>2. v[i + 1] = r[i + 1] /\ r[i + 1] = t[n - k + (i + 1)]
        BY <2>2, <2>4, <4>1
      <4> QED BY <2>3, <4>1, <4>2
    <3> QED BY <3>1, <3>2
  <2>11. SubSeq(v, 2, k + 1) = SubSeq(u, n - k + 2, n + 1)
    BY <2>1, <2>8, <2>9, <2>10
  <2> QED BY <2>5, <2>6, <2>7, <2>11 DEF u, v
<1> QED BY <1>2, <1>3

\* Nothing is recent when nothing was asked.
LEMMA RecentEmpty == Recent(<< >>) = << >>
  BY BoundsAssumption DEF Recent

-----------------------------------------------------------------------------
(***************************************************************************)
(* Types.                                                                  *)
(***************************************************************************)

\* A handler that sends a request, or ends, leaves the calls typed.
LEMMA SendTyped ==
  ASSUME CallsType, NEW h \in Handlers, NEW p, NEW c \in Chats \cup {None},
         NEW t \in {"no", "yes", "checked"},
         h \in Questions => p \in AskSteps, h \in Clicks => p \in ClickSteps,
         p \in Posting \cup {"load", "delete"} => c \in Chats,
         Send(h, p, c, t)
  PROVE  CallsType'
<1>1. p \in AskSteps \cup ClickSteps /\ Questions \subseteq Handlers /\ Clicks \subseteq Handlers
  BY DEF Handlers
<1>2. NoReply \in Replies /\ ~NoReply.ok
  BY EmptyLog DEF NoReply, Replies
<1>3. /\ pc' \in [Handlers -> AskSteps \cup ClickSteps]
      /\ \A q \in Questions : pc'[q] \in AskSteps
      /\ \A k \in Clicks : pc'[k] \in ClickSteps
  BY <1>1 DEF CallsType, Send
<1>4. chat' \in [Handlers -> Chats \cup {None}] /\ tied' \in [Handlers -> {"no", "yes", "checked"}]
  BY DEF CallsType, Send
<1>5. reply' \in [Handlers -> Replies]
  BY <1>2 DEF CallsType, Send
<1>6. ASSUME NEW g \in Handlers, pc'[g] \in Posting \cup {"load", "delete"} PROVE chat'[g] \in Chats
  <2>1. CASE g = h
    BY <2>1, <1>6 DEF CallsType, Send
  <2>2. CASE g # h
    <3>1. pc'[g] = pc[g] /\ chat'[g] = chat[g]
      BY <2>2 DEF CallsType, Send
    <3> QED BY <1>6, <3>1 DEF CallsType
  <2> QED BY <2>1, <2>2
<1>7. ASSUME NEW g \in Handlers, Ok(g)', pc'[g] \in Creating \cup {"load"} PROVE reply'[g].chat \in Chats
  <2>1. CASE g = h
    <3>1. reply'[g] = NoReply
      BY <2>1 DEF CallsType, Send
    <3> QED BY <1>2, <1>7, <3>1 DEF Ok
  <2>2. CASE g # h
    <3>1. pc'[g] = pc[g] /\ reply'[g] = reply[g]
      BY <2>2 DEF CallsType, Send
    <3> QED BY <1>7, <3>1 DEF CallsType, Ok
  <2> QED BY <2>1, <2>2
<1> QED BY <1>3, <1>4, <1>5, <1>6, <1>7 DEF CallsType

\* So does an answer of the server; one to a handler that creates or opens a
\* chat names it.
LEMMA AnswerTyped ==
  ASSUME CallsType, NEW h \in Handlers, NEW r \in Replies,
         r.ok /\ pc[h] \in Creating \cup {"load"} => r.chat \in Chats,
         Answer(h, r), tied' = tied
  PROVE  CallsType'
<1>1. reply' \in [Handlers -> Replies] /\ pc' = pc /\ chat' = chat
  BY DEF CallsType, Answer
<1>2. ASSUME NEW g \in Handlers, Ok(g)', pc'[g] \in Creating \cup {"load"} PROVE reply'[g].chat \in Chats
  <2>1. CASE g = h
    <3>1. reply'[g] = r
      BY <2>1 DEF CallsType, Answer
    <3> QED BY <1>1, <1>2, <2>1, <3>1 DEF Ok
  <2>2. CASE g # h
    <3>1. reply'[g] = reply[g]
      BY <2>2 DEF CallsType, Answer
    <3> QED BY <1>1, <1>2, <3>1 DEF CallsType, Ok
  <2> QED BY <2>1, <2>2
<1> QED BY <1>1, <1>2 DEF CallsType

\* What the server answers has the type of a reply.
LEMMA RepliesTyped ==
  /\ NoReply \in Replies /\ Failed \in Replies /\ ~Failed.ok
  /\ \A c \in Chats \cup {None} : \A s \in SUBSET Chats : \A m \in Logs :
       Reply(c, s, m) \in Replies /\ Reply(c, s, m).chat = c
<1>2. << >> \in Logs
  BY EmptyLog
<1>3. NoReply \in Replies
  BY <1>2 DEF NoReply, Replies
<1>4. Failed \in Replies /\ ~Failed.ok
  <2>1. ~NoReply.ok
    BY DEF NoReply
  <2> QED BY <1>3, <2>1 DEF Failed, Replies
<1>5. ASSUME NEW c \in Chats \cup {None}, NEW s \in SUBSET Chats, NEW m \in Logs
      PROVE  Reply(c, s, m) \in Replies /\ Reply(c, s, m).chat = c
  BY DEF Reply, Replies
<1> QED BY <1>3, <1>4, <1>5

\* A message added to one log, or deleted with its chat, leaves logs.
LEMMA LogsTyped ==
  ASSUME log \in [Chats -> Logs]
  PROVE  /\ \A c \in Chats : \A m \in Message :
              log' = [log EXCEPT ![c] = Append(@, m)] => log' \in [Chats -> Logs]
         /\ \A s : log' = [c \in Chats |-> IF c \in s THEN << >> ELSE log[c]] => log' \in [Chats -> Logs]
<1>1. ASSUME NEW c \in Chats, NEW m \in Message PROVE Append(log[c], m) \in Logs
  <2>1. m.role = "user" \/ m.role # "user"
    OBVIOUS
  <2> QED BY <2>1, AsksOther, AsksQuestion
<1>2. << >> \in Logs
  BY EmptyLog
<1> QED BY <1>1, <1>2

\* The server's steps.
LEMMA ServeTyped ==
  ASSUME TypeInv, NEW h \in Handlers, Serve(h)
  PROVE  TypeInv'
<1> USE DEF TypeInv
<1>1. CASE CheckMatter(h)
  <2>1. ServerType' /\ PageType'
    BY <1>1, Zenon DEF CheckMatter, ServerType, PageType, server, page, Answer
  <2>2. CASE matter
    <3>1. /\ tied' \in [Handlers -> {"no", "yes", "checked"}]
          /\ UNCHANGED <<pc, chat, reply>>
      BY <1>1, <2>2 DEF CheckMatter, CallsType
    <3>2. CallsType'
      BY <3>1 DEF CallsType, Ok
    <3> QED BY <2>1, <3>2
  <2>3. CASE ~matter
    <3>1. Answer(h, Failed) /\ tied' = tied
      BY <1>1, <2>3 DEF CheckMatter
    <3>2. CallsType'
      BY <3>1, AnswerTyped, RepliesTyped
    <3> QED BY <2>1, <3>2
  <2> QED BY <2>2, <2>3
<1>2. CASE CreateChat(h)
  <2>1. PICK c : /\ c = CHOOSE new \in Chats \ born : TRUE
                 /\ chats' = chats \cup {c} /\ born' = born \cup {c}
                 /\ linked' = IF tied[h] = "checked" THEN linked \cup {c} ELSE linked
                 /\ Answer(h, Reply(c, chats', << >>))
    BY <1>2 DEF CreateChat
  <2>2. c \in Chats \ born
    <3>1. Chats \ born # {}
      BY <1>2 DEF CreateChat, ServerType
    <3> QED BY <2>1, <3>1
  <2>3. UNCHANGED <<matter, log, page, tied, calm>>
    BY <1>2 DEF CreateChat
  <2>4. ServerType' /\ PageType'
    BY <2>1, <2>2, <2>3 DEF ServerType, PageType, page
  <2>5. chats' \subseteq Chats
    BY <2>4 DEF ServerType
  <2>6. CallsType'
    BY <2>1, <2>2, <2>3, <2>5, AnswerTyped, RepliesTyped, EmptyLog
  <2> QED BY <2>4, <2>6
<1>3. CASE h \in Questions /\ PostMessage(h)
  <2>1. PICK m : /\ m = [of |-> h, role |-> CASE pc[h] = "ask" -> "user"
                                         [] pc[h] = "answer" -> "assistant"
                                         [] pc[h] = "error" -> "error"]
                 /\ AddMessage(h, m)
    BY <1>3 DEF PostMessage
  <2>2. pc[h] \in Posting /\ UNCHANGED <<chats, born, linked, matter, page, tied>>
    BY <1>3 DEF PostMessage, Waits
  <2>3. m \in Message /\ chat[h] \in Chats
    BY <1>3, <2>1, <2>2 DEF Message, Posting, CallsType
  <2>4. ServerType'
    <3>1. log' \in [Chats -> Logs]
      BY <2>1, <2>3, LogsTyped DEF AddMessage, ServerType
    <3> QED BY <2>2, <3>1 DEF ServerType
  <2>5. PageType'
    BY <2>1, <2>2 DEF AddMessage, PageType, page
  <2>6. PICK r \in Replies : Answer(h, r)
    <3>1. chats \subseteq Chats
      BY DEF ServerType
    <3> QED BY <2>1, <2>3, <3>1, RepliesTyped, EmptyLog DEF AddMessage
  <2>7. CallsType'
    BY <2>2, <2>6, AnswerTyped DEF Posting, Creating
  <2> QED BY <2>4, <2>5, <2>7
<1>4. CASE GetChat(h)
  <2>1. ServerType' /\ PageType' /\ pc[h] = "load" /\ chat[h] \in Chats /\ tied' = tied
    BY <1>4 DEF GetChat, Waits, CallsType, ServerType, PageType, server, page
  <2>2. PICK r \in Replies : Answer(h, r) /\ (r.ok => r.chat \in Chats)
    <3>1. Reply(chat[h], {}, log[chat[h]]) \in Replies /\ Reply(chat[h], {}, log[chat[h]]).chat = chat[h]
      BY <2>1, RepliesTyped DEF ServerType
    <3> QED BY <1>4, <2>1, <3>1, RepliesTyped DEF GetChat
  <2>3. CallsType'
    BY <2>1, <2>2, AnswerTyped
  <2> QED BY <2>1, <2>3
<1>5. CASE DeleteChat(h)
  <2>1. PageType' /\ pc[h] = "delete" /\ chat[h] \in Chats /\ tied' = tied
        /\ UNCHANGED <<born, linked, matter>>
    BY <1>5 DEF DeleteChat, Waits, CallsType, PageType, page
  <2>2. ServerType'
    <3>1. chats' \subseteq chats /\ log' \in [Chats -> Logs]
      BY <1>5, LogsTyped DEF DeleteChat, Drop, ServerType
    <3> QED BY <2>1, <3>1 DEF ServerType
  <2>3. PICK r \in Replies : Answer(h, r)
    <3>1. chats' \subseteq Chats
      BY <2>2 DEF ServerType
    <3> QED BY <1>5, <2>1, <3>1, RepliesTyped, EmptyLog DEF DeleteChat
  <2>4. CallsType'
    BY <2>1, <2>3, AnswerTyped DEF Creating
  <2> QED BY <2>1, <2>2, <2>4
<1>6. CASE DeleteMatter(h)
  <2>1. PageType' /\ pc[h] = "matter" /\ tied' = tied /\ matter' = FALSE
        /\ UNCHANGED <<born, linked>>
    BY <1>6 DEF DeleteMatter, Waits, CallsType, PageType, page
  <2>2. ServerType'
    <3>1. chats' \subseteq chats /\ log' \in [Chats -> Logs]
      BY <1>6, LogsTyped DEF DeleteMatter, Drop, ServerType
    <3> QED BY <2>1, <3>1 DEF ServerType
  <2>3. PICK r \in Replies : Answer(h, r)
    BY <1>6, <2>1, RepliesTyped, EmptyLog DEF DeleteMatter
  <2>4. CallsType'
    BY <2>1, <2>3, AnswerTyped DEF Creating
  <2> QED BY <2>1, <2>2, <2>4
<1>7. CASE ListChats(h)
  <2>1. ServerType' /\ PageType' /\ pc[h] = "list" /\ tied' = tied
    BY <1>7 DEF ListChats, Waits, ServerType, PageType, server, page
  <2>2. PICK r \in Replies : Answer(h, r)
    <3>1. chats \subseteq Chats
      BY DEF ServerType
    <3> QED BY <1>7, <3>1, RepliesTyped, EmptyLog DEF ListChats
  <2>3. CallsType'
    BY <2>1, <2>2, AnswerTyped DEF Creating
  <2> QED BY <2>1, <2>3
<1>8. CASE RequestFails(h)
  <2>1. ServerType' /\ PageType' /\ tied' = tied /\ Answer(h, Failed)
    BY <1>8 DEF RequestFails, ServerType, PageType, server, page
  <2>2. CallsType'
    BY <2>1, RepliesTyped, AnswerTyped
  <2> QED BY <2>1, <2>2
<1> QED BY <1>1, <1>2, <1>3, <1>4, <1>5, <1>6, <1>7, <1>8 DEF Serve

\* The page's steps of a question.
LEMMA AskTyped ==
  ASSUME TypeInv, NEW q \in Questions, Submit(q) \/ Handle(q)
  PROVE  TypeInv'
<1> USE DEF TypeInv
<1>0. /\ q \in Handlers /\ q \notin Clicks
      /\ \A r \in {"user", "assistant", "error"} : Says(q, r) \in Message
      /\ << >> \in Seq(Questions) /\ Len(<< >>) <= MaxTurns
  BY BoundsAssumption DEF Handlers, Says, Message
<1>1. ASSUME NEW p \in Posting, NEW d \in Creating \ {"new"}, EnsureChat(q, p, d) PROVE CallsType'
  <2>1. p \in AskSteps /\ d \in AskSteps /\ d \notin Posting \cup {"load", "delete"}
    BY DEF Posting, Creating, AskSteps
  <2>2. CASE active \in listed
    <3>1. Send(q, p, active, "no") /\ active \in Chats
      BY <1>1, <2>2 DEF EnsureChat, PageType
    <3> QED BY <1>0, <2>1, <3>1, SendTyped
  <2>3. CASE active \notin listed
    <3>1. PICK t \in {"no", "yes", "checked"} : Send(q, d, None, t)
      BY <1>1, <2>3 DEF EnsureChat, Create
    <3> QED BY <1>0, <2>1, <3>1, SendTyped
  <2> QED BY <2>2, <2>3
<1>2. ASSUME NEW r \in {"assistant", "error"}, NEW p \in Posting, NEW d \in Creating \ {"new"},
             Tell(q, r, p, d), calm' \in BOOLEAN, UNCHANGED server
      PROVE  TypeInv'
  <2>1. CallsType'
    BY <1>1, <1>2 DEF Tell
  <2>2. panel' \subseteq Message /\ UNCHANGED <<open, active, listed, turns, busy>>
    BY <1>0, <1>2 DEF Tell, PageType
  <2>3. PageType' /\ ServerType'
    BY <1>2, <2>2 DEF PageType, ServerType, server
  <2> QED BY <2>1, <2>3
<1>3. reply[q] \in Replies /\ reply[q].list \subseteq Chats /\ reply[q].chat \in Chats \cup {None}
  BY <1>0 DEF CallsType, Replies
<1>4. Recent(Append(turns, q)) \in Seq(Questions) /\ Len(Recent(Append(turns, q))) <= MaxTurns
  <2>1. Append(turns, q) \in Seq(Questions)
    BY DEF PageType
  <2> QED BY <2>1, RecentTyped
<1>5. ASSUME NEW shown \in SUBSET Message, Adopt(q, shown), UNCHANGED <<server, calm>>
      PROVE  PageType' /\ ServerType'
  BY <1>0, <1>3, <1>5 DEF Adopt, PageType, ServerType, server
<1>6. CASE Submit(q)
  <2>1. CallsType'
    BY <1>1, <1>6 DEF Submit, Posting, Creating
  <2>2. PageType' /\ ServerType'
    BY <1>0, <1>6 DEF Submit, Start, PageType, ServerType, server
  <2> QED BY <2>1, <2>2
<1>7. CASE Created(q)
  <2>1. PageType' /\ ServerType'
    BY <1>0, <1>5, <1>7 DEF Created
  <2>2. Send(q, "ask", reply[q].chat, "no") /\ reply[q].chat \in Chats
    BY <1>0, <1>7 DEF Created, Back, CallsType, Creating
  <2>3. CallsType'
    BY <1>0, <2>2, SendTyped DEF AskSteps
  <2> QED BY <2>1, <2>3
<1>8. ASSUME End(q) PROVE CallsType'
  <2>1. Send(q, "done", None, "no")
    BY <1>8 DEF End
  <2> QED BY <1>0, <2>1, SendTyped DEF AskSteps, Posting
<1>9. CASE NotAsked(q)
  <2>1. PageType' /\ ServerType'
    BY <1>9 DEF NotAsked, PageType, ServerType, page, server
  <2> QED BY <1>8, <1>9, <2>1 DEF NotAsked
<1>10. CASE Asked(q)
  <2>1. PageType' /\ ServerType'
    BY <1>3, <1>4, <1>10 DEF Asked, PageType, ServerType, server
  <2>2. Send(q, "stream", None, "no")
    BY <1>10 DEF Asked
  <2>3. CallsType'
    BY <1>0, <2>2, SendTyped DEF AskSteps, Posting
  <2> QED BY <2>1, <2>3
<1>11. CASE StreamEnds(q)
  <2>1. calm' \in BOOLEAN /\ UNCHANGED server
    BY <1>11 DEF StreamEnds, PageType
  <2> QED BY <1>2, <1>11, <2>1 DEF StreamEnds, Complain, Posting, Creating
<1>12. CASE CreatedLate(q)
  <2>1. PageType' /\ ServerType'
    BY <1>5, <1>12 DEF CreatedLate
  <2>2. PICK p \in {"answer", "error"} : Send(q, p, reply[q].chat, "no")
    BY <1>12 DEF CreatedLate
  <2>3. reply[q].chat \in Chats
    BY <1>0, <1>12 DEF CreatedLate, Back, CallsType, Creating
  <2>4. CallsType'
    BY <1>0, <2>2, <2>3, SendTyped DEF AskSteps
  <2> QED BY <2>1, <2>4
<1>13. CASE Stored(q)
  <2>1. PageType' /\ ServerType'
    BY <1>3, <1>13 DEF Stored, PageType, ServerType, server
  <2>2. Send(q, "refresh", None, "no")
    BY <1>13 DEF Stored
  <2>3. CallsType'
    BY <1>0, <2>2, SendTyped DEF AskSteps, Posting
  <2> QED BY <2>1, <2>3
<1>14. CASE Refreshed(q)
  <2>1. PageType' /\ ServerType'
    BY <1>14 DEF Refreshed, PageType, ServerType, server
  <2> QED BY <1>8, <1>14, <2>1 DEF Refreshed
<1>15. CASE NotStored(q)
  <2>1. calm' \in BOOLEAN /\ UNCHANGED server
    BY <1>15 DEF NotStored
  <2> QED BY <1>2, <1>15, <2>1 DEF NotStored, Complain, Posting, Creating
<1>16. CASE ErrorTold(q)
  <2>1. PageType' /\ ServerType'
    BY <1>3, <1>16 DEF ErrorTold, PageType, ServerType, server
  <2> QED BY <1>8, <1>16, <2>1 DEF ErrorTold
<1> QED BY <1>6, <1>7, <1>9, <1>10, <1>11, <1>12, <1>13, <1>14, <1>15, <1>16 DEF Handle

\* The page's steps of a click.
LEMMA ClickTyped ==
  ASSUME TypeInv, NEW k \in Clicks, Click(k) \/ Clicked(k)
  PROVE  TypeInv'
<1> USE DEF TypeInv
<1>0. k \in Handlers /\ k \notin Questions /\ << >> \in Seq(Questions) /\ Len(<< >>) <= MaxTurns
  BY BoundsAssumption DEF Handlers
<1>1. CASE Click(k)
  <2>1. /\ StartClick(k) /\ UNCHANGED <<server, page>>
        /\ \/ Create(k, "new") \/ Send(k, "matter", None, "no")
           \/ \E c \in Chats : Send(k, "load", c, "no") \/ Send(k, "delete", c, "no")
    BY <1>1 DEF Click, NewChat, CloseMatter, OpenChat, CloseChat
  <2>2. calm' \in BOOLEAN
    BY <2>1 DEF StartClick, Start
  <2>3. PageType' /\ ServerType'
    BY <2>1, <2>2 DEF PageType, ServerType, page, server
  <2>4. PICK p \in ClickSteps, c \in Chats \cup {None}, t \in {"no", "yes", "checked"} :
          Send(k, p, c, t) /\ (p \in Posting \cup {"load", "delete"} => c \in Chats)
    BY <2>1 DEF Create, ClickSteps, Posting
  <2>5. CallsType'
    BY <1>0, <2>4, SendTyped
  <2> QED BY <2>3, <2>5
<1>2. CASE Clicked(k)
  <2>1. reply[k] \in Replies /\ reply[k].list \subseteq Chats /\ reply[k].chat \in Chats \cup {None}
        /\ reply[k].log \in Logs
    BY <1>0 DEF CallsType, Replies
  <2>2. \A i : reply[k].log \in Seq(Message) /\ Range(reply[k].log) \subseteq Message
    <3>1. reply[k].log \in Seq(Message)
      BY <2>1 DEF Logs
    <3> QED BY <3>1 DEF Range
  <2>3. /\ Recent(Asks(reply[k].log)) \in Seq(Questions)
        /\ Len(Recent(Asks(reply[k].log))) <= MaxTurns
    BY <2>1, AsksTyped, RecentTyped
  <2>4. CallsType'
    <3>1. End(k) \/ Send(k, "list", None, "no")
      BY <1>2 DEF Clicked, NewChatMade, ChatOpened, ChatClosed, MatterClosed, ChatsListed, ClickFails
    <3>2. PICK p \in {"idle", "list"} : Send(k, p, None, "no")
      BY <1>0, <3>1 DEF End
    <3> QED BY <1>0, <3>2, SendTyped DEF ClickSteps, Posting
  <2>5. UNCHANGED <<server, calm>>
    BY <1>2 DEF Clicked, NewChatMade, ChatOpened, ChatClosed, MatterClosed, ChatsListed, ClickFails
  <2>6. ServerType'
    BY <2>5 DEF ServerType, server
  <2>7. PageType'
    <3>1. CASE NewChatMade(k)
      BY <1>0, <2>1, <3>1 DEF NewChatMade, Adopt, PageType
    <3>2. CASE ChatOpened(k)
      BY <2>1, <2>2, <2>3, <3>2 DEF ChatOpened, PageType
    <3>3. CASE ChatClosed(k)
      BY <1>0, <2>1, <3>3 DEF ChatClosed, PageType
    <3>4. CASE MatterClosed(k) \/ ClickFails(k)
      BY <3>4 DEF MatterClosed, ClickFails, PageType, page
    <3>5. CASE ChatsListed(k)
      BY <2>1, <3>5 DEF ChatsListed, PageType
    <3> QED BY <1>2, <3>1, <3>2, <3>3, <3>4, <3>5 DEF Clicked
  <2> QED BY <2>4, <2>6, <2>7
<1> QED BY <1>1, <1>2

\* Every step keeps the types.
LEMMA TypeStep == TypeInv /\ [Next]_vars => TypeInv'
<1> SUFFICES ASSUME TypeInv, [Next]_vars PROVE TypeInv'
  OBVIOUS
<1>1. CASE Next
  BY <1>1, ServeTyped, AskTyped, ClickTyped DEF Next
<1>2. CASE UNCHANGED vars
  BY <1>2 DEF vars, TypeInv, ServerType, PageType, CallsType, Ok
<1> QED BY <1>1, <1>2

\* The page starts with no chat.
LEMMA TypeInit == Init => TypeInv
<1> SUFFICES ASSUME Init PROVE TypeInv
  OBVIOUS
<1>1. ServerType
  BY EmptyLog DEF Init, ServerType
<1>2. PageType
  <2>1. << >> \in Seq(Questions) /\ Len(<< >>) <= MaxTurns
    BY BoundsAssumption
  <2> QED BY <2>1 DEF Init, PageType
<1>3. CallsType
  <2>1. \A h \in Handlers : pc[h] = "idle" /\ reply[h] = NoReply /\ ~NoReply.ok
    BY DEF Init, NoReply
  <2>2. Questions \subseteq Handlers /\ Clicks \subseteq Handlers
    BY DEF Handlers
  <2> QED BY <2>1, <2>2, RepliesTyped DEF Init, CallsType, AskSteps, ClickSteps, Posting, Creating, Ok
<1> QED BY <1>1, <1>2, <1>3 DEF TypeInv

\* Each part of the page and of the tables has the values the code gives it.
THEOREM PanelTyped == Spec => []TypeOK
<1>1. TypeInv => TypeOK
  <2> SUFFICES ASSUME TypeInv PROVE TypeOK
    OBVIOUS
  <2>1. \A c \in Chats : MessagesOK(log[c])
    <3> SUFFICES ASSUME NEW c \in Chats PROVE MessagesOK(log[c])
      OBVIOUS
    <3>1. log[c] \in Seq(Message)
      BY DEF TypeInv, ServerType, Logs
    <3> QED BY <3>1 DEF MessagesOK
  <2>2. \A i \in DOMAIN turns : turns[i] \in Questions
    BY DEF TypeInv, PageType
  <2> QED BY <2>1, <2>2 DEF TypeInv, ServerType, PageType, CallsType, TypeOK, AskSteps, ClickSteps
<1> QED BY <1>1, TypeInit, TypeStep, PTL DEF Spec

-----------------------------------------------------------------------------
(***************************************************************************)
(* What a step does to the handlers and to the tables.                     *)
(***************************************************************************)

Others(h) == \A g \in Handlers \ {h} : /\ pc'[g] = pc[g] /\ chat'[g] = chat[g]
                                       /\ tied'[g] = tied[g] /\ reply'[g] = reply[g]

\* How a question goes on.
Moves(q) ==
  \/ pc[q] = "idle" /\ pc'[q] \in {"ask", "create"}
  \/ pc[q] = "create" /\ pc'[q] \in {"ask", "done"}
  \/ Posted(q, "ask") /\ pc'[q] = "stream"
  \/ pc[q] = "ask" /\ pc'[q] = "done"
  \/ pc[q] = "stream" /\ pc'[q] \in {"answer", "createAnswer", "error", "createError"}
  \/ pc[q] = "createAnswer" /\ pc'[q] \in {"answer", "error", "createError"}
  \/ Posted(q, "answer") /\ pc'[q] = "refresh"
  \/ pc[q] \in {"answer", "refresh"} /\ pc'[q] \in {"error", "createError"}
  \/ pc[q] = "refresh" /\ pc'[q] = "done"
  \/ pc[q] = "createError" /\ pc'[q] \in {"error", "done"}
  \/ pc[q] = "error" /\ pc'[q] = "done"

\* Sending a request, or ending, leaves the other handlers where they are.
LEMMA SendMoves ==
  ASSUME CallsType, NEW h \in Handlers, NEW p, NEW c, NEW t, Send(h, p, c, t)
  PROVE  /\ Others(h) /\ pc'[h] = p /\ chat'[h] = c /\ tied'[h] = t /\ reply'[h] = NoReply
  BY DEF CallsType, Send, Others

\* The same of a handler that sees which chat is open.
LEMMA EnsureMoves ==
  ASSUME CallsType, NEW q \in Handlers, NEW p, NEW d, EnsureChat(q, p, d)
  PROVE  Others(q) /\ pc'[q] \in {p, d} /\ reply'[q] = NoReply
<1>1. CASE active \in listed
  <2>1. Send(q, p, active, "no")
    BY <1>1 DEF EnsureChat
  <2> QED BY <2>1, SendMoves
<1>2. CASE active \notin listed
  <2>1. PICK t : t = IF open THEN "yes" ELSE "no"
    OBVIOUS
  <2>2. Send(q, d, None, t)
    BY <1>2, <2>1 DEF EnsureChat, Create
  <2> QED BY <2>2, SendMoves
<1> QED BY <1>1, <1>2

\* The page's steps of a question leave the tables alone.
LEMMA AskMoves ==
  ASSUME CallsType, NEW q \in Questions, Submit(q) \/ Handle(q)
  PROVE  UNCHANGED server /\ Others(q) /\ reply'[q] = NoReply /\ Moves(q)
<1>0. q \in Handlers
  BY DEF Handlers
<1>1. ASSUME NEW r, NEW p, NEW d, Tell(q, r, p, d)
      PROVE  Others(q) /\ pc'[q] \in {p, d} /\ reply'[q] = NoReply
  BY <1>0, <1>1, EnsureMoves DEF Tell
<1>2. ASSUME End(q) PROVE Others(q) /\ pc'[q] = "done" /\ reply'[q] = NoReply
  <2>1. Send(q, "done", None, "no")
    BY <1>2 DEF End
  <2> QED BY <1>0, <2>1, SendMoves
<1>3. CASE Submit(q)
  BY <1>0, <1>3, EnsureMoves DEF Submit, Moves
<1>4. CASE Created(q)
  <2>1. Send(q, "ask", reply[q].chat, "no")
    BY <1>4 DEF Created
  <2>2. Others(q) /\ pc'[q] = "ask" /\ reply'[q] = NoReply
    BY <1>0, <2>1, SendMoves
  <2> QED BY <1>4, <2>2 DEF Created, Back, Moves
<1>5. CASE NotAsked(q)
  BY <1>2, <1>5 DEF NotAsked, Back, Moves
<1>6. CASE Asked(q)
  <2>1. Others(q) /\ pc'[q] = "stream" /\ reply'[q] = NoReply
    BY <1>0, <1>6, SendMoves DEF Asked
  <2> QED BY <1>6, <2>1 DEF Asked, Back, Moves, Posted
<1>7. CASE StreamEnds(q)
  BY <1>1, <1>7 DEF StreamEnds, Complain, Moves
<1>8. CASE CreatedLate(q)
  <2>1. PICK p : p = IF pc[q] = "createAnswer" THEN "answer" ELSE "error"
    OBVIOUS
  <2>2. Send(q, p, reply[q].chat, "no")
    BY <1>8, <2>1 DEF CreatedLate
  <2>3. Others(q) /\ pc'[q] = p /\ reply'[q] = NoReply
    BY <1>0, <2>2, SendMoves
  <2> QED BY <1>8, <2>1, <2>3 DEF CreatedLate, Back, Moves
<1>9. CASE Stored(q)
  <2>1. Others(q) /\ pc'[q] = "refresh" /\ reply'[q] = NoReply
    BY <1>0, <1>9, SendMoves DEF Stored
  <2> QED BY <1>9, <2>1 DEF Stored, Back, Moves, Posted
<1>10. CASE Refreshed(q)
  BY <1>2, <1>10 DEF Refreshed, Moves
<1>11. CASE NotStored(q)
  <2>1. Others(q) /\ pc'[q] \in {"error", "createError"} /\ reply'[q] = NoReply
    BY <1>1, <1>11 DEF NotStored, Complain
  <2> QED BY <1>11, <2>1 DEF NotStored, Back, Moves
<1>12. CASE ErrorTold(q)
  BY <1>2, <1>12 DEF ErrorTold, Back, Moves
<1> QED BY <1>3, <1>4, <1>5, <1>6, <1>7, <1>8, <1>9, <1>10, <1>11, <1>12 DEF Handle

\* So do those of a click.
LEMMA ClickMoves ==
  ASSUME CallsType, NEW k \in Clicks, Click(k) \/ Clicked(k)
  PROVE  UNCHANGED server /\ Others(k) /\ reply'[k] = NoReply
<1>0. k \in Handlers
  BY DEF Handlers
<1>1. PICK p, c, t : Send(k, p, c, t)
  BY DEF Click, NewChat, CloseMatter, OpenChat, CloseChat, Create, Clicked, NewChatMade,
         ChatOpened, ChatClosed, MatterClosed, ChatsListed, ClickFails, End
<1>2. UNCHANGED server
  BY DEF Click, NewChat, CloseMatter, OpenChat, CloseChat, Clicked, NewChatMade,
         ChatOpened, ChatClosed, MatterClosed, ChatsListed, ClickFails
<1> QED BY <1>0, <1>1, <1>2, SendMoves

\* The server takes no handler further, and answers one.
LEMMA ServeMoves ==
  ASSUME CallsType, NEW h \in Handlers, Serve(h)
  PROVE  /\ pc' = pc /\ chat' = chat
         /\ \A g \in Handlers \ {h} : tied'[g] = tied[g] /\ reply'[g] = reply[g]
<1>1. ASSUME NEW r, Answer(h, r)
      PROVE pc' = pc /\ chat' = chat /\ \A g \in Handlers \ {h} : reply'[g] = reply[g]
  BY <1>1 DEF Answer, CallsType
<1>2. CASE CheckMatter(h)
  BY <1>1, <1>2 DEF CheckMatter, CallsType
<1>3. CASE CreateChat(h)
  <2>1. \E r : Answer(h, r)
    BY <1>3 DEF CreateChat
  <2> QED BY <1>1, <1>3, <2>1 DEF CreateChat
<1>4. CASE h \in Questions /\ PostMessage(h)
  <2>1. \E r : Answer(h, r)
    BY <1>4 DEF PostMessage, AddMessage
  <2> QED BY <1>1, <1>4, <2>1 DEF PostMessage
<1>5. CASE GetChat(h)
  <2>1. \E r : Answer(h, r)
    BY <1>5 DEF GetChat
  <2> QED BY <1>1, <1>5, <2>1 DEF GetChat
<1>6. CASE DeleteChat(h)
  <2>1. \E r : Answer(h, r)
    BY <1>6 DEF DeleteChat
  <2> QED BY <1>1, <1>6, <2>1 DEF DeleteChat
<1>7. CASE DeleteMatter(h)
  <2>1. \E r : Answer(h, r)
    BY <1>7 DEF DeleteMatter
  <2> QED BY <1>1, <1>7, <2>1 DEF DeleteMatter
<1>8. CASE ListChats(h)
  BY <1>1, <1>8 DEF ListChats
<1>9. CASE RequestFails(h)
  BY <1>1, <1>9 DEF RequestFails
<1> QED BY <1>2, <1>3, <1>4, <1>5, <1>6, <1>7, <1>8, <1>9 DEF Serve

\* What a step of the server does to the chats and their messages: nothing, one
\* more chat, some chats less, or one more message.
Same == UNCHANGED <<chats, born, log>>
Grows == \E c \in Chats \ born : /\ chats' = chats \cup {c} /\ born' = born \cup {c}
                                /\ log' = log
Shrinks == \E s \in SUBSET Chats : Drop(s) /\ born' = born
Stores(q) ==
  /\ q \in Questions /\ pc[q] \in Posting /\ ~reply[q].seen /\ chat[q] \in chats
  /\ log' = [log EXCEPT ![chat[q]] = Append(@, Says(q, Role(pc[q])))]
  /\ reply'[q] = Reply(chat[q], chats, << >>)
  /\ UNCHANGED <<chats, born>>
AsPosted(q) == \A p \in {"ask", "answer"} : Posted(q, p)' <=> Posted(q, p)

LEMMA ServeEffects ==
  ASSUME TypeInv, NEW h \in Handlers, Serve(h)
  PROVE  \/ (Same \/ Grows \/ Shrinks) /\ AsPosted(h)
         \/ Stores(h)
<1> USE DEF TypeInv
<1>0. /\ \A r : Answer(h, r) => pc'[h] = pc[h] /\ reply'[h] = r
      /\ ~Failed.ok
  BY RepliesTyped DEF Answer, CallsType
<1>1. ASSUME ~reply[h].seen, pc'[h] = pc[h],
             pc[h] \notin {"ask", "answer"} \/ ~reply'[h].ok \/ reply'[h] = reply[h]
      PROVE  AsPosted(h)
  BY <1>1 DEF AsPosted, Posted, Ok
<1>2. CASE CheckMatter(h)
  <2>1. Same /\ ~reply[h].seen /\ pc[h] \in Creating /\ pc' = pc
    BY <1>2 DEF CheckMatter, Same, server, Waits, Answer
  <2> QED BY <1>1, <2>1 DEF Creating
<1>3. CASE CreateChat(h)
  <2>1. Grows
    <3>1. PICK c : /\ c = CHOOSE new \in Chats \ born : TRUE
                   /\ chats' = chats \cup {c} /\ born' = born \cup {c}
      BY <1>3 DEF CreateChat
    <3>2. c \in Chats \ born
      <4>1. Chats \ born # {}
        BY <1>3 DEF CreateChat, ServerType
      <4> QED BY <3>1, <4>1
    <3>3. log' = log
      BY <1>3 DEF CreateChat
    <3> QED BY <3>1, <3>2, <3>3 DEF Grows
  <2>2. ~reply[h].seen /\ pc[h] \in Creating /\ pc' = pc
    BY <1>3 DEF CreateChat, Waits, Answer
  <2> QED BY <1>1, <2>1, <2>2 DEF Creating
<1>4. CASE h \in Questions /\ PostMessage(h)
  <2>1. PICK m : /\ m = [of |-> h, role |-> CASE pc[h] = "ask" -> "user"
                                         [] pc[h] = "answer" -> "assistant"
                                         [] pc[h] = "error" -> "error"]
                 /\ AddMessage(h, m)
    BY <1>4 DEF PostMessage
  <2>2. m = Says(h, Role(pc[h]))
    BY <2>1, Zenon DEF Says, Role
  <2>3. ~reply[h].seen /\ pc[h] \in Posting /\ UNCHANGED <<chats, born>>
    BY <1>4 DEF PostMessage, Waits
  <2>4. CASE chat[h] \in chats
    <3>1. /\ log' = [log EXCEPT ![chat[h]] = Append(@, m)]
          /\ Answer(h, Reply(chat[h], chats, << >>))
      BY <2>1, <2>4 DEF AddMessage
    <3>2. reply'[h] = Reply(chat[h], chats, << >>)
      BY <1>0, <3>1
    <3> QED BY <1>4, <2>2, <2>3, <2>4, <3>1, <3>2 DEF Stores
  <2>5. CASE chat[h] \notin chats
    <3>1. log' = log /\ Answer(h, Failed)
      BY <2>1, <2>5 DEF AddMessage
    <3> QED BY <1>0, <1>1, <2>3, <3>1 DEF Same
  <2> QED BY <2>4, <2>5
<1>5. CASE GetChat(h)
  <2>1. Same /\ ~reply[h].seen /\ pc[h] = "load" /\ pc' = pc
    BY <1>5 DEF GetChat, Same, server, Waits, Answer
  <2> QED BY <1>1, <2>1
<1>6. CASE DeleteChat(h)
  <2>1. ~reply[h].seen /\ pc[h] = "delete" /\ pc' = pc
    BY <1>6 DEF DeleteChat, Waits, Answer
  <2>2. Same \/ Shrinks
    <3>1. chats \subseteq Chats /\ born' = born
      BY <1>6 DEF DeleteChat, ServerType
    <3>2. CASE chat[h] \in chats
      BY <1>6, <3>1, <3>2 DEF DeleteChat, Shrinks
    <3>3. CASE chat[h] \notin chats
      BY <1>6, <3>1, <3>3 DEF DeleteChat, Same
    <3> QED BY <3>2, <3>3
  <2> QED BY <1>1, <2>1, <2>2
<1>7. CASE DeleteMatter(h)
  <2>1. ~reply[h].seen /\ pc[h] = "matter" /\ pc' = pc
    BY <1>7 DEF DeleteMatter, Waits, Answer
  <2>2. Same \/ Shrinks
    <3>1. linked \subseteq Chats /\ born' = born
      BY <1>7 DEF DeleteMatter, ServerType
    <3>2. CASE matter
      BY <1>7, <3>1, <3>2 DEF DeleteMatter, Shrinks
    <3>3. CASE ~matter
      BY <1>7, <3>1, <3>3 DEF DeleteMatter, Same
    <3> QED BY <3>2, <3>3
  <2> QED BY <1>1, <2>1, <2>2
<1>8. CASE ListChats(h)
  <2>1. Same /\ ~reply[h].seen /\ pc[h] = "list" /\ pc' = pc
    BY <1>8 DEF ListChats, Same, server, Waits, Answer
  <2> QED BY <1>1, <2>1
<1>9. CASE RequestFails(h)
  <2>1. Same /\ ~reply[h].seen /\ Answer(h, Failed)
    BY <1>9 DEF RequestFails, Same, server, Waits
  <2> QED BY <1>0, <1>1, <2>1
<1> QED BY <1>2, <1>3, <1>4, <1>5, <1>6, <1>7, <1>8, <1>9 DEF Serve

\* Messages of two questions, or two messages of one, are not the same.
LEMMA SaysApart ==
  \A q, g, r, s : Says(q, r) = Says(g, s) => q = g /\ r = s
<1> SUFFICES ASSUME NEW q, NEW g, NEW r, NEW s, Says(q, r) = Says(g, s) PROVE q = g /\ r = s
  OBVIOUS
<1>1. /\ Says(q, r).of = q /\ Says(q, r).role = r
      /\ Says(g, s).of = g /\ Says(g, s).role = s
  BY DEF Says
<1> QED BY <1>1

\* The messages of the logs after each of those steps.
LEMMA HasSame == log' = log => \A c, m : Has(c, m)' <=> Has(c, m)
  BY DEF Has

LEMMA HasDrop ==
  ASSUME log \in [Chats -> Logs], NEW s, Drop(s), NEW c \in Chats, NEW m
  PROVE  Has(c, m)' <=> c \notin s /\ Has(c, m)
<1>1. c \in s => DOMAIN (log'[c]) = {}
  BY DEF Drop
<1>2. c \notin s => log'[c] = log[c]
  BY DEF Drop
<1> QED BY <1>1, <1>2 DEF Has

LEMMA HasAppend ==
  ASSUME log \in [Chats -> Logs], NEW d \in Chats, NEW n \in Message,
         log' = [log EXCEPT ![d] = Append(@, n)], NEW c \in Chats, NEW m
  PROVE  Has(c, m)' <=> Has(c, m) \/ (c = d /\ m = n)
<1>1. CASE c # d
  <2>1. log'[c] = log[c]
    BY <1>1
  <2> QED BY <1>1, <2>1 DEF Has
<1>2. CASE c = d
  <2>1. log'[c] = Append(log[c], n) /\ log[c] \in Seq(Message)
    BY <1>2 DEF Logs
  <2> DEFINE s == log[c]
             t == log'[c]
             k == Len(s)
  <2>2. /\ k \in Nat /\ DOMAIN s = 1..k /\ DOMAIN t = (1..k) \cup {k + 1} /\ t[k + 1] = n
        /\ \A i \in 1..k : t[i] = s[i]
    BY <2>1, Appended
  <2> HIDE DEF k, s, t
  <2>3. (\E i \in DOMAIN t : t[i] = m) <=> (\E i \in DOMAIN s : s[i] = m) \/ m = n
    BY <2>2
  <2> QED BY <1>2, <2>3 DEF Has, s, t
<1> QED BY <1>1, <1>2

\* A message is kept only in a chat that is there.
LEMMA HasChat ==
  ASSUME LogsInv, NEW c \in Chats, NEW m, Has(c, m)
  PROVE  c \in chats
<1>1. CASE c \notin chats
  <2>1. DOMAIN (log[c]) = {}
    BY <1>1 DEF LogsInv
  <2> QED BY <2>1 DEF Has
<1> QED BY <1>1

-----------------------------------------------------------------------------
(***************************************************************************)
(* Whatever overlaps or fails.                                             *)
(***************************************************************************)

\* A step that neither takes a question further nor stores a message of it, and
\* deletes no chat that it does not count among the lost ones.
LEMMA QuestionKept ==
  ASSUME NEW q \in Questions, QuestionInv(q), pc'[q] = pc[q], AsPosted(q),
         \A c \in Chats : \A r : Has(c, Says(q, r))' => Has(c, Says(q, r)),
         chats # born => chats' # born',
         Unsaid(q, "user")' /\ ~Unsaid(q, "user") => chats' # born'
  PROVE  QuestionInv(q)'
<1>1. Once(q, "user")' /\ Once(q, "assistant")'
  BY DEF QuestionInv, Once
<1>2. \A r : Unsaid(q, r) => Unsaid(q, r)'
  BY DEF Unsaid
<1>3. /\ Posted(q, "ask")' <=> Posted(q, "ask")
      /\ Posted(q, "answer")' <=> Posted(q, "answer")
  BY DEF AsPosted
<1> QED BY <1>1, <1>2, <1>3 DEF QuestionInv

\* A step that takes a question further has the message stored it waited for.
LEMMA QuestionMoves ==
  ASSUME NEW q \in Questions, QuestionInv(q), Moves(q), UNCHANGED server, reply'[q] = NoReply
  PROVE  QuestionInv(q)'
<1>1. \A c : \A r : Has(c, Says(q, r))' <=> Has(c, Says(q, r))
  BY HasSame DEF server
<1>2. Once(q, "user")' /\ Once(q, "assistant")'
  BY <1>1 DEF QuestionInv, Once
<1>3. \A r : Unsaid(q, r)' <=> Unsaid(q, r)
  BY <1>1 DEF Unsaid
<1>4. ~Posted(q, "ask")' /\ ~Posted(q, "answer")'
  BY DEF Posted, Ok, NoReply
<1>5. UNCHANGED <<chats, born>>
  BY DEF server
<1>6. Posted(q, "ask") => pc[q] = "ask"
  BY DEF Posted
<1>7. Posted(q, "answer") => pc[q] = "answer"
  BY DEF Posted
<1>8. Posted(q, "ask") => ~Posted(q, "answer")
  BY <1>6, <1>7
<1>9. pc'[q] \in {"idle", "create", "ask"} => Unsaid(q, "user")'
  BY <1>3, <1>6 DEF QuestionInv, Moves
<1>10. pc'[q] \in {"idle", "create", "ask", "stream", "createAnswer", "answer"} => Unsaid(q, "assistant")'
  BY <1>3, <1>6, <1>7 DEF QuestionInv, Moves
<1>11. pc'[q] \in AskSteps \ {"error", "done"} => Unsaid(q, "error")'
  BY <1>3, <1>6, <1>7 DEF QuestionInv, Moves, AskSteps
<1>12. pc'[q] \in AfterAsk \/ ~Unsaid(q, "assistant")' \/ ~Unsaid(q, "error")'
         => ~Unsaid(q, "user")' \/ chats' # born'
  BY <1>3, <1>5, <1>6, <1>7 DEF QuestionInv, Moves, AfterAsk
<1> QED BY <1>2, <1>4, <1>9, <1>10, <1>11, <1>12 DEF QuestionInv

\* A step that stores a message of a question.
LEMMA QuestionStored ==
  ASSUME TypeInv, NEW q \in Questions, QuestionInv(q), Stores(q), pc' = pc
  PROVE  QuestionInv(q)'
<1> DEFINE role == Role(pc[q])
<1>1. /\ pc[q] \in {"ask", "answer", "error"} /\ pc'[q] = pc[q] /\ ~reply[q].seen
      /\ UNCHANGED <<chats, born>>
  BY DEF Stores, Posting
<1>2. chat[q] \in Chats /\ log \in [Chats -> Logs]
  BY DEF Stores, TypeInv, ServerType
<1>3. /\ pc[q] = "ask" => role = "user"
      /\ pc[q] = "answer" => role = "assistant"
      /\ pc[q] = "error" => role = "error"
  BY DEF Role
<1> HIDE DEF role
<1>4. Says(q, role) \in Message
  BY <1>1, <1>3 DEF Says, Message
<1>5. \A c \in Chats : \A r : Has(c, Says(q, r))' <=> Has(c, Says(q, r)) \/ (c = chat[q] /\ r = role)
  <2> SUFFICES ASSUME NEW c \in Chats, NEW r
               PROVE Has(c, Says(q, r))' <=> Has(c, Says(q, r)) \/ (c = chat[q] /\ r = role)
    OBVIOUS
  <2>1. log' = [log EXCEPT ![chat[q]] = Append(@, Says(q, role))]
    BY DEF Stores, role
  <2>2. Has(c, Says(q, r))' <=> Has(c, Says(q, r)) \/ (c = chat[q] /\ Says(q, r) = Says(q, role))
    BY <1>2, <1>4, <2>1, HasAppend
  <2> QED BY <2>2, SaysApart
<1>6. Posted(q, pc[q])' /\ \A p : p # pc[q] => ~Posted(q, p) /\ ~Posted(q, p)'
  <2>1. reply'[q].seen /\ reply'[q].ok
    BY DEF Stores, Reply
  <2> QED BY <1>1, <2>1 DEF Posted, Ok
<1>7. ~Posted(q, pc[q])
  BY <1>1 DEF Posted
<1>8. CASE pc[q] = "ask"
  <2>1. Unsaid(q, "user") /\ Unsaid(q, "assistant") /\ Unsaid(q, "error")
    BY <1>6, <1>7, <1>8 DEF QuestionInv, AskSteps
  <2>2. /\ Once(q, "user")' /\ Once(q, "assistant")' /\ ~Unsaid(q, "user")'
        /\ Unsaid(q, "assistant")' /\ Unsaid(q, "error")'
    BY <1>2, <1>3, <1>5, <1>8, <2>1 DEF Once, Unsaid
  <2> QED BY <1>1, <1>6, <1>8, <2>2 DEF QuestionInv
<1>9. CASE pc[q] = "answer"
  <2>1. Unsaid(q, "assistant") /\ Unsaid(q, "error") /\ (~Unsaid(q, "user") \/ chats # born)
    BY <1>6, <1>7, <1>9 DEF QuestionInv, AskSteps, AfterAsk
  <2>2. /\ Once(q, "user")' /\ Once(q, "assistant")' /\ (~Unsaid(q, "user") => ~Unsaid(q, "user")')
        /\ Unsaid(q, "error")'
    BY <1>2, <1>3, <1>5, <1>9, <2>1 DEF Once, Unsaid, QuestionInv
  <2> QED BY <1>1, <1>6, <1>9, <2>1, <2>2 DEF QuestionInv
<1>10. CASE pc[q] = "error"
  <2>1. ~Unsaid(q, "user") \/ chats # born
    BY <1>10 DEF QuestionInv, AfterAsk
  <2>2. /\ Once(q, "user")' /\ Once(q, "assistant")' /\ (~Unsaid(q, "user") => ~Unsaid(q, "user")')
    BY <1>2, <1>3, <1>5, <1>10 DEF Once, Unsaid, QuestionInv
  <2> QED BY <1>1, <1>10, <2>1, <2>2 DEF QuestionInv
<1> QED BY <1>1, <1>8, <1>9, <1>10

\* A step of the server on behalf of another handler, or without a message.
LEMMA QuestionServed ==
  ASSUME TypeInv, LogsInv, NEW q \in Questions, NEW h \in Handlers, Serve(h)
  PROVE  QuestionInv(q)'
<1>0. /\ log \in [Chats -> Logs] /\ chats \subseteq born /\ born \subseteq Chats
      /\ QuestionInv(q) /\ q \in Handlers
  BY DEF TypeInv, ServerType, LogsInv, Handlers
<1>1. pc' = pc /\ \A g \in Handlers \ {h} : reply'[g] = reply[g]
  BY ServeMoves DEF TypeInv
<1>2. CASE Stores(h) /\ h = q
  BY <1>0, <1>1, <1>2, QuestionStored
<1>3. ASSUME h # q \/ ~Stores(h) PROVE AsPosted(q)
  <2>1. CASE h # q
    <3>1. reply'[q] = reply[q] /\ pc'[q] = pc[q]
      BY <1>0, <1>1, <2>1
    <3> QED BY <3>1 DEF AsPosted, Posted, Ok
  <2>2. CASE h = q
    BY <1>3, <2>2, ServeEffects
  <2> QED BY <2>1, <2>2
<1>4. CASE Stores(h) /\ h # q
  <2>1. /\ h \in Questions /\ chat[h] \in Chats /\ pc[h] \in Posting
        /\ log' = [log EXCEPT ![chat[h]] = Append(@, Says(h, Role(pc[h])))]
        /\ UNCHANGED <<chats, born>>
    BY <1>0, <1>4 DEF Stores
  <2>2. Says(h, Role(pc[h])) \in Message
    BY <2>1 DEF Says, Role, Message, Posting
  <2>3. \A c \in Chats : \A r : Has(c, Says(q, r))' <=> Has(c, Says(q, r))
    <3> SUFFICES ASSUME NEW c \in Chats, NEW r PROVE Has(c, Says(q, r))' <=> Has(c, Says(q, r))
      OBVIOUS
    <3>1. Has(c, Says(q, r))' <=> Has(c, Says(q, r)) \/ (c = chat[h] /\ Says(q, r) = Says(h, Role(pc[h])))
      BY <1>0, <2>1, <2>2, HasAppend
    <3> QED BY <1>4, <3>1, SaysApart
  <2>4. Unsaid(q, "user")' <=> Unsaid(q, "user")
    BY <2>3 DEF Unsaid
  <2>5. pc'[q] = pc[q] /\ AsPosted(q)
    BY <1>1, <1>3, <1>4
  <2> QED BY <1>0, <2>1, <2>3, <2>4, <2>5, QuestionKept
<1>5. CASE ~Stores(h)
  <2>0. pc'[q] = pc[q] /\ AsPosted(q)
    BY <1>1, <1>3, <1>5
  <2>1. CASE Same \/ Grows
    <3>1. log' = log /\ (chats # born => chats' # born')
      BY <1>0, <2>1 DEF Same, Grows
    <3>2. \A c \in Chats : \A r : Has(c, Says(q, r))' <=> Has(c, Says(q, r))
      BY <3>1, HasSame
    <3>3. Unsaid(q, "user")' <=> Unsaid(q, "user")
      BY <3>2 DEF Unsaid
    <3> QED BY <1>0, <2>0, <3>1, <3>2, <3>3, QuestionKept
  <2>2. CASE Shrinks
    <3>1. PICK s \in SUBSET Chats : Drop(s) /\ born' = born
      BY <2>2 DEF Shrinks
    <3>2. chats' = chats \ s
      BY <3>1 DEF Drop
    <3>3. \A c \in Chats : \A r : Has(c, Says(q, r))' <=> c \notin s /\ Has(c, Says(q, r))
      BY <1>0, <3>1, HasDrop
    <3>4. Unsaid(q, "user")' /\ ~Unsaid(q, "user") => chats' # born'
      <4> SUFFICES ASSUME Unsaid(q, "user")', ~Unsaid(q, "user") PROVE chats' # born'
        OBVIOUS
      <4>1. PICK c \in Chats : Has(c, Says(q, "user"))
        BY DEF Unsaid
      <4>2. c \in s
        BY <3>3, <4>1 DEF Unsaid
      <4>3. c \in chats
        BY <4>1, HasChat
      <4> QED BY <1>0, <3>1, <3>2, <4>2, <4>3
    <3> QED BY <1>0, <2>0, <3>1, <3>2, <3>3, <3>4, QuestionKept
  <2> QED BY <1>5, <2>1, <2>2, ServeEffects
<1> QED BY <1>2, <1>4, <1>5

\* Chats that are gone, or to come, keep no message.
LEMMA GoneStep ==
  ASSUME TypeInv, LogsInv, NEW h \in Handlers, Serve(h)
  PROVE  \A c \in Chats \ chats' : log'[c] = << >>
<1>0. log \in [Chats -> Logs] /\ \A c \in Chats \ chats : log[c] = << >>
  BY DEF TypeInv, ServerType, LogsInv
<1>1. CASE Same \/ Grows
  BY <1>0, <1>1 DEF Same, Grows
<1>2. CASE Shrinks
  BY <1>0, <1>2 DEF Shrinks, Drop
<1>3. CASE Stores(h)
  BY <1>0, <1>3 DEF Stores
<1> QED BY <1>1, <1>2, <1>3, ServeEffects

\* Every step keeps what the logs say.
LEMMA LogsStep == TypeInv /\ LogsInv /\ [Next]_vars => LogsInv'
<1> SUFFICES ASSUME TypeInv, LogsInv, [Next]_vars PROVE LogsInv'
  OBVIOUS
<1>0. CallsType /\ (\A q \in Questions : QuestionInv(q)) /\ Questions \subseteq Handlers
  BY DEF TypeInv, LogsInv, Handlers
<1>1. ASSUME NEW h \in Handlers, Serve(h) PROVE LogsInv'
  BY <1>1, QuestionServed, GoneStep DEF LogsInv
<1>2. ASSUME UNCHANGED server, NEW q \in Questions, pc'[q] = pc[q], reply'[q] = reply[q]
      PROVE  QuestionInv(q)'
  <2>1. \A c : \A r : Has(c, Says(q, r))' <=> Has(c, Says(q, r))
    BY <1>2, HasSame DEF server
  <2>2. Unsaid(q, "user")' <=> Unsaid(q, "user")
    BY <2>1 DEF Unsaid
  <2>3. AsPosted(q)
    BY <1>2 DEF AsPosted, Posted, Ok
  <2>4. chats # born => chats' # born'
    BY <1>2 DEF server
  <2> QED BY <1>0, <1>2, <2>1, <2>2, <2>3, <2>4, QuestionKept
<1>3. ASSUME UNCHANGED server PROVE \A c \in Chats \ chats' : log'[c] = << >>
  BY <1>3 DEF server, LogsInv
<1>4. ASSUME NEW q \in Questions, Submit(q) \/ Handle(q) PROVE LogsInv'
  <2>1. UNCHANGED server /\ Others(q) /\ reply'[q] = NoReply /\ Moves(q)
    BY <1>0, <1>4, AskMoves
  <2>2. ASSUME NEW g \in Questions PROVE QuestionInv(g)'
    <3>1. CASE g = q
      BY <1>0, <2>1, <3>1, QuestionMoves
    <3>2. CASE g # q
      <4>1. pc'[g] = pc[g] /\ reply'[g] = reply[g]
        BY <1>0, <2>1, <3>2 DEF Others
      <4> QED BY <1>2, <2>1, <4>1
    <3> QED BY <3>1, <3>2
  <2> QED BY <1>3, <2>1, <2>2 DEF LogsInv
<1>5. ASSUME NEW k \in Clicks, Click(k) \/ Clicked(k) PROVE LogsInv'
  <2>1. UNCHANGED server /\ Others(k)
    BY <1>0, <1>5, ClickMoves
  <2>2. ASSUME NEW g \in Questions PROVE QuestionInv(g)'
    <3>1. pc'[g] = pc[g] /\ reply'[g] = reply[g]
      BY <1>0, <2>1 DEF Others
    <3> QED BY <1>2, <2>1, <3>1
  <2> QED BY <1>3, <2>1, <2>2 DEF LogsInv
<1>6. CASE UNCHANGED vars
  <2>1. UNCHANGED server /\ UNCHANGED <<pc, reply>>
    BY <1>6 DEF vars, server
  <2> QED BY <1>2, <1>3, <2>1 DEF LogsInv
<1> QED BY <1>1, <1>4, <1>5, <1>6 DEF Next

\* Nothing has been said at first.
LEMMA LogsInit == Init => LogsInv
<1> SUFFICES ASSUME Init PROVE LogsInv
  OBVIOUS
<1>1. \A c \in Chats : log[c] = << >>
  BY DEF Init
<1>2. \A c \in Chats : \A m : ~Has(c, m)
  BY <1>1 DEF Has
<1>3. \A q \in Questions : pc[q] = "idle"
  BY DEF Init, Handlers
<1>4. \A q \in Questions : ~Posted(q, "ask")
  BY <1>3 DEF Posted
<1> QED BY <1>1, <1>2, <1>3, <1>4 DEF LogsInv, QuestionInv, Once, Unsaid, AfterAsk

\* The logs are as they should be in every state.
LEMMA LogsAlways == Spec => [](TypeInv /\ LogsInv)
<1>1. TypeInv /\ LogsInv /\ [Next]_vars => TypeInv' /\ LogsInv'
  BY TypeStep, LogsStep
<1> QED BY <1>1, TypeInit, LogsInit, PTL DEF Spec

\* Whatever overlaps or fails: no answer is kept of a question that was never
\* stored, and neither is stored twice.
THEOREM AnswersFollowQuestions == Spec => []AnswersHaveQuestions
<1>1. TypeInv /\ LogsInv => AnswersHaveQuestions
  <2> SUFFICES ASSUME TypeInv, LogsInv, NEW q \in Questions
               PROVE  /\ Holding(q, "assistant") \cup Holding(q, "error") # {} =>
                           Holding(q, "user") # {} \/ chats # born
                      /\ \A r \in {"user", "assistant"} : \A c, d \in Holding(q, r) : c = d
    BY DEF AnswersHaveQuestions
  <2>1. \A r : Holding(q, r) = {c \in Chats : Has(c, Says(q, r))}
    <3> SUFFICES ASSUME NEW r PROVE Holding(q, r) = {c \in Chats : Has(c, Says(q, r))}
      OBVIOUS
    <3>1. \A c \in Chats : Has(c, Says(q, r)) => c \in chats
      BY HasChat
    <3>2. chats \subseteq Chats
      BY DEF TypeInv, ServerType
    <3>3. Holding(q, r) = {c \in chats : Has(c, Says(q, r))}
      BY DEF Holding, Has
    <3> QED BY <3>1, <3>2, <3>3
  <2>2. QuestionInv(q)
    BY DEF LogsInv
  <2> QED BY <2>1, <2>2 DEF QuestionInv, Unsaid, Once
<1> QED BY <1>1, LogsAlways, PTL

-----------------------------------------------------------------------------
(***************************************************************************)
(* While the user does one thing at a time and nothing fails.              *)
(***************************************************************************)

\* A step without which it was so leaves it so, when the handler that took it
\* is the only one under way, or was.
LEMMA CalmKept ==
  ASSUME NEW h \in Handlers, Others(h), calm' => calm, CalmInv,
         calm' => \A g \in Handlers \ {h} : ~Active(g),
         calm' /\ reply'[h].seen => Ok(h)',
         calm' => TablesCalm',
         calm' /\ ~Active(h)' => QuietCalm',
         calm' /\ Active(h)' => HandlerCalm(h)'
  PROVE  CalmInv'
<1> SUFFICES ASSUME calm' PROVE
      /\ \A f, g \in Handlers : Active(f)' /\ Active(g)' => f = g
      /\ \A g \in Handlers : reply'[g].seen => Ok(g)'
      /\ TablesCalm'
      /\ (\A g \in Handlers : ~Active(g)') => QuietCalm'
      /\ \A g \in Handlers : Active(g)' => HandlerCalm(g)'
  BY DEF CalmInv
<1>1. \A g \in Handlers \ {h} : ~Active(g)' /\ reply'[g] = reply[g]
  BY DEF Others, Active
<1>2. \A g \in Handlers \ {h} : reply'[g].seen => Ok(g)'
  BY <1>1 DEF CalmInv, Ok
<1> QED BY <1>1, <1>2

\* What is known of the handler under way.
LEMMA CalmHere ==
  ASSUME CalmInv, calm, NEW h \in Handlers, Active(h)
  PROVE  /\ HandlerCalm(h) /\ TablesCalm /\ (reply[h].seen => Ok(h))
         /\ \A g \in Handlers \ {h} : ~Active(g)
  BY DEF CalmInv

\* The steps of the page leave the tables, and what is said of them, as they are.
LEMMA TablesKept ==
  ASSUME UNCHANGED server
  PROVE  /\ TablesCalm => TablesCalm'
         /\ \A c, m : Has(c, m)' <=> Has(c, m)
         /\ UNCHANGED <<chats, born, linked, matter, log>>
<1>1. UNCHANGED <<chats, born, linked, matter, log>>
  BY DEF server
<1>2. \A c, m : Has(c, m)' <=> Has(c, m)
  BY <1>1, HasSame
<1> QED BY <1>1, <1>2 DEF TablesCalm

\* A handler that starts while none is under way finds the page in order.
LEMMA StartCalm ==
  ASSUME TypeInv, CalmInv, NEW h \in Handlers, Start(h), UNCHANGED server, reply'[h] = NoReply,
         Others(h), Active(h)', calm' /\ QuietCalm => HandlerCalm(h)'
  PROVE  CalmInv'
<1>1. calm' => calm /\ \A g \in Handlers : ~Active(g)
  BY DEF Start, Quiet, UnderWay, Active
<1>2. calm' => QuietCalm /\ TablesCalm
  BY <1>1 DEF CalmInv
<1>3. ~reply'[h].seen
  BY DEF NoReply
<1> QED BY <1>1, <1>2, <1>3, CalmKept, TablesKept

\* A question is asked while no handler is under way.
LEMMA SubmitCalm ==
  ASSUME TypeInv, CalmInv, NEW q \in Questions, Submit(q)
  PROVE  CalmInv'
<1>0. q \in Handlers /\ CallsType /\ None \notin Chats /\ chats \subseteq Chats
  BY DEF Handlers, TypeInv, ServerType
<1>1. UNCHANGED server /\ Others(q) /\ reply'[q] = NoReply
  BY <1>0, AskMoves
<1>2. UNCHANGED <<open, active, listed, turns>> /\ Start(q) /\ ~reply'[q].seen
  BY <1>1 DEF Submit, NoReply
<1>3. CASE active \in listed
  <2>1. Send(q, "ask", active, "no") /\ panel' = panel \cup {Says(q, "user")}
    BY <1>3 DEF Submit, EnsureChat
  <2>2. pc'[q] = "ask" /\ chat'[q] = active
    BY <1>0, <2>1, SendMoves
  <2>3. ASSUME QuietCalm PROVE HandlerCalm(q)'
    <3>1. listed = chats /\ (open => matter) /\ InSync
      BY <1>0, <1>3, <2>3 DEF QuietCalm
    <3>2. UNCHANGED <<chats, matter, log>>
      BY <1>1 DEF server
    <3>3. PostCalm(q)'
      BY <1>2, <2>1, <2>2, <3>1, <3>2 DEF PostCalm, InSync, Role
    <3> QED BY <1>2, <2>2, <3>1, <3>2, <3>3 DEF HandlerCalm, AfterAsk
  <2> QED BY <1>0, <1>1, <1>2, <2>2, <2>3, StartCalm DEF Active
<1>4. CASE active \notin listed
  <2>1. PICK t : t = IF open THEN "yes" ELSE "no"
    OBVIOUS
  <2>2. Send(q, "create", None, t) /\ panel' = panel
    BY <1>4, <2>1 DEF Submit, EnsureChat, Create
  <2>3. pc'[q] = "create" /\ tied'[q] = t
    BY <1>0, <2>2, SendMoves
  <2>4. ASSUME QuietCalm PROVE HandlerCalm(q)'
    <3>1. listed = chats /\ (open => matter) /\ (active # None => InSync)
      BY <2>4 DEF QuietCalm
    <3>2. UNCHANGED <<chats, matter, log>>
      BY <1>1 DEF server
    <3>3. CreateCalm(q)'
      BY <1>2, <2>1, <2>2, <2>3, <3>1, <3>2 DEF CreateCalm, InSync
    <3> QED BY <1>2, <2>3, <3>1, <3>2, <3>3 DEF HandlerCalm, AfterAsk, Posting
  <2> QED BY <1>0, <1>1, <1>2, <2>3, <2>4, StartCalm DEF Active
<1> QED BY <1>3, <1>4

\* So does a click.
LEMMA ClickCalm ==
  ASSUME TypeInv, CalmInv, NEW k \in Clicks, Click(k)
  PROVE  CalmInv'
<1>0. k \in Handlers /\ CallsType
  BY DEF Handlers, TypeInv
<1>1. UNCHANGED server /\ Others(k) /\ reply'[k] = NoReply
  BY <1>0, ClickMoves
<1>2. Start(k) /\ UNCHANGED page /\ ~reply'[k].seen
  BY <1>1 DEF Click, NewChat, CloseMatter, OpenChat, CloseChat, StartClick, NoReply
<1>3. UNCHANGED <<open, active, listed, panel, turns, chats, matter, log>>
  BY <1>1, <1>2 DEF page, server
<1>4. ASSUME QuietCalm PROVE listed' = chats' /\ (open' => matter') /\ (active' # None => InSync')
  BY <1>3, <1>4 DEF QuietCalm, InSync
<1>5. CASE NewChat(k)
  <2>1. PICK t : t = IF open THEN "yes" ELSE "no"
    OBVIOUS
  <2>2. Send(k, "new", None, t)
    BY <1>5, <2>1 DEF NewChat, Create
  <2>3. pc'[k] = "new" /\ tied'[k] = t
    BY <1>0, <2>2, SendMoves
  <2>4. ASSUME QuietCalm PROVE HandlerCalm(k)'
    <3>1. CreateCalm(k)'
      BY <1>2, <1>3, <1>4, <2>1, <2>3, <2>4 DEF CreateCalm
    <3> QED BY <1>2, <1>4, <2>3, <2>4, <3>1 DEF HandlerCalm, AfterAsk, Posting
  <2> QED BY <1>0, <1>1, <1>2, <2>3, <2>4, StartCalm DEF Active
<1>6. ASSUME NEW c \in Chats, OpenChat(k, c) PROVE CalmInv'
  <2>1. pc'[k] = "load"
    BY <1>0, <1>6, SendMoves DEF OpenChat
  <2>2. ASSUME QuietCalm PROVE HandlerCalm(k)'
    <3>1. LoadCalm(k)'
      BY <1>2, <1>4, <2>2 DEF LoadCalm
    <3> QED BY <1>2, <1>4, <2>1, <2>2, <3>1 DEF HandlerCalm, AfterAsk, Posting
  <2> QED BY <1>0, <1>1, <1>2, <2>1, <2>2, StartCalm DEF Active
<1>7. ASSUME NEW c \in Chats, CloseChat(k, c) PROVE CalmInv'
  <2>1. pc'[k] = "delete"
    BY <1>0, <1>7, SendMoves DEF CloseChat
  <2>2. ASSUME QuietCalm PROVE HandlerCalm(k)'
    <3>1. DeleteCalm(k)'
      BY <1>2, <1>4, <2>2 DEF DeleteCalm
    <3> QED BY <1>2, <1>4, <2>1, <2>2, <3>1 DEF HandlerCalm, AfterAsk, Posting
  <2> QED BY <1>0, <1>1, <1>2, <2>1, <2>2, StartCalm DEF Active
<1>8. CASE CloseMatter(k)
  <2>1. pc'[k] = "matter" /\ open'
    BY <1>0, <1>3, <1>8, SendMoves DEF CloseMatter
  <2>2. HandlerCalm(k)'
    BY <2>1 DEF HandlerCalm, AfterAsk, Posting
  <2> QED BY <1>0, <1>1, <1>2, <2>1, <2>2, StartCalm DEF Active
<1> QED BY <1>5, <1>6, <1>7, <1>8 DEF Click

\* The page goes on with a question.
LEMMA HandleCalm ==
  ASSUME TypeInv, LogsInv, CalmInv, NEW q \in Questions, Handle(q)
  PROVE  CalmInv'
<1>0. q \in Handlers /\ CallsType /\ None \notin Chats /\ chats \subseteq Chats
      /\ log \in [Chats -> Logs] /\ turns \in Seq(Questions)
  BY DEF Handlers, TypeInv, ServerType, PageType
<1>1. UNCHANGED server /\ Others(q) /\ reply'[q] = NoReply /\ Moves(q)
  BY <1>0, AskMoves
<1>2. UNCHANGED <<chats, matter, log>> /\ ~reply'[q].seen
  BY <1>1 DEF server, NoReply
<1>3. Active(q)
  BY DEF Handle, Created, NotAsked, Asked, StreamEnds, CreatedLate, Stored, Refreshed, NotStored,
         ErrorTold, Back, Active
<1>4. calm' => calm
  BY DEF Handle, Created, NotAsked, Asked, StreamEnds, CreatedLate, Stored, Refreshed, NotStored,
         ErrorTold
<1> SUFFICES ASSUME calm' PROVE /\ ~Active(q)' => QuietCalm'
                                /\ Active(q)' => HandlerCalm(q)'
  <2>1. calm' => (\A g \in Handlers \ {q} : ~Active(g)) /\ TablesCalm
    BY <1>0, <1>3, <1>4, CalmHere
  <2> QED BY <1>0, <1>1, <1>2, <1>4, <2>1, CalmKept, TablesKept
<1>5. calm /\ HandlerCalm(q) /\ (reply[q].seen => Ok(q))
  BY <1>0, <1>3, <1>4, CalmHere
<1>6. pc[q] \notin {"matter", "list"} /\ (open => matter)
  <2>1. pc[q] \notin {"matter", "list"}
    BY <1>0 DEF CallsType, AskSteps
  <2> QED BY <1>5, <2>1 DEF HandlerCalm
<1>7. CASE Created(q)
  <2>1. CreateCalm(q) /\ reply[q].seen
    BY <1>5, <1>7 DEF HandlerCalm, Created, Back
  <2>2. Send(q, "ask", reply[q].chat, "no")
    BY <1>7 DEF Created
  <2>3. pc'[q] = "ask" /\ chat'[q] = reply[q].chat
    BY <1>0, <2>2, SendMoves
  <2>4. /\ listed' = reply[q].list /\ active' = reply[q].chat /\ panel' = {Says(q, "user")}
        /\ turns' = << >> /\ open' = open
    BY <1>7 DEF Created, Adopt
  <2>5. Asks(log[active']) = << >> /\ Range(log[active']) = {} /\ active' \in chats /\ listed' = chats
    BY <2>1, <2>4, EmptyLog DEF CreateCalm
  <2>6. PostCalm(q)'
    BY <1>2, <2>3, <2>4, <2>5, RecentEmpty DEF PostCalm, Role
  <2> QED BY <1>2, <1>6, <2>3, <2>4, <2>6 DEF HandlerCalm, AfterAsk, Active
<1>8. CASE NotAsked(q)
  BY <1>5, <1>8 DEF NotAsked, Back
<1>9. CASE Asked(q)
  <2>1. PostCalm(q) /\ reply[q].seen /\ pc[q] = "ask"
    BY <1>5, <1>9 DEF HandlerCalm, Posting, Asked, Back
  <2>2. pc'[q] = "stream"
    BY <1>0, <1>9, SendMoves DEF Asked
  <2>3. /\ listed' = reply[q].list /\ turns' = Recent(Append(turns, q))
        /\ UNCHANGED <<open, active, panel>>
    BY <1>9 DEF Asked
  <2>4. StreamCalm'
    BY <1>2, <2>1, <2>3 DEF PostCalm, StreamCalm, InSync
  <2>5. Has(active, Says(q, "user"))
    BY <1>5, <2>1 DEF HandlerCalm
  <2>6. Has(active, Says(q, "user"))'
    BY <1>2, <2>3, <2>5 DEF Has
  <2> QED BY <1>2, <1>6, <2>2, <2>3, <2>4, <2>6 DEF HandlerCalm, Active, Posting
<1>10. CASE StreamEnds(q)
  <2>1. StreamCalm /\ Has(active, Says(q, "user"))
    BY <1>5, <1>10 DEF HandlerCalm, StreamEnds, AfterAsk
  <2>2. active \in listed
    BY <2>1 DEF StreamCalm, InSync
  <2>3. PICK p \in {"answer", "error"} :
          Send(q, p, active, "no") /\ panel' = panel \cup {Says(q, Role(p))}
    BY <1>10, <2>2 DEF StreamEnds, Complain, Tell, EnsureChat, Role
  <2>4. pc'[q] = p /\ chat'[q] = active /\ UNCHANGED <<open, active, listed, turns>>
    BY <1>0, <1>10, <2>3, SendMoves DEF StreamEnds, Complain, Tell
  <2>5. PostCalm(q)'
    BY <1>2, <2>1, <2>3, <2>4 DEF PostCalm, StreamCalm, InSync
  <2>6. Has(active, Says(q, "user"))'
    BY <1>2, <2>1, <2>4 DEF Has
  <2> QED BY <1>2, <1>6, <2>4, <2>5, <2>6 DEF HandlerCalm, Active
<1>11. CASE CreatedLate(q)
  BY <1>5, <1>11 DEF CreatedLate, Back, HandlerCalm
<1>12. CASE Stored(q)
  <2>1. PostCalm(q) /\ reply[q].seen /\ pc[q] = "answer" /\ Has(active, Says(q, "user"))
    BY <1>5, <1>12 DEF HandlerCalm, Posting, Stored, Back, AfterAsk
  <2>2. pc'[q] = "refresh"
    BY <1>0, <1>12, SendMoves DEF Stored
  <2>3. listed' = reply[q].list /\ UNCHANGED <<open, active, panel, turns>>
    BY <1>12 DEF Stored
  <2>4. StreamCalm'
    BY <1>2, <2>1, <2>3 DEF PostCalm, StreamCalm, InSync
  <2>5. Has(active, Says(q, "user"))'
    BY <1>2, <2>1, <2>3 DEF Has
  <2> QED BY <1>2, <1>6, <2>2, <2>3, <2>4, <2>5 DEF HandlerCalm, Active, Posting
<1>13. ASSUME End(q) PROVE pc'[q] = "done"
  <2>1. Send(q, "done", None, "no")
    BY <1>13 DEF End
  <2> QED BY <1>0, <2>1, SendMoves
<1>14. CASE Refreshed(q)
  <2>1. StreamCalm /\ pc'[q] = "done" /\ UNCHANGED <<open, active, listed, panel, turns>>
    BY <1>5, <1>13, <1>14 DEF HandlerCalm, Refreshed
  <2>2. QuietCalm'
    BY <1>2, <1>6, <2>1 DEF StreamCalm, QuietCalm, InSync
  <2> QED BY <2>1, <2>2 DEF Active
<1>15. CASE NotStored(q)
  BY <1>15 DEF NotStored
<1>16. CASE ErrorTold(q)
  <2>1. PostCalm(q) /\ reply[q].seen /\ Ok(q) /\ pc[q] = "error"
    BY <1>5, <1>16 DEF HandlerCalm, Posting, ErrorTold, Back
  <2>2. pc'[q] = "done" /\ listed' = reply[q].list /\ UNCHANGED <<open, active, panel, turns>>
    BY <1>13, <1>16, <2>1 DEF ErrorTold
  <2>3. QuietCalm'
    BY <1>2, <1>6, <2>1, <2>2 DEF PostCalm, QuietCalm, InSync
  <2> QED BY <2>2, <2>3 DEF Active
<1> QED BY <1>7, <1>8, <1>9, <1>10, <1>11, <1>12, <1>14, <1>15, <1>16 DEF Handle

\* The page goes on with a click.
LEMMA ClickedCalm ==
  ASSUME TypeInv, LogsInv, CalmInv, NEW k \in Clicks, Clicked(k)
  PROVE  CalmInv'
<1>0. k \in Handlers /\ k \notin Questions /\ CallsType /\ None \notin Chats
      /\ chats \subseteq Chats /\ log \in [Chats -> Logs] /\ pc[k] \in ClickSteps
  BY DEF Handlers, TypeInv, ServerType, CallsType
<1>1. UNCHANGED server /\ Others(k) /\ reply'[k] = NoReply
  BY <1>0, ClickMoves
<1>2. UNCHANGED <<chats, matter, log>> /\ ~reply'[k].seen
  BY <1>1 DEF server, NoReply
<1>3. Active(k) /\ calm' = calm /\ reply[k].seen
  BY DEF Clicked, NewChatMade, ChatOpened, ChatClosed, MatterClosed, ChatsListed, ClickFails, Back, Active
<1> SUFFICES ASSUME calm' PROVE /\ ~Active(k)' => QuietCalm'
                                /\ Active(k)' => HandlerCalm(k)'
  <2>1. calm' => (\A g \in Handlers \ {k} : ~Active(g)) /\ TablesCalm
    BY <1>0, <1>3, CalmHere
  <2> QED BY <1>0, <1>1, <1>2, <1>3, <2>1, CalmKept, TablesKept
<1>4. calm /\ HandlerCalm(k) /\ Ok(k)
  BY <1>0, <1>3, CalmHere
<1>5. ASSUME End(k) PROVE pc'[k] = "idle"
  <2>1. Send(k, "idle", None, "no")
    BY <1>0, <1>5 DEF End
  <2> QED BY <1>0, <2>1, SendMoves
<1>6. CASE NewChatMade(k)
  <2>1. CreateCalm(k) /\ (open => matter)
    BY <1>4, <1>6 DEF HandlerCalm, NewChatMade, Back
  <2>2. /\ listed' = reply[k].list /\ active' = reply[k].chat /\ panel' = {}
        /\ turns' = << >> /\ open' = open /\ pc'[k] = "idle"
    BY <1>5, <1>6 DEF NewChatMade, Adopt
  <2>3. Asks(log[active']) = << >> /\ Range(log[active']) = {} /\ active' \in chats /\ listed' = chats
    BY <1>3, <2>1, <2>2, EmptyLog DEF CreateCalm
  <2>4. QuietCalm'
    BY <1>2, <2>1, <2>2, <2>3, RecentEmpty DEF QuietCalm, InSync
  <2> QED BY <2>2, <2>4 DEF Active
<1>7. CASE ChatOpened(k)
  <2>1. LoadCalm(k) /\ (open => matter)
    BY <1>4, <1>7 DEF HandlerCalm, ChatOpened, Back
  <2>2. /\ active' = reply[k].chat /\ panel' = Range(reply[k].log)
        /\ turns' = Recent(Asks(reply[k].log)) /\ UNCHANGED <<open, listed>> /\ pc'[k] = "idle"
    BY <1>5, <1>7 DEF ChatOpened
  <2>3. QuietCalm'
    BY <1>2, <1>3, <2>1, <2>2 DEF LoadCalm, QuietCalm, InSync
  <2> QED BY <2>2, <2>3 DEF Active
<1>8. CASE ChatClosed(k)
  <2>1. DeleteCalm(k) /\ (open => matter)
    BY <1>4, <1>8 DEF HandlerCalm, ChatClosed, Back
  <2>2. /\ listed' = reply[k].list /\ open' = open /\ pc'[k] = "idle"
        /\ active = chat[k] => active' = None
        /\ active # chat[k] => UNCHANGED <<active, panel, turns>>
    BY <1>5, <1>8 DEF ChatClosed
  <2>3. QuietCalm'
    BY <1>2, <1>3, <2>1, <2>2 DEF DeleteCalm, QuietCalm, InSync
  <2> QED BY <2>2, <2>3 DEF Active
<1>9. CASE MatterClosed(k)
  <2>1. open /\ UNCHANGED page
    BY <1>4, <1>9 DEF HandlerCalm, MatterClosed, Back
  <2>2. pc'[k] = "list"
    BY <1>0, <1>9, SendMoves DEF MatterClosed
  <2>3. HandlerCalm(k)'
    BY <1>2, <2>1, <2>2 DEF HandlerCalm, page, Posting, AfterAsk
  <2> QED BY <2>2, <2>3 DEF Active
<1>10. CASE ChatsListed(k)
  <2>1. open /\ reply[k].list = chats
    BY <1>3, <1>4, <1>10 DEF HandlerCalm, ChatsListed, Back
  <2>2. listed' = reply[k].list /\ ~open' /\ active' = None /\ pc'[k] = "idle"
    BY <1>5, <1>10, <2>1 DEF ChatsListed
  <2>3. QuietCalm'
    BY <1>2, <2>1, <2>2 DEF QuietCalm
  <2> QED BY <2>2, <2>3 DEF Active
<1>11. CASE ClickFails(k)
  BY <1>4, <1>11 DEF ClickFails
<1> QED BY <1>6, <1>7, <1>8, <1>9, <1>10, <1>11 DEF Clicked

\* The server stores a message: the screen was ahead of the log.
LEMMA PostedCalm ==
  ASSUME TypeInv, LogsInv, CalmInv, NEW q \in Questions, PostMessage(q), Serve(q), calm'
  PROVE  TablesCalm' /\ HandlerCalm(q)'
<1>0. q \in Handlers /\ CallsType /\ chats \subseteq Chats /\ log \in [Chats -> Logs]
      /\ turns \in Seq(Questions)
  BY DEF Handlers, TypeInv, ServerType, PageType
<1>1. pc[q] \in Posting /\ ~reply[q].seen /\ Active(q) /\ calm
  BY RepliesTyped DEF PostMessage, AddMessage, Waits, Active, Posting
<1>2. HandlerCalm(q) /\ TablesCalm
  BY <1>0, <1>1, CalmHere
<1>3. PostCalm(q) /\ (open => matter)
  BY <1>1, <1>2 DEF HandlerCalm, Posting
<1>4. active \in chats /\ chat[q] = active /\ listed = chats /\ active \in Chats
      /\ panel = Range(log[active]) \cup {Says(q, Role(pc[q]))}
      /\ turns = Recent(Asks(log[active]))
  BY <1>0, <1>1, <1>3 DEF PostCalm
<1> DEFINE m == Says(q, Role(pc[q]))
<1>5. m \in Message /\ m.of = q /\ m.role = Role(pc[q])
  BY <1>1 DEF Says, Role, Message, Posting
<1>6. m = [of |-> q, role |-> CASE pc[q] = "ask" -> "user" [] pc[q] = "answer" -> "assistant"
                                [] pc[q] = "error" -> "error"]
  BY Zenon DEF Says, Role
<1>7. AddMessage(q, m) /\ UNCHANGED <<chats, linked, matter, page>>
  BY <1>6 DEF PostMessage
<1> HIDE DEF m
<1>8. log' = [log EXCEPT ![active] = Append(@, m)] /\ Answer(q, Reply(active, chats, << >>))
  BY <1>4, <1>7 DEF AddMessage
<1>9. log'[active] = Append(log[active], m) /\ log[active] \in Logs
  BY <1>0, <1>4, <1>8
<1>10. reply'[q] = Reply(active, chats, << >>) /\ pc' = pc /\ chat' = chat
  BY <1>0, <1>8 DEF Answer, CallsType
<1>11. reply'[q].seen /\ reply'[q].list = chats
  BY <1>10 DEF Reply
<1>12. UNCHANGED <<open, active, listed, panel, turns>>
  BY <1>7 DEF page
<1>13. Range(log'[active]) = Range(log[active]) \cup {m}
  BY <1>5, <1>9, AppendedRange
<1>14. \A c \in Chats : \A n : Has(c, n)' <=> Has(c, n) \/ (c = active /\ n = m)
  BY <1>0, <1>4, <1>5, <1>8, HasAppend
<1>15. CASE pc[q] = "ask"
  <2>1. m.role = "user"
    BY <1>5, <1>15 DEF Role
  <2>2. Asks(log'[active]) = Append(Asks(log[active]), q) /\ Asks(log[active]) \in Seq(Questions)
    BY <1>5, <1>9, <2>1, AsksQuestion, AsksTyped
  <2>3. Recent(Append(turns, q)) = Recent(Asks(log'[active]))
    BY <1>4, <2>2, RecentAppend
  <2>4. PostCalm(q)'
    BY <1>4, <1>7, <1>10, <1>11, <1>12, <1>13, <1>15, <2>3 DEF PostCalm, m
  <2>5. Has(active, Says(q, "user"))'
    <3>1. m = Says(q, "user")
      BY <1>15 DEF m, Role
    <3> QED BY <1>4, <1>12, <1>14, <3>1 DEF Has
  <2>6. HandlerCalm(q)'
    BY <1>3, <1>7, <1>10, <1>12, <1>15, <2>4, <2>5 DEF HandlerCalm
  <2>7. \A g : Says(g, "assistant") # m
    <3>1. m = Says(q, "user")
      BY <1>15 DEF m, Role
    <3> QED BY <3>1, SaysApart
  <2>8. TablesCalm'
    BY <1>2, <1>7, <1>14, <2>7 DEF TablesCalm
  <2> QED BY <2>6, <2>8
<1>16. CASE pc[q] # "ask"
  <2>1. m.role # "user" /\ pc[q] \in {"answer", "error"}
    BY <1>1, <1>5, <1>16 DEF Role, Posting
  <2>2. Asks(log'[active]) = Asks(log[active])
    BY <1>5, <1>9, <2>1, AsksOther
  <2>3. PostCalm(q)'
    BY <1>4, <1>7, <1>10, <1>11, <1>12, <1>13, <1>16, <2>2 DEF PostCalm, m
  <2>4. Has(active, Says(q, "user"))
    BY <1>2, <2>1 DEF HandlerCalm, AfterAsk
  <2>5. Has(active, Says(q, "user"))'
    BY <1>4, <1>12, <1>14, <2>4 DEF Has
  <2>6. HandlerCalm(q)'
    BY <1>3, <1>7, <1>10, <1>12, <2>1, <2>3, <2>5 DEF HandlerCalm
  <2>7. TablesCalm'
    <3>1. /\ UNCHANGED <<chats, linked, matter>>
          /\ \A g \in Questions : Says(g, "assistant") = m => g = q
      BY <1>7, SaysApart DEF m
    <3>2. ASSUME NEW g \in Questions, NEW c \in Chats, Has(c, Says(g, "assistant"))'
          PROVE  Has(c, Says(g, "user"))'
      <4>1. CASE Has(c, Says(g, "assistant"))
        BY <1>2, <1>14, <4>1 DEF TablesCalm
      <4>2. CASE c = active /\ Says(g, "assistant") = m
        BY <1>14, <2>4, <3>1, <4>2
      <4> QED BY <1>14, <3>2, <4>1, <4>2
    <3> QED BY <1>2, <3>1, <3>2 DEF TablesCalm
  <2> QED BY <2>6, <2>7
<1> QED BY <1>15, <1>16

\* The other steps of the server.
LEMMA ServedCalm ==
  ASSUME TypeInv, LogsInv, CalmInv, NEW h \in Handlers, Serve(h), calm'
  PROVE  TablesCalm' /\ HandlerCalm(h)' /\ (reply'[h].seen => reply'[h].ok)
<1>0. /\ CallsType /\ chats \subseteq born /\ born \subseteq Chats /\ linked \subseteq born
      /\ log \in [Chats -> Logs] /\ None \notin Chats
  BY DEF TypeInv, ServerType
<1>1. /\ Active(h) /\ ~reply[h].seen /\ calm
      /\ UNCHANGED <<pc, chat, open, active, listed, panel, turns>>
  <2>1. Active(h) /\ ~reply[h].seen
    BY DEF Serve, CheckMatter, CreateChat, PostMessage, GetChat, DeleteChat, DeleteMatter,
           ListChats, RequestFails, Waits, Active, Creating, Posting
  <2>2. calm
    BY DEF Serve, CheckMatter, CreateChat, PostMessage, AddMessage, GetChat, DeleteChat, DeleteMatter,
           ListChats, RequestFails
  <2>3. UNCHANGED page
    BY DEF Serve, CheckMatter, CreateChat, PostMessage, GetChat, DeleteChat, DeleteMatter,
           ListChats, RequestFails
  <2> QED BY <1>0, <2>1, <2>2, <2>3, ServeMoves DEF page
<1>2. HandlerCalm(h) /\ TablesCalm /\ \A c \in Chats \ chats : log[c] = << >>
  BY <1>0, <1>1, CalmHere DEF LogsInv
<1>3. \A r : Answer(h, r) => reply'[h] = r
  BY <1>0 DEF Answer, CallsType
<1>4. \A c, s, l : /\ Reply(c, s, l).ok /\ Reply(c, s, l).seen /\ Reply(c, s, l).list = s
                   /\ Reply(c, s, l).chat = c /\ Reply(c, s, l).log = l
  BY DEF Reply
<1>5. CASE CheckMatter(h)
  <2>1. matter /\ pc[h] \in {"create", "new"} /\ reply' = reply
        /\ UNCHANGED <<chats, linked, matter, log>>
    BY <1>1, <1>2, <1>5 DEF CheckMatter, HandlerCalm, Creating, Waits, server
  <2>2. CreateCalm(h)'
    BY <1>1, <1>2, <2>1 DEF HandlerCalm, CreateCalm, InSync
  <2>3. HandlerCalm(h)'
    BY <1>1, <1>2, <2>1, <2>2 DEF HandlerCalm, AfterAsk, Posting
  <2>4. TablesCalm'
    BY <1>2, <2>1, HasSame DEF TablesCalm
  <2> QED BY <1>1, <2>1, <2>3, <2>4
<1>6. CASE CreateChat(h)
  <2>1. PICK c : /\ c = CHOOSE new \in Chats \ born : TRUE
                 /\ chats' = chats \cup {c}
                 /\ linked' = IF tied[h] = "checked" THEN linked \cup {c} ELSE linked
                 /\ Answer(h, Reply(c, chats', << >>))
    BY <1>6 DEF CreateChat
  <2>2. c \in Chats \ born
    <3>1. Chats \ born # {}
      BY <1>0, <1>6 DEF CreateChat
    <3> QED BY <2>1, <3>1
  <2>3. /\ pc[h] \in {"create", "new"} /\ UNCHANGED <<matter, log, tied>>
    BY <1>2, <1>6 DEF CreateChat, HandlerCalm, Creating, Waits
  <2>4. CreateCalm(h) /\ (open => matter)
    BY <1>2, <2>3 DEF HandlerCalm
  <2>5. log[c] = << >> /\ c \in chats'
    BY <1>0, <1>2, <2>1, <2>2
  <2>6. /\ reply'[h].ok /\ reply'[h].seen /\ reply'[h].list = chats' /\ reply'[h].chat = c
    BY <1>3, <1>4, <2>1
  <2>7. CreateCalm(h)'
    BY <2>3, <2>4, <2>5, <2>6 DEF CreateCalm
  <2>8. HandlerCalm(h)'
    BY <1>1, <2>3, <2>4, <2>7 DEF HandlerCalm, AfterAsk, Posting
  <2>9. TablesCalm'
    <3>1. ~matter' => linked' \cap chats' = {}
      BY <1>0, <1>2, <2>1, <2>2, <2>3, <2>4 DEF TablesCalm, CreateCalm
    <3> QED BY <1>2, <2>3, <3>1, HasSame DEF TablesCalm
  <2> QED BY <2>6, <2>8, <2>9
<1>7. CASE h \in Questions /\ PostMessage(h)
  <2>1. TablesCalm' /\ HandlerCalm(h)'
    BY <1>7, PostedCalm
  <2>2. chat[h] = active /\ active \in chats
    BY <1>2, <1>7 DEF PostMessage, Waits, HandlerCalm, PostCalm
  <2>3. reply'[h].ok
    BY <1>3, <1>4, <1>7, <2>2 DEF PostMessage, AddMessage
  <2> QED BY <2>1, <2>3
<1>8. CASE GetChat(h)
  <2>1. pc[h] = "load" /\ UNCHANGED <<chats, linked, matter, log>>
    BY <1>8 DEF GetChat, Waits, server
  <2>2. LoadCalm(h) /\ (open => matter)
    BY <1>2, <2>1 DEF HandlerCalm
  <2>3. CASE chat[h] \in chats
    <3>1. Answer(h, Reply(chat[h], {}, log[chat[h]]))
      BY <1>8, <2>3 DEF GetChat
    <3>2. /\ reply'[h].ok /\ reply'[h].chat = chat[h] /\ reply'[h].log = log[chat[h]]
      BY <1>3, <1>4, <3>1
    <3>3. LoadCalm(h)'
      BY <1>1, <2>1, <2>2, <2>3, <3>2 DEF LoadCalm
    <3>4. HandlerCalm(h)'
      BY <1>1, <2>1, <2>2, <3>3 DEF HandlerCalm, AfterAsk, Posting
    <3>5. TablesCalm'
      BY <1>2, <2>1, HasSame DEF TablesCalm
    <3> QED BY <3>2, <3>4, <3>5
  <2>4. CASE chat[h] \notin chats
    BY <1>8, <2>4 DEF GetChat
  <2> QED BY <2>3, <2>4
<1>9. CASE DeleteChat(h)
  <2>1. pc[h] = "delete" /\ UNCHANGED <<linked, matter>>
    BY <1>9 DEF DeleteChat, Waits
  <2>2. DeleteCalm(h) /\ (open => matter)
    BY <1>2, <2>1 DEF HandlerCalm
  <2>3. CASE chat[h] \in chats
    <3>1. Drop({chat[h]}) /\ Answer(h, Reply(chat[h], chats', << >>))
      BY <1>9, <2>3 DEF DeleteChat
    <3>2. /\ reply'[h].ok /\ reply'[h].seen /\ reply'[h].list = chats'
          /\ chats' = chats \ {chat[h]} /\ \A c \in Chats \ {chat[h]} : log'[c] = log[c]
      BY <1>3, <1>4, <3>1 DEF Drop
    <3>3. DeleteCalm(h)'
      BY <1>0, <1>1, <2>2, <3>2 DEF DeleteCalm, InSync
    <3>4. HandlerCalm(h)'
      BY <1>1, <2>1, <2>2, <3>3 DEF HandlerCalm, AfterAsk, Posting
    <3>5. TablesCalm'
      BY <1>0, <1>2, <2>1, <3>1, <3>2, HasDrop DEF TablesCalm
    <3> QED BY <3>2, <3>4, <3>5
  <2>4. CASE chat[h] \notin chats
    BY <1>9, <2>4 DEF DeleteChat
  <2> QED BY <2>3, <2>4
<1>10. CASE DeleteMatter(h)
  <2>1. pc[h] = "matter" /\ linked' = linked
    BY <1>10 DEF DeleteMatter, Waits
  <2>2. open
    BY <1>2, <2>1 DEF HandlerCalm
  <2>3. CASE matter
    <3>1. Drop(linked) /\ Answer(h, Reply(None, {}, << >>))
      BY <1>10, <2>3 DEF DeleteMatter
    <3>2. reply'[h].ok /\ chats' = chats \ linked
      BY <1>3, <1>4, <3>1 DEF Drop
    <3>3. HandlerCalm(h)'
      BY <1>1, <2>1, <2>2 DEF HandlerCalm, AfterAsk, Posting
    <3>4. TablesCalm'
      BY <1>0, <1>2, <2>1, <3>1, <3>2, HasDrop DEF TablesCalm
    <3> QED BY <3>2, <3>3, <3>4
  <2>4. CASE ~matter
    BY <1>10, <2>4 DEF DeleteMatter
  <2> QED BY <2>3, <2>4
<1>11. CASE ListChats(h)
  <2>1. pc[h] = "list" /\ UNCHANGED <<chats, linked, matter, log>>
        /\ Answer(h, Reply(None, chats, << >>))
    BY <1>11 DEF ListChats, Waits, server
  <2>2. open
    BY <1>2, <2>1 DEF HandlerCalm
  <2>3. reply'[h].ok /\ reply'[h].list = chats
    BY <1>3, <1>4, <2>1
  <2>4. HandlerCalm(h)'
    BY <1>1, <2>1, <2>2, <2>3 DEF HandlerCalm, AfterAsk, Posting
  <2>5. TablesCalm'
    BY <1>2, <2>1, HasSame DEF TablesCalm
  <2> QED BY <2>3, <2>4, <2>5
<1>12. CASE RequestFails(h)
  BY <1>12 DEF RequestFails
<1> QED BY <1>5, <1>6, <1>7, <1>8, <1>9, <1>10, <1>11, <1>12 DEF Serve

\* Every step keeps the page in order as long as one handler is under way.
LEMMA CalmStep == TypeInv /\ LogsInv /\ CalmInv /\ [Next]_vars => CalmInv'
<1> SUFFICES ASSUME TypeInv, LogsInv, CalmInv, [Next]_vars PROVE CalmInv'
  OBVIOUS
<1>1. ASSUME NEW h \in Handlers, Serve(h) PROVE CalmInv'
  <2>1. Others(h)
    BY <1>1, ServeMoves DEF TypeInv, Others
  <2>2. pc' = pc
    BY <1>1, ServeMoves DEF TypeInv
  <2>3. calm' => calm
    BY <1>1 DEF Serve, CheckMatter, CreateChat, PostMessage, AddMessage, GetChat, DeleteChat,
                DeleteMatter, ListChats, RequestFails
  <2>4. Active(h) /\ Active(h)'
    <3>1. Active(h)
      BY <1>1 DEF Serve, CheckMatter, CreateChat, PostMessage, GetChat, DeleteChat, DeleteMatter,
                  ListChats, RequestFails, Waits, Active, Creating, Posting
    <3> QED BY <2>2, <3>1 DEF Active
  <2>5. calm' => \A g \in Handlers \ {h} : ~Active(g)
    BY <2>3, <2>4, CalmHere
  <2>6. calm' => TablesCalm' /\ HandlerCalm(h)' /\ (reply'[h].seen => Ok(h)')
    BY <1>1, ServedCalm DEF Ok
  <2> QED BY <2>1, <2>3, <2>4, <2>5, <2>6, CalmKept
<1>2. CASE UNCHANGED vars
  <2>1. \A c, m : Has(c, m)' <=> Has(c, m)
    BY <1>2, HasSame DEF vars
  <2>2. TablesCalm => TablesCalm'
    BY <1>2, <2>1 DEF TablesCalm, vars
  <2>3. /\ \A h : Active(h)' <=> Active(h)
        /\ QuietCalm => QuietCalm'
    BY <1>2 DEF vars, Active, QuietCalm, InSync
  <2>4. \A h : HandlerCalm(h) => HandlerCalm(h)'
    BY <1>2 DEF vars, HandlerCalm, CreateCalm, PostCalm, StreamCalm, LoadCalm, DeleteCalm, InSync, Has
  <2>5. calm' = calm /\ reply' = reply
    BY <1>2 DEF vars
  <2> QED BY <2>2, <2>3, <2>4, <2>5 DEF CalmInv, Ok
<1> QED BY <1>1, <1>2, SubmitCalm, HandleCalm, ClickCalm, ClickedCalm DEF Next

\* The page starts in order.
LEMMA CalmInit == Init => CalmInv
<1> SUFFICES ASSUME Init PROVE CalmInv
  OBVIOUS
<1>1. \A h \in Handlers : ~Active(h) /\ ~reply[h].seen
  BY DEF Init, Active, NoReply
<1>2. \A c \in Chats : \A m : ~Has(c, m)
  BY DEF Init, Has
<1>3. TablesCalm
  BY <1>2 DEF Init, TablesCalm
<1>4. QuietCalm
  BY DEF Init, QuietCalm
<1> QED BY <1>1, <1>3, <1>4 DEF CalmInv

LEMMA CalmAlways == Spec => [](TypeInv /\ LogsInv /\ CalmInv)
<1>1. TypeInv /\ LogsInv /\ CalmInv /\ [Next]_vars => TypeInv' /\ LogsInv' /\ CalmInv'
  BY TypeStep, LogsStep, CalmStep
<1> QED BY <1>1, TypeInit, LogsInit, CalmInit, PTL DEF Spec

\* Once the user has waited for everything, the order of the page is known.
LEMMA OrderWhenQuiet ==
  ASSUME TypeInv, CalmInv, calm, Quiet, active # None
  PROVE  InSync
<1>1. \A h \in Handlers : ~Active(h)
  BY DEF Quiet, UnderWay, Active
<1> QED BY <1>1 DEF CalmInv, QuietCalm

\* While the user does one thing at a time and nothing fails, the screen shows
\* the messages of the open chat, and no other, however it came to be open.
THEOREM PanelShowsChat == Spec => []PanelIsChat
<1>1. TypeInv /\ LogsInv /\ CalmInv => PanelIsChat
  BY OrderWhenQuiet DEF PanelIsChat, InSync
<1> QED BY <1>1, CalmAlways, PTL

\* And the recent questions that go with the next one are those of that chat.
THEOREM TurnsFollowChat == Spec => []TurnsAreOfChat
<1>1. TypeInv /\ LogsInv /\ CalmInv => TurnsAreOfChat
  BY OrderWhenQuiet DEF TurnsAreOfChat, InSync
<1> QED BY <1>1, CalmAlways, PTL

\* And an answer is kept in the chat of its question.
THEOREM AnswersAreFiled == Spec => []FiledTogether
<1>1. TypeInv /\ LogsInv /\ CalmInv => FiledTogether
  <2> SUFFICES ASSUME TypeInv, LogsInv, CalmInv, calm, NEW q \in Questions,
                      Holding(q, "assistant") # {}
               PROVE  Holding(q, "assistant") = Holding(q, "user")
    BY DEF FiledTogether
  <2>1. \A r : Holding(q, r) = {c \in chats : Has(c, Says(q, r))}
    BY DEF Holding, Has
  <2>2. chats \subseteq Chats /\ TablesCalm /\ Once(q, "user")
    BY DEF TypeInv, ServerType, CalmInv, LogsInv, QuestionInv
  <2> QED BY <2>1, <2>2 DEF TablesCalm, Once
<1> QED BY <1>1, CalmAlways, PTL

\* A chat that is deleted keeps no message, not even one on its way; and when
\* the user waited for one thing after another, none of the matter's is left.
THEOREM DeletedStaysGone == Spec => []DeletedIsGone
<1>1. TypeInv /\ LogsInv /\ CalmInv => DeletedIsGone
  BY DEF LogsInv, CalmInv, TablesCalm, DeletedIsGone
<1> QED BY <1>1, CalmAlways, PTL
=============================================================================
