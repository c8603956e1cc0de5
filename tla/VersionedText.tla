--------------------------- MODULE VersionedText ---------------------------
(***************************************************************************)
(* What a private matter document promises to the person who edits it: a   *)
(* text that can be replaced or removed, and a log of texts that grows     *)
(* with every replacement, so that no text the document ever had is lost   *)
(* while the document exists.  MatterDocs implements one of these per      *)
(* document.                                                               *)
(***************************************************************************)
EXTENDS Naturals, Sequences

CONSTANTS Texts,   \* the texts a document can hold
          Gone     \* stands for "there is no such document"

VARIABLES text,    \* the current text, or Gone
          log      \* the texts recorded so far, oldest first

\* A document written before the version table existed has an empty log.
Init ==
  /\ text \in Texts \cup {Gone}
  /\ log = << >>

Recorded(t, l) == \E i \in 1..Len(l) : l[i] = t

Create(t) ==
  /\ text = Gone
  /\ text' = t
  /\ log' = << t >>

\* A replacement appends the new text; it may first append one snapshot, of a text
\* read some time before.  Whatever it appends, the replaced text is in the log
\* afterwards.
Replace(t) ==
  /\ text # Gone
  /\ text' = t
  /\ \/ log' = Append(log, t)
     \/ \E s \in Texts : log' = Append(Append(log, s), t)
  /\ Recorded(text, log')

Remove ==
  /\ text' = Gone
  /\ log' = << >>

Next ==
  \/ \E t \in Texts : Create(t) \/ Replace(t)
  \/ Remove

Spec == Init /\ [][Next]_<<text, log>>
=============================================================================
