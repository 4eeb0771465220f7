----------------------- MODULE TryStreamSourceProofs -----------------------
(***************************************************************************)
(* Lemmas for the proofs about adaptors and consumers: sequences with an   *)
(* element more or less, and what the answers of the source and of the     *)
(* user's future do to the entries given.                                  *)
(***************************************************************************)
EXTENDS TryStreamSource, SequenceTheorems, TLAPS

-----------------------------------------------------------------------------
(* Sequences *)

\* Every element of a sequence over S is in S.
LEMMA Element ==
    ASSUME NEW S, NEW s \in Seq(S), NEW k \in DOMAIN s
    PROVE  s[k] \in S
  OBVIOUS

\* The empty sequence lists nothing, ...
LEMMA Empty ==
    ASSUME NEW S
    PROVE  <<>> \in Seq(S) /\ Len(<<>>) = 0 /\ ToSet(<<>>) = {}
  BY DEF ToSet

\* ... one of length 1 its only element.
LEMMA Short ==
    ASSUME NEW S, NEW e \in S
    PROVE  /\ <<>> \in Seq(S) /\ Len(<<>>) = 0 /\ ToSet(<<>>) = {}
           /\ <<e>> \in Seq(S) /\ Len(<<e>>) = 1 /\ ToSet(<<e>>) = {e}
  BY DEF ToSet

\* A sequence that is not empty has a length above 0.
LEMMA NotEmpty ==
    ASSUME NEW S, NEW s \in Seq(S), s # <<>>
    PROVE  Len(s) > 0 /\ Len(s) \in Nat
  OBVIOUS

\* An item that may be missing is a sequence of at most one.
LEMMA AtMostOne ==
    ASSUME NEW S, NEW e \in S, NEW s, s = <<>> \/ s = <<e>>
    PROVE  s \in Seq(S) /\ Len(s) <= 1
  <1>1. CASE s = <<>>
    BY <1>1
  <1>2. CASE s = <<e>>
    BY <1>2
  <1> QED BY <1>1, <1>2

\* What two sequences, one after the other, are and list.
LEMMA Glued ==
    ASSUME NEW S, NEW s \in Seq(S), NEW t \in Seq(S)
    PROVE  /\ s \o t \in Seq(S) /\ Len(s \o t) = Len(s) + Len(t)
           /\ \A i \in DOMAIN s : (s \o t)[i] = s[i]
           /\ \A i \in DOMAIN t : (s \o t)[Len(s) + i] = t[i]
           /\ ToSet(s \o t) = ToSet(s) \cup ToSet(t)
           /\ s \o <<>> = s /\ <<>> \o s = s
           /\ \A e \in S : Append(s, e) = s \o <<e>>
  <1>1. /\ s \o t \in Seq(S) /\ Len(s \o t) = Len(s) + Len(t)
        /\ \A i \in DOMAIN s : (s \o t)[i] = s[i]
        /\ \A i \in DOMAIN t : (s \o t)[Len(s) + i] = t[i]
    OBVIOUS
  <1>2. s \o <<>> = s /\ <<>> \o s = s /\ \A e \in S : Append(s, e) = s \o <<e>>
    OBVIOUS
  <1>3. ASSUME NEW x \in ToSet(s \o t) PROVE x \in ToSet(s) \cup ToSet(t)
    <2>1. PICK i \in DOMAIN (s \o t) : (s \o t)[i] = x
      BY DEF ToSet
    <2>2. i \in 1 .. Len(s) + Len(t)
      BY <1>1, <2>1
    <2>3. CASE i \in DOMAIN s
      BY <1>1, <2>1, <2>3 DEF ToSet
    <2>4. CASE i \notin DOMAIN s
      <3>1. i - Len(s) \in DOMAIN t /\ Len(s) + (i - Len(s)) = i
        BY <2>2, <2>4
      <3> QED BY <1>1, <2>1, <3>1 DEF ToSet
    <2> QED BY <2>3, <2>4
  <1>4. ASSUME NEW x \in ToSet(s) \cup ToSet(t) PROVE x \in ToSet(s \o t)
    <2>1. DOMAIN (s \o t) = 1 .. Len(s) + Len(t) /\ Len(s) \in Nat /\ Len(t) \in Nat
      BY <1>1
    <2>2. CASE x \in ToSet(s)
      <3>1. PICK i \in DOMAIN s : s[i] = x
        BY <2>2 DEF ToSet
      <3>2. i \in DOMAIN (s \o t)
        BY <2>1
      <3> QED BY <1>1, <3>1, <3>2 DEF ToSet
    <2>3. CASE x \in ToSet(t)
      <3>1. PICK i \in DOMAIN t : t[i] = x
        BY <2>3 DEF ToSet
      <3>2. Len(s) + i \in DOMAIN (s \o t)
        BY <2>1
      <3> QED BY <1>1, <3>1, <3>2 DEF ToSet
    <2> QED BY <2>2, <2>3
  <1> QED BY <1>1, <1>2, <1>3, <1>4

\* A sequence without its k-th element: those behind move up by one.
LEMMA Removed ==
    ASSUME NEW S, NEW s \in Seq(S), NEW k \in DOMAIN s
    PROVE  /\ RemoveAt(s, k) \in Seq(S) /\ Len(RemoveAt(s, k)) = Len(s) - 1
           /\ \A i \in 1 .. Len(s) - 1 : RemoveAt(s, k)[i] = IF i < k THEN s[i] ELSE s[i + 1]
           /\ k = 1 => s = <<s[1]>> \o RemoveAt(s, k)
  <1>1. RemoveAt(s, k) = SubSeq(s, 1, k - 1) \o SubSeq(s, k + 1, Len(s))
    BY DEF RemoveAt
  <1>2. /\ SubSeq(s, 1, k - 1) \in Seq(S) /\ Len(SubSeq(s, 1, k - 1)) = k - 1
        /\ \A i \in 1 .. k - 1 : SubSeq(s, 1, k - 1)[i] = s[i]
    OBVIOUS
  <1>3. /\ SubSeq(s, k + 1, Len(s)) \in Seq(S) /\ Len(SubSeq(s, k + 1, Len(s))) = Len(s) - k
        /\ \A i \in 1 .. Len(s) - k : SubSeq(s, k + 1, Len(s))[i] = s[k + i]
    OBVIOUS
  <1>4. ASSUME NEW a \in Seq(S), NEW b \in Seq(S), Len(a) = k - 1, Len(b) = Len(s) - k,
               \A i \in 1 .. k - 1 : a[i] = s[i], \A i \in 1 .. Len(s) - k : b[i] = s[k + i]
        PROVE  /\ a \o b \in Seq(S) /\ Len(a \o b) = Len(s) - 1
               /\ \A i \in 1 .. Len(s) - 1 : (a \o b)[i] = IF i < k THEN s[i] ELSE s[i + 1]
    <2>1. /\ a \o b \in Seq(S) /\ Len(a \o b) = Len(s) - 1
          /\ \A i \in DOMAIN a : (a \o b)[i] = a[i]
          /\ \A i \in DOMAIN b : (a \o b)[Len(a) + i] = b[i]
      BY <1>4, Glued
    <2>2. DOMAIN a = 1 .. k - 1 /\ DOMAIN b = 1 .. Len(s) - k /\ k \in 1 .. Len(s) /\ Len(s) \in Nat
      BY <1>4
    <2>3. ASSUME NEW i \in 1 .. Len(s) - 1 PROVE (a \o b)[i] = IF i < k THEN s[i] ELSE s[i + 1]
      <3>1. CASE i < k
        BY <1>4, <2>1, <2>2, <3>1
      <3>2. CASE ~(i < k)
        <4>1. i - (k - 1) \in DOMAIN b /\ Len(a) + (i - (k - 1)) = i /\ k + (i - (k - 1)) = i + 1
          BY <1>4, <2>2, <3>2
        <4>2. b[i - (k - 1)] = s[i + 1]
          BY <1>4, <2>2, <4>1
        <4> QED BY <2>1, <3>2, <4>1, <4>2
      <3> QED BY <3>1, <3>2
    <2> QED BY <2>1, <2>3
  <1>5. /\ RemoveAt(s, k) \in Seq(S) /\ Len(RemoveAt(s, k)) = Len(s) - 1
        /\ \A i \in 1 .. Len(s) - 1 : RemoveAt(s, k)[i] = IF i < k THEN s[i] ELSE s[i + 1]
    <2>1. PICK a \in Seq(S) : a = SubSeq(s, 1, k - 1)
      BY <1>2
    <2>2. PICK b \in Seq(S) : b = SubSeq(s, k + 1, Len(s))
      BY <1>3
    <2>3. /\ Len(a) = k - 1 /\ Len(b) = Len(s) - k
          /\ \A i \in 1 .. k - 1 : a[i] = s[i]
          /\ \A i \in 1 .. Len(s) - k : b[i] = s[k + i]
      BY <1>2, <1>3, <2>1, <2>2
    <2> HIDE <1>2, <1>3
    <2>4. RemoveAt(s, k) = a \o b
      BY <1>1, <2>1, <2>2
    <2> QED BY <1>4, <2>3, <2>4
  <1>6. ASSUME NEW r \in Seq(S), Len(r) = Len(s) - 1, \A i \in 1 .. Len(s) - 1 : r[i] = s[i + 1]
        PROVE  s = <<s[1]>> \o r
    <2>1. s[1] \in S
      OBVIOUS
    <2>2. Len(<<s[1]>> \o r) = Len(s) /\ <<s[1]>> \o r \in Seq(S)
      BY <1>6, <2>1
    <2>3. ASSUME NEW i \in 1 .. Len(s) PROVE (<<s[1]>> \o r)[i] = s[i]
      BY <1>6, <2>1
    <2> QED BY <2>2, <2>3, SeqEqual
  <1>7. ASSUME k = 1 PROVE s = <<s[1]>> \o RemoveAt(s, k)
    <2>1. \A i \in 1 .. Len(s) - 1 : ~(i < k)
      BY <1>7
    <2> QED BY <1>5, <1>6, <2>1
  <1> QED BY <1>5, <1>7

\* What a sequence with one element more is and lists.
LEMMA Appends ==
    ASSUME NEW S, NEW s \in Seq(S), NEW e \in S
    PROVE  /\ Append(s, e) \in Seq(S) /\ Len(Append(s, e)) = Len(s) + 1
           /\ Append(s, e) = s \o <<e>> /\ s \o <<e>> \in Seq(S) /\ Len(s \o <<e>>) = Len(s) + 1
           /\ \A i \in DOMAIN s : (s \o <<e>>)[i] = s[i]
           /\ (s \o <<e>>)[Len(s) + 1] = e
           /\ ToSet(s \o <<e>>) = ToSet(s) \cup {e}
  <1>1. /\ Append(s, e) \in Seq(S) /\ Len(Append(s, e)) = Len(s) + 1
        /\ Append(s, e) = s \o <<e>> /\ s \o <<e>> \in Seq(S) /\ Len(s \o <<e>>) = Len(s) + 1
    OBVIOUS
  <1>2. /\ \A i \in DOMAIN s : (s \o <<e>>)[i] = s[i]
        /\ (s \o <<e>>)[Len(s) + 1] = e
    OBVIOUS
  <1>3. ToSet(s \o <<e>>) = ToSet(s) \cup {e}
    <2>1. PICK one \in Seq(S) : one = <<e>> /\ ToSet(one) = {e}
      BY Short
    <2>2. ToSet(s \o one) = ToSet(s) \cup ToSet(one)
      BY Glued
    <2> QED BY <2>1, <2>2
  <1> QED BY <1>1, <1>2, <1>3

\* Append adds its element to those listed, and no other.
LEMMA SetOfAppend ==
    ASSUME NEW S, NEW s \in Seq(S), NEW e \in S
    PROVE  ToSet(Append(s, e)) = ToSet(s) \cup {e}
  <1>1. Append(s, e) = s \o <<e>>
    OBVIOUS
  <1>2. ToSet(s \o <<e>>) = ToSet(s) \cup {e}
    BY Appends
  <1> QED BY <1>1, <1>2

-----------------------------------------------------------------------------
(* What the source's answers do to the entries given *)

Answers == [kind : {"Ok", "Err", "Stream"}, of : 0 .. MaxAnswers,
            verdict : {"none", "keep", "drop", "err"}]

\* An entry more.
LEMMA GivenFacts ==
    ASSUME SourceTypeOK, NEW kind \in {"Ok", "Err", "Stream"}, NEW of \in 0 .. MaxAnswers,
           Given(kind, of)
    PROVE  /\ Next1 \in 1 .. MaxAnswers /\ left' = left - 1 /\ left' \in 0 .. MaxAnswers
           /\ given' \in Seq(Answers)
           /\ Len(given') = Next1 /\ Len(given) \in Nat
           /\ DOMAIN given' = DOMAIN given \cup {Next1} /\ DOMAIN given = 1 .. Len(given)
           /\ \A i \in DOMAIN given : given'[i] = given[i]
           /\ given'[Next1] = [kind |-> kind, of |-> of, verdict |-> "none"]
  <1> USE SourceAssumption DEF SourceTypeOK, Given, Next1, Answers
  <1>1. [kind |-> kind, of |-> of, verdict |-> "none"]
           \in Answers
    OBVIOUS
  <1> QED BY <1>1

\* The source's variables keep their types: when it gives an entry, ...
LEMMA GivenType ==
    ASSUME SourceTypeOK, NEW kind \in {"Ok", "Err", "Stream"}, NEW of \in 0 .. MaxAnswers,
           Given(kind, of), UNCHANGED setup, notified' \in BOOLEAN
    PROVE  SourceTypeOK'
  BY SourceAssumption, GivenFacts DEF SourceTypeOK, Given, Next1, setup, Answers

\* An entry with a verdict.
LEMMA VerdictFacts ==
    ASSUME SourceTypeOK, NEW i \in DOMAIN given, NEW verdict \in {"none", "keep", "drop", "err"},
           given' = [given EXCEPT ![i].verdict = verdict]
    PROVE  /\ given' \in Seq(Answers)
           /\ Len(given') = Len(given) /\ DOMAIN given' = DOMAIN given /\ DOMAIN given = 1 .. Len(given)
           /\ \A j \in DOMAIN given : given'[j].kind = given[j].kind /\ given'[j].of = given[j].of
           /\ \A j \in DOMAIN given : j # i => given'[j] = given[j]
           /\ given'[i].verdict = verdict
  <1>0. given \in Seq(Answers)
    BY DEF SourceTypeOK, Answers
  <1>1. given \in Seq(Answers) /\ DOMAIN given = 1 .. Len(given) /\ given[i] \in Answers
    BY <1>0
  <1>2. [given[i] EXCEPT !.verdict = verdict] \in Answers
    BY <1>1 DEF Answers
  <1>3. given' = [given EXCEPT ![i] = [given[i] EXCEPT !.verdict = verdict]]
    OBVIOUS
  <1>4. given' \in Seq(Answers) /\ Len(given') = Len(given)
    BY <1>1, <1>2, <1>3
  <1>5. /\ given'[i] = [given[i] EXCEPT !.verdict = verdict]
        /\ \A j \in DOMAIN given : j # i => given'[j] = given[j]
    BY <1>1, <1>3
  <1> QED BY <1>1, <1>4, <1>5 DEF Answers

\* The last entry's future decides.
LEMMA ResolvesFacts ==
    ASSUME SourceTypeOK, Len(given) > 0, NEW verdict \in {"none", "keep", "drop", "err"},
           Resolves(verdict)
    PROVE  /\ Len(given) \in DOMAIN given /\ Len(given) \in 1 .. MaxAnswers
           /\ given' = [given EXCEPT ![Len(given)].verdict = verdict]
  <1>1. given \in Seq(Answers) /\ Len(given) <= MaxAnswers
    BY SourceAssumption DEF SourceTypeOK, Answers
  <1> QED BY <1>1, SourceAssumption DEF Resolves

\* ... when the last entry's future is done, ...
LEMMA ResolvesType ==
    ASSUME SourceTypeOK, Len(given) > 0, NEW verdict \in {"none", "keep", "drop", "err"},
           Resolves(verdict), UNCHANGED setup, notified' \in BOOLEAN
    PROVE  SourceTypeOK'
  <1>1. given' \in Seq(Answers) /\ Len(given') = Len(given)
    BY ResolvesFacts, VerdictFacts
  <1> QED BY <1>1, SourceAssumption DEF SourceTypeOK, Resolves, setup, Answers

\* ... when it ends, ...
LEMMA EndsType ==
    ASSUME SourceTypeOK, Ends, UNCHANGED setup, notified' \in BOOLEAN
    PROVE  SourceTypeOK'
  <1> USE SourceAssumption DEF SourceTypeOK, Ends, setup, sourceVars
  <1>1. CASE terminated /\ UNCHANGED sourceVars
    BY <1>1
  <1>2. CASE /\ ~terminated /\ "source" \notin waiting /\ left = 0
             /\ ended' = TRUE
             /\ terminated' = (adaptor \in Fused)
             /\ UNCHANGED <<left, given, waiting>>
    BY <1>2
  <1> QED BY <1>1, <1>2

\* ... when a party takes the waker, ...
LEMMA WaitsType ==
    ASSUME SourceTypeOK, NEW party \in Parties, Waits(party), UNCHANGED setup, notified' \in BOOLEAN
    PROVE  SourceTypeOK'
  BY SourceAssumption DEF SourceTypeOK, Waits, setup

\* ... and when they do not change.
LEMMA SameType ==
    ASSUME SourceTypeOK, UNCHANGED sourceVars, UNCHANGED setup, notified' \in BOOLEAN
    PROVE  SourceTypeOK'
  BY DEF SourceTypeOK, setup, sourceVars

\* The two, in the words of the invariant.
Grows(kind, of) ==
    /\ left > 0 /\ left' = left - 1 /\ UNCHANGED <<ended, terminated, waiting>>
    /\ Len(given) \in Nat /\ Len(given') = Len(given) + 1 /\ Next1 = Len(given) + 1
    /\ DOMAIN given = 1 .. Len(given) /\ DOMAIN given' = 1 .. Next1
    /\ \A i \in DOMAIN given : given'[i] = given[i]
    /\ given'[Next1].kind = kind /\ given'[Next1].of = of /\ given'[Next1].verdict = "none"

Judges(i, verdict) ==
    /\ UNCHANGED <<left, ended, terminated, waiting>>
    /\ Len(given) \in Nat /\ Len(given') = Len(given) /\ i \in DOMAIN given
    /\ DOMAIN given = 1 .. Len(given) /\ DOMAIN given' = DOMAIN given
    /\ \A j \in DOMAIN given : given'[j].kind = given[j].kind /\ given'[j].of = given[j].of
    /\ \A j \in DOMAIN given : j # i => given'[j] = given[j]
    /\ given'[i].verdict = verdict

\* An entry more is all that Given changes, ...
LEMMA GivenGrows ==
    ASSUME SourceTypeOK, NEW kind \in {"Ok", "Err", "Stream"}, NEW of \in 0 .. MaxAnswers,
           Given(kind, of)
    PROVE  Grows(kind, of)
  <1>1. left > 0 /\ left' = left - 1 /\ UNCHANGED <<ended, terminated, waiting>>
    BY DEF Given
  <1>2. Next1 = Len(given) + 1
    BY DEF Next1
  <1>3. \A s \in Seq(Answers) : DOMAIN s = 1 .. Len(s) /\ Len(s) \in Nat
    OBVIOUS
  <1>4. DOMAIN given' = 1 .. Next1 /\ Len(given') = Next1
    BY <1>3, GivenFacts
  <1>5. \A i \in DOMAIN given : given'[i] = given[i]
    BY GivenFacts
  <1>6. given'[Next1].kind = kind /\ given'[Next1].of = of /\ given'[Next1].verdict = "none"
    <2>1. given'[Next1] = [kind |-> kind, of |-> of, verdict |-> "none"]
      BY GivenFacts
    <2> QED BY <2>1
  <1>7. Len(given) \in Nat /\ DOMAIN given = 1 .. Len(given)
    BY GivenFacts
  <1> QED BY <1>1, <1>2, <1>4, <1>5, <1>6, <1>7 DEF Grows

\* ... and Gives, whose source is neither fused off nor pending.
LEMMA GivesGrows ==
    ASSUME SourceTypeOK, NEW kind \in {"Ok", "Err", "Stream"}, Gives(kind)
    PROVE  Grows(kind, 0) /\ ~terminated /\ "source" \notin waiting
  BY GivenGrows, SourceAssumption DEF Gives

\* A verdict is all that Resolves changes.
LEMMA ResolvesJudges ==
    ASSUME SourceTypeOK, Len(given) > 0, NEW verdict \in {"none", "keep", "drop", "err"},
           Resolves(verdict)
    PROVE  Judges(Len(given), verdict) /\ "future" \notin waiting
  <1>1. UNCHANGED <<left, ended, terminated, waiting>> /\ "future" \notin waiting
    BY DEF Resolves
  <1>2. Len(given) \in Nat /\ Len(given) \in DOMAIN given
    BY DEF SourceTypeOK
  <1> QED BY <1>1, <1>2, ResolvesFacts, VerdictFacts DEF Judges
=============================================================================
