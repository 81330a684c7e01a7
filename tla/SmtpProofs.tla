----------------------------- MODULE SmtpProofs -----------------------------
(***************************************************************************)
(* Theorems about both ends of SMTP telemetry.  First the observation of   *)
(* one connection, for clients that send any number of lines and any bound *)
(* on commands without a reply: replies are paired with the commands they  *)
(* answer, and a report is true.  Then the collector that correlates what  *)
(* was logged, for any runs, listeners and number of retries: what the     *)
(* manifest says is so, and an upload that failed withholds nothing.       *)
(*                                                                         *)
(* The two share no state: Invariance and what follows from it are about   *)
(* Spec, CollectorInvariance and what follows from it about RunsSpec.      *)
(***************************************************************************)
EXTENDS SmtpSession, Collector, SequenceTheorems, FiniteSetTheorems, FunctionTheorems, TLAPS

-----------------------------------------------------------------------------
(* Ranks: which of a set of places in a sequence a place is.                *)

LEMMA RankFacts ==
  ASSUME NEW n \in Nat, NEW I \in SUBSET (1 .. n)
  PROVE  /\ IsFiniteSet(I) /\ Cardinality(I) \in Nat
         /\ \A k \in Nat : Rank(I, k) \in Nat /\ Rank(I, k) <= Cardinality(I)
         /\ \A k \in I : Rank(I, k) >= 1
<1>1. IsFiniteSet(I) /\ Cardinality(I) \in Nat
  <2>1. IsFiniteSet(1 .. n)
    BY FS_Interval, 1 \in Int, n \in Int
  <2>2. IsFiniteSet(I)
    BY <2>1, FS_Subset
  <2> QED BY <2>2, FS_CardinalityType
<1>2. ASSUME NEW k \in Nat PROVE Rank(I, k) \in Nat /\ Rank(I, k) <= Cardinality(I)
  <2>1. {i \in I : i <= k} \in SUBSET I
    OBVIOUS
  <2> QED BY <1>1, <2>1, FS_Subset, FS_CardinalityType DEF Rank
<1>3. ASSUME NEW k \in I PROVE Rank(I, k) >= 1
  <2> DEFINE J == {i \in I : i <= k}
  <2>1. J \in SUBSET I /\ k \in J
    OBVIOUS
  <2> HIDE DEF J
  <2>2. IsFiniteSet(J) /\ Cardinality(J) \in Nat
    BY <1>1, <2>1, FS_Subset, FS_CardinalityType
  <2>3. Cardinality(J) # 0
    BY <2>1, <2>2, FS_EmptySet
  <2> QED BY <2>2, <2>3 DEF Rank, J
<1> QED BY <1>1, <1>2, <1>3

LEMMA RankNone == Cardinality({}) = 0
  BY FS_EmptySet

\* A place that is added behind the others is the last.
LEMMA RankAppend ==
  ASSUME NEW n \in Nat, NEW I \in SUBSET (1 .. n), NEW m \in Nat, m > n
  PROVE  /\ Cardinality(I \cup {m}) = Cardinality(I) + 1
         /\ Rank(I \cup {m}, m) = Cardinality(I) + 1
         /\ \A k \in I : Rank(I \cup {m}, k) = Rank(I, k)
<1>1. IsFiniteSet(I) /\ m \notin I
  <2>1. IsFiniteSet(I)
    BY RankFacts
  <2> QED BY <2>1, SMT
<1>2. Cardinality(I \cup {m}) = Cardinality(I) + 1
  BY <1>1, FS_AddElement
<1>3. {i \in I \cup {m} : i <= m} = I \cup {m}
  <2>1. \A i \in I \cup {m} : i <= m
    OBVIOUS
  <2> QED BY <2>1, Zenon
<1>4. ASSUME NEW k \in I PROVE {i \in I \cup {m} : i <= k} = {i \in I : i <= k}
  <2>1. ~(m <= k)
    OBVIOUS
  <2> QED BY <2>1
<1> QED BY <1>2, <1>3, <1>4 DEF Rank

\* Places counted from the second one.
LEMMA Shifted ==
  ASSUME NEW n \in Nat, NEW I \in SUBSET (2 .. n), NEW J \in SUBSET Nat,
         \A i \in Nat : i \in J <=> i + 1 \in I
  PROVE  Cardinality(J) = Cardinality(I)
<1> DEFINE f == [i \in J |-> i + 1]
<1>1. f \in [J -> I]
  OBVIOUS
<1>2. \A i, j \in J : f[i] = f[j] => i = j
  OBVIOUS
<1>3. \A k \in I : \E i \in J : f[i] = k
  <2> SUFFICES ASSUME NEW k \in I PROVE \E i \in J : f[i] = k
    OBVIOUS
  <2>1. k - 1 \in Nat /\ (k - 1) + 1 = k
    OBVIOUS
  <2>2. k - 1 \in J
    BY <2>1
  <2> QED BY <2>1, <2>2
<1> HIDE DEF f
<1>4. f \in Injection(J, I)
  BY <1>1, <1>2 DEF Injection, IsInjective
<1>5. f \in Surjection(J, I)
  BY <1>1, <1>3 DEF Surjection
<1>6. f \in Bijection(J, I)
  BY <1>4, <1>5 DEF Bijection
<1>7. ExistsBijection(J, I)
  BY <1>6, Fun_ExistsBij
<1>8. ExistsBijection(I, J)
  BY <1>7, Fun_ExistsBijSymmetric
<1>9. IsFiniteSet(I)
  <2>1. I \in SUBSET (1 .. n)
    OBVIOUS
  <2> QED BY <2>1, RankFacts
<1> QED BY <1>8, <1>9, FS_Bijection

\* The first place of the sequence is taken away.
LEMMA RankShift ==
  ASSUME NEW n \in Nat, NEW I \in SUBSET (1 .. n), NEW J \in SUBSET (1 .. n),
         \A i \in Nat : i \in J <=> i > 0 /\ i + 1 \in I
  PROVE  LET d == IF 1 \in I THEN 1 ELSE 0
         IN /\ Cardinality(J) = Cardinality(I) - d
            /\ \A k \in Nat : Rank(J, k) = Rank(I, k + 1) - d
<1> DEFINE d == IF 1 \in I THEN 1 ELSE 0
           Rest == I \ {1}
<1>1. IsFiniteSet(I) /\ Cardinality(I) \in Nat
  BY RankFacts
<1>2. Cardinality(Rest) = Cardinality(I) - d
  <2>1. Cardinality(I \ {1}) = IF 1 \in I THEN Cardinality(I) - 1 ELSE Cardinality(I)
    BY <1>1, FS_RemoveElement, Zenon
  <2> QED BY <1>1, <2>1
<1>3. Rest \in SUBSET (2 .. n)
  OBVIOUS
<1>4. \A i \in Nat : i \in J <=> i + 1 \in Rest
  OBVIOUS
<1>5. Cardinality(J) = Cardinality(Rest)
  BY <1>3, <1>4, Shifted
<1>6. ASSUME NEW k \in Nat PROVE Rank(J, k) = Rank(I, k + 1) - d
  <2> DEFINE A == {i \in I : i <= k + 1}
             B == {i \in J : i <= k}
  <2>1. IsFiniteSet(A) /\ Cardinality(A) \in Nat
    <3>1. A \in SUBSET I
      OBVIOUS
    <3> QED BY <1>1, <3>1, FS_Subset, FS_CardinalityType
  <2>2. 1 \in A <=> 1 \in I
    OBVIOUS
  <2>3. A \ {1} \in SUBSET (2 .. n) /\ B \in SUBSET Nat
    <3>1. A \in SUBSET (1 .. n) /\ B \in SUBSET (1 .. n)
      OBVIOUS
    <3> HIDE DEF A, B
    <3> QED BY <3>1
  <2>4. \A i \in Nat : i \in B <=> i + 1 \in A \ {1}
    BY <1>4
  <2> HIDE DEF A, B
  <2>5. Cardinality(B) = Cardinality(A \ {1})
    BY <2>3, <2>4, Shifted
  <2>6. Cardinality(A \ {1}) = Cardinality(A) - d
    <3>1. Cardinality(A \ {1}) = IF 1 \in A THEN Cardinality(A) - 1 ELSE Cardinality(A)
      BY <2>1, FS_RemoveElement, Zenon
    <3> QED BY <2>1, <2>2, <3>1
  <2> QED BY <2>5, <2>6 DEF Rank, A, B
<1> QED BY <1>2, <1>5, <1>6

-----------------------------------------------------------------------------
(* The lines on their way to the backend, which is in state b.              *)

Under == IF up.held = None THEN up.sent ELSE Append(up.sent, up.held)

Modes    == {"command", "wait", "data", "bdat", "tls"}
Backends == {"silent", "command", "data", "bdat", "tls"}

\* Line k will be answered: it is neither a chunk of BDAT nor within a message.
Answered(u, b, k) ==
  /\ u[k] \in Commands \cup {"."}
  /\ IF k = 1 THEN b # "bdat" ELSE u[k - 1] # "BDAT"
  /\ b = "data" => \E j \in 1 .. k : u[j] = "."

AnsweredIn(u, b) == {k \in 1 .. Len(u) : Answered(u, b, k)}

\* A chunk follows BDAT, a message goes on to its dot, and what comes after DATA and
\* STARTTLS, before their replies, is TLS.
Shape(u, b) ==
  /\ b = "bdat" /\ u # <<>> => u[1] = "STARTTLS"
  /\ \A k \in 1 .. Len(u) :
       /\ u[k] = "BDAT" => k = Len(u) \/ u[k + 1] = "STARTTLS"
       /\ u[k] = "." => b = "data" /\ \A j \in 1 .. k - 1 : u[j] # "."
       /\ b = "data" /\ (\A j \in 1 .. k : u[j] # ".") => u[k] \in {"STARTTLS", "BAD"} \cup Tls
       /\ b = "tls" => u[k] \in Tls
       /\ u[k] \in Tls \/ (Answered(u, b, k) /\ u[k] \in {"DATA", "STARTTLS"})
            => \A j \in k + 1 .. Len(u) : u[j] \in Tls

\* Where that leaves the client, which is in mode m.
Ahead(u, b, m) ==
  /\ m # "tls" => \A k \in 1 .. Len(u) : u[k] \notin Tls
  /\ m = "bdat" <=> IF u = <<>> THEN b = "bdat" ELSE u[Len(u)] = "BDAT"
  /\ m = "data" => b = "data" /\ \A k \in 1 .. Len(u) : u[k] # "."
  /\ m \in {"command", "bdat"} =>
       /\ b # "tls"
       /\ b = "data" => \E k \in 1 .. Len(u) : u[k] = "."
       /\ \A k \in AnsweredIn(u, b) : u[k] \notin {"DATA", "STARTTLS"}
  /\ m = "wait" /\ u # <<>> =>
       u[Len(u)] \in {"DATA", "STARTTLS"} /\ Len(u) \in AnsweredIn(u, b)

\* The client sends t.
Sendable(m) ==
  CASE m = "command" -> Commands \cup {"hello"}
    [] m = "wait" -> {"hello"}
    [] m = "data" -> {"STARTTLS", "BAD", "."}
    [] m = "bdat" -> {"STARTTLS"}
    [] m = "tls" -> Tls

IsOwed(m, t) == (m = "command" /\ t \in Commands) \/ (m = "data" /\ t = ".")

ModeAfter(m, t) ==
  IF t \in Tls THEN "tls"
  ELSE IF m = "command" /\ t \in {"DATA", "STARTTLS"} THEN "wait"
  ELSE IF m = "command" /\ t = "BDAT" THEN "bdat"
  ELSE IF m = "bdat" \/ t = "." THEN "command"
  ELSE m

LEMMA SeqFacts ==
  ASSUME NEW u \in Seq(Lines)
  PROVE  /\ Len(u) \in Nat /\ (u = <<>> <=> Len(u) = 0)
         /\ \A k \in 1 .. Len(u) : u[k] \in Lines
OBVIOUS

LEMMA AppendFacts ==
  ASSUME NEW u \in Seq(Lines), NEW t \in Lines
  PROVE  LET v == Append(u, t)
             n == Len(u) + 1
         IN /\ v \in Seq(Lines) /\ Len(v) = n /\ v # <<>> /\ v[n] = t
            /\ \A k \in 1 .. Len(u) : v[k] = u[k]
            /\ \A k \in 1 .. n : k = n \/ k \in 1 .. Len(u)
OBVIOUS

\* Whether a line is answered does not depend on those behind it.
LEMMA AnsweredBefore ==
  ASSUME NEW u \in Seq(Lines), NEW t \in Lines, NEW b, NEW k \in 1 .. Len(u)
  PROVE  Answered(Append(u, t), b, k) <=> Answered(u, b, k)
<1> DEFINE v == Append(u, t)
<1>1. \A j \in 1 .. Len(u) : v[j] = u[j]
  BY AppendFacts
<1>2. k \in Nat /\ (\A j \in 1 .. k : j \in 1 .. Len(u)) /\ (k # 1 => k - 1 \in 1 .. Len(u))
  BY SeqFacts
<1> HIDE DEF v
<1>3. Answered(v, b, k) <=> Answered(u, b, k)
  BY <1>1, <1>2 DEF Answered
<1> QED BY <1>3 DEF v

\* The line a client sends is answered if the client is owed a reply for it.
LEMMA SentIsOwed ==
  ASSUME NEW u \in Seq(Lines), NEW b \in Backends, NEW m \in Modes, NEW t \in Lines,
         Shape(u, b), Ahead(u, b, m), t \in Sendable(m)
  PROVE  Answered(Append(u, t), b, Len(u) + 1) <=> IsOwed(m, t)
<1> DEFINE v == Append(u, t)
           n == Len(u) + 1
<1>1. /\ Len(u) \in Nat /\ (u = <<>> <=> Len(u) = 0) /\ v[n] = t
      /\ \A k \in 1 .. Len(u) : v[k] = u[k]
      /\ \A k \in 1 .. n : k = n \/ k \in 1 .. Len(u)
      /\ \A k \in 1 .. Len(u) : k \in 1 .. n
      /\ n \in 1 .. n /\ (n # 1 <=> Len(u) # 0) /\ n - 1 = Len(u) /\ (Len(u) # 0 => Len(u) \in 1 .. Len(u))
  BY SeqFacts, AppendFacts
<1> HIDE DEF v, n
<1>2. (IF n = 1 THEN b # "bdat" ELSE v[n - 1] # "BDAT") <=> m # "bdat"
  BY <1>1 DEF Ahead
<1> SUFFICES Answered(v, b, n) <=> IsOwed(m, t)
  BY DEF v, n
<1>3. CASE m = "command"
  <2>1. b = "data" => \E j \in 1 .. n : v[j] = "."
    BY <1>1, <1>3 DEF Ahead
  <2> QED BY <1>1, <1>2, <1>3, <2>1 DEF Answered, IsOwed, Sendable, Commands
<1>4. CASE m = "data"
  <2>1. b = "data" /\ ((\E j \in 1 .. n : v[j] = ".") <=> t = ".")
    BY <1>1, <1>4 DEF Ahead
  <2> QED BY <1>1, <1>2, <1>4, <2>1 DEF Answered, IsOwed, Sendable, Commands
<1>5. CASE m = "bdat"
  BY <1>1, <1>2, <1>5 DEF Answered, IsOwed
<1>6. CASE m \in {"wait", "tls"}
  BY <1>1, <1>6 DEF Answered, IsOwed, Sendable, Commands, Tls
<1> QED BY <1>3, <1>4, <1>5, <1>6 DEF Modes

LEMMA AnsweredAppend ==
  ASSUME NEW u \in Seq(Lines), NEW b \in Backends, NEW m \in Modes, NEW t \in Lines,
         Shape(u, b), Ahead(u, b, m), t \in Sendable(m)
  PROVE  AnsweredIn(Append(u, t), b)
           = AnsweredIn(u, b) \cup (IF IsOwed(m, t) THEN {Len(u) + 1} ELSE {})
<1> DEFINE v == Append(u, t)
           n == Len(u) + 1
<1>1. Len(v) = n /\ n \in 1 .. n /\ (\A k \in 1 .. n : k = n \/ k \in 1 .. Len(u))
      /\ \A k \in 1 .. Len(u) : k \in 1 .. n
  BY SeqFacts, AppendFacts
<1>2. Answered(v, b, n) <=> IsOwed(m, t)
  BY SentIsOwed
<1>3. \A k \in 1 .. Len(u) : Answered(v, b, k) <=> Answered(u, b, k)
  BY AnsweredBefore
<1> HIDE DEF v, n
<1>4. AnsweredIn(v, b) = AnsweredIn(u, b) \cup (IF IsOwed(m, t) THEN {n} ELSE {})
  BY <1>1, <1>2, <1>3 DEF AnsweredIn
<1> QED BY <1>4 DEF v, n

LEMMA ShapeAppend ==
  ASSUME NEW u \in Seq(Lines), NEW b \in Backends, NEW m \in Modes, NEW t \in Lines,
         Shape(u, b), Ahead(u, b, m), t \in Sendable(m)
  PROVE  Shape(Append(u, t), b)
<1> DEFINE v == Append(u, t)
           n == Len(u) + 1
<1>1. /\ Len(u) \in Nat /\ (u = <<>> <=> Len(u) = 0) /\ v[n] = t /\ Len(v) = n
      /\ \A k \in 1 .. Len(u) : v[k] = u[k]
      /\ \A k \in 1 .. n : k = n \/ k \in 1 .. Len(u)
      /\ \A k \in 1 .. Len(u) : k \in 1 .. n /\ k # n /\ (k = Len(u) \/ k + 1 \in 1 .. Len(u))
      /\ n \in 1 .. n /\ (n # 1 <=> Len(u) # 0) /\ (Len(u) # 0 => Len(u) \in 1 .. Len(u))
  BY SeqFacts, AppendFacts
<1>2. \A k \in 1 .. Len(u) : Answered(v, b, k) <=> Answered(u, b, k)
  BY AnsweredBefore
<1>3. \A k \in 1 .. Len(u) : /\ \A j \in 1 .. k : j \in 1 .. Len(u)
                             /\ \A j \in 1 .. k - 1 : j \in 1 .. Len(u)
                             /\ \A j \in k + 1 .. n : j = n \/ j \in k + 1 .. Len(u)
                             /\ \A j \in k + 1 .. Len(u) : j \in 1 .. Len(u)
  BY <1>1
<1>4. (\A j \in 1 .. n - 1 : j \in 1 .. Len(u)) /\ (\A j \in n + 1 .. n : FALSE)
  BY <1>1
<1> HIDE DEF v, n
<1>5. b = "bdat" => v[1] = "STARTTLS"
  <2>1. Len(u) = 0 /\ b = "bdat" => m = "bdat"
    BY <1>1 DEF Ahead
  <2>2. m = "bdat" => t = "STARTTLS"
    BY DEF Sendable
  <2>3. Len(u) = 0 => n = 1
    BY <1>1
  <2>4. Len(u) # 0 => 1 \in 1 .. Len(u)
    BY <1>1
  <2> QED BY <1>1, <2>1, <2>2, <2>3, <2>4 DEF Shape
<1>6. ASSUME NEW k \in 1 .. Len(u)
      PROVE  /\ v[k] = "BDAT" => k = n \/ v[k + 1] = "STARTTLS"
             /\ v[k] = "." => b = "data" /\ \A j \in 1 .. k - 1 : v[j] # "."
             /\ b = "data" /\ (\A j \in 1 .. k : v[j] # ".") => v[k] \in {"STARTTLS", "BAD"} \cup Tls
             /\ b = "tls" => v[k] \in Tls
             /\ v[k] \in Tls \/ (Answered(v, b, k) /\ v[k] \in {"DATA", "STARTTLS"})
                  => \A j \in k + 1 .. n : v[j] \in Tls
  <2>1. v[k] = "BDAT" => k = n \/ v[k + 1] = "STARTTLS"
    <3> SUFFICES ASSUME u[k] = "BDAT" PROVE v[k + 1] = "STARTTLS"
      BY <1>1
    <3>1. CASE k = Len(u)
      <4>1. m = "bdat"
        BY <1>1, <3>1 DEF Ahead
      <4>2. t = "STARTTLS" /\ k + 1 = n
        BY <3>1, <4>1 DEF Sendable, n
      <4> QED BY <1>1, <4>2
    <3>2. CASE k # Len(u)
      <4>1. k + 1 \in 1 .. Len(u) /\ u[k + 1] = "STARTTLS"
        BY <1>1, <3>2 DEF Shape
      <4> QED BY <1>1, <4>1
    <3> QED BY <3>1, <3>2
  <2>2. v[k] = "." => b = "data" /\ \A j \in 1 .. k - 1 : v[j] # "."
    BY <1>1, <1>3 DEF Shape
  <2>3. b = "data" /\ (\A j \in 1 .. k : v[j] # ".") => v[k] \in {"STARTTLS", "BAD"} \cup Tls
    BY <1>1, <1>3 DEF Shape
  <2>4. b = "tls" => v[k] \in Tls
    BY <1>1 DEF Shape
  <2>5. ASSUME v[k] \in Tls \/ (Answered(v, b, k) /\ v[k] \in {"DATA", "STARTTLS"})
        PROVE  \A j \in k + 1 .. n : v[j] \in Tls
    <3>1. u[k] \in Tls \/ (Answered(u, b, k) /\ u[k] \in {"DATA", "STARTTLS"})
      BY <1>1, <1>2, <2>5
    <3>2. \A j \in k + 1 .. Len(u) : v[j] \in Tls
      BY <1>1, <1>3, <3>1 DEF Shape
    <3>3. m \in {"wait", "tls"}
      <4>1. CASE u[k] \in Tls
        BY <4>1 DEF Ahead, Modes
      <4>2. CASE Answered(u, b, k) /\ u[k] \in {"DATA", "STARTTLS"}
        <5>1. k \in AnsweredIn(u, b)
          BY <4>2 DEF AnsweredIn
        <5>2. m \notin {"command", "bdat"}
          BY <4>2, <5>1 DEF Ahead
        <5>3. m # "data"
          BY <1>3, <4>2 DEF Ahead, Answered
        <5> QED BY <5>2, <5>3 DEF Modes
      <4> QED BY <3>1, <4>1, <4>2
    <3>4. t \in Tls
      BY <3>3 DEF Sendable, Tls
    <3> QED BY <1>1, <1>3, <3>2, <3>4
  <2> QED BY <2>1, <2>2, <2>3, <2>4, <2>5
<1>7. /\ v[n] = "." => b = "data" /\ \A j \in 1 .. n - 1 : v[j] # "."
      /\ b = "data" /\ (\A j \in 1 .. n : v[j] # ".") => v[n] \in {"STARTTLS", "BAD"} \cup Tls
      /\ b = "tls" => v[n] \in Tls
  <2>1. t = "." => m = "data"
    BY DEF Sendable, Modes, Commands, Tls
  <2>2. b = "data" /\ (\A j \in 1 .. n : v[j] # ".") => m \in {"wait", "data", "tls"}
    BY <1>1 DEF Ahead, Modes
  <2>3. m \in {"wait", "data", "tls"} /\ t # "." => t \in {"STARTTLS", "BAD"} \cup Tls
    BY DEF Sendable, Tls
  <2>4. b = "tls" => t \in Tls
    BY DEF Ahead, Modes, Sendable, Tls
  <2> QED BY <1>1, <1>4, <2>1, <2>2, <2>3, <2>4 DEF Ahead
<1>8. Shape(v, b)
  BY <1>1, <1>4, <1>5, <1>6, <1>7 DEF Shape
<1> QED BY <1>8 DEF v

LEMMA AheadAppend ==
  ASSUME NEW u \in Seq(Lines), NEW b \in Backends, NEW m \in Modes, NEW t \in Lines,
         Shape(u, b), Ahead(u, b, m), t \in Sendable(m)
  PROVE  Ahead(Append(u, t), b, ModeAfter(m, t))
<1> DEFINE v == Append(u, t)
           n == Len(u) + 1
           w == ModeAfter(m, t)
<1>1. /\ v # <<>> /\ v[n] = t /\ Len(v) = n
      /\ \A k \in 1 .. Len(u) : v[k] = u[k]
      /\ \A k \in 1 .. n : k = n \/ k \in 1 .. Len(u)
      /\ \A k \in 1 .. Len(u) : k \in 1 .. n
      /\ n \in 1 .. n
  BY SeqFacts, AppendFacts
<1>2. AnsweredIn(v, b) = AnsweredIn(u, b) \cup (IF IsOwed(m, t) THEN {n} ELSE {})
  BY AnsweredAppend
<1>a. \A k \in AnsweredIn(u, b) : k \in 1 .. Len(u)
  BY DEF AnsweredIn
<1> HIDE DEF v, n
<1> SUFFICES Ahead(v, b, w)
  BY DEF v
<1>3. t \in Tls => w = "tls"
  BY DEF ModeAfter
<1>4. w = "tls" => t \in Tls
  BY DEF ModeAfter, Sendable, Modes, Commands, Tls
<1>5. w # "tls" => \A k \in 1 .. Len(v) : v[k] \notin Tls
  <2> SUFFICES ASSUME w # "tls" PROVE \A k \in 1 .. n : v[k] \notin Tls
    BY <1>1
  <2>1. m # "tls" /\ t \notin Tls
    BY <1>3 DEF Sendable
  <2> QED BY <1>1, <2>1 DEF Ahead
<1>6. w = "bdat" <=> t = "BDAT"
  BY DEF ModeAfter, Sendable, Modes, Commands, Tls
<1>7. w = "data" => m = "data" /\ t # "."
  BY DEF ModeAfter, Modes
<1>8. ASSUME w \in {"command", "bdat"}
      PROVE  /\ b # "tls"
             /\ b = "data" => \E k \in 1 .. Len(v) : v[k] = "."
             /\ \A k \in AnsweredIn(v, b) : v[k] \notin {"DATA", "STARTTLS"}
  <2>1. \/ m \in {"command", "bdat"} /\ (IsOwed(m, t) => t \notin {"DATA", "STARTTLS"})
        \/ m = "data" /\ t = "." /\ b = "data"
    BY <1>8 DEF ModeAfter, Sendable, Modes, Commands, Tls, IsOwed, Ahead
  <2>2. CASE m \in {"command", "bdat"}
    <3>1. b # "tls" /\ (b = "data" => \E k \in 1 .. Len(v) : v[k] = ".")
      BY <1>1, <2>2 DEF Ahead
    <3>2. IsOwed(m, t) => t \notin {"DATA", "STARTTLS"}
      BY <2>1, <2>2
    <3>3. \A k \in AnsweredIn(u, b) : v[k] \notin {"DATA", "STARTTLS"}
      BY <1>1, <1>a, <2>2 DEF Ahead
    <3> QED BY <1>1, <1>2, <3>1, <3>2, <3>3
  <2>3. CASE m = "data" /\ t = "." /\ b = "data"
    <3>1. \A k \in 1 .. Len(u) : u[k] # "."
      BY <2>3 DEF Ahead
    <3>2. ASSUME NEW k \in AnsweredIn(u, b) PROVE FALSE
      <4>1. \A j \in 1 .. k : j \in 1 .. Len(u)
        BY <1>a, SeqFacts
      <4> QED BY <2>3, <3>1, <3>2, <4>1 DEF AnsweredIn, Answered
    <3> QED BY <1>1, <1>2, <2>3, <3>2
  <2> QED BY <2>1, <2>2, <2>3
<1>9. w = "wait" => v[n] \in {"DATA", "STARTTLS"} /\ n \in AnsweredIn(v, b)
  <2>1. w = "wait" => t \in {"DATA", "STARTTLS"} /\ IsOwed(m, t)
    BY DEF ModeAfter, Sendable, Modes, Commands, Tls, IsOwed
  <2> QED BY <1>1, <1>2, <2>1
<1>b. w = "data" => b = "data" /\ \A k \in 1 .. Len(v) : v[k] # "."
  BY <1>1, <1>7 DEF Ahead
<1>c. w = "bdat" <=> IF v = <<>> THEN b = "bdat" ELSE v[Len(v)] = "BDAT"
  BY <1>1, <1>6
<1> HIDE DEF w
<1> QED BY <1>1, <1>5, <1>8, <1>9, <1>b, <1>c DEF Ahead

\* The backend, in state b, reads t and is in state c after.
Serves(b, t, c) ==
  \/ b = "command" /\ t \in {"EHLO", "BAD"} \cup Tls /\ c = "command"
  \/ b = "command" /\ t = "DATA" /\ c \in {"data", "command"}
  \/ b = "command" /\ t = "STARTTLS" /\ c \in {"tls", "command"}
  \/ b = "command" /\ t = "BDAT" /\ c = "bdat"
  \/ b = "data" /\ t = "." /\ c = "command"
  \/ b = "data" /\ t # "." /\ c = "data"
  \/ b = "bdat" /\ c = "command"
  \/ b = "tls" /\ c = "tls"

LEMMA TailFacts ==
  ASSUME NEW u \in Seq(Lines), u # <<>>
  PROVE  LET v == Tail(u)
         IN /\ v \in Seq(Lines) /\ Len(u) = Len(v) + 1 /\ Len(v) \in Nat
            /\ (v = <<>> <=> Len(v) = 0) /\ u[1] \in Lines
            /\ \A k \in 1 .. Len(v) : k + 1 \in 1 .. Len(u) /\ v[k] = u[k + 1]
            /\ \A k \in 1 .. Len(u) : k = 1 \/ (k - 1 \in 1 .. Len(v) /\ v[k - 1] = u[k])
<1>1. Tail(u) \in Seq(Lines) /\ Len(u) \in Nat \ {0} /\ Len(Tail(u)) = Len(u) - 1
  OBVIOUS
<1>2. \A k \in 1 .. Len(u) : u[k] \in Lines
  OBVIOUS
<1>3. \A k \in 1 .. Len(u) - 1 : Tail(u)[k] = u[k + 1]
  OBVIOUS
<1>4. Tail(u) = <<>> <=> Len(Tail(u)) = 0
  BY <1>1, SeqFacts
<1> QED BY <1>1, <1>2, <1>3, <1>4

\* The first line, once served.
LEMMA FirstServed ==
  ASSUME NEW u \in Seq(Lines), u # <<>>, NEW b \in Backends, NEW c \in Backends,
         Shape(u, b), Serves(b, u[1], c)
  PROVE  /\ c = "bdat" <=> u[1] = "BDAT"
         /\ 1 \in AnsweredIn(u, b) <=> (b = "command" /\ u[1] \in Commands) \/ (b = "data" /\ u[1] = ".")
         /\ c = "data" <=> (b = "data" /\ u[1] # ".") \/ (c = "data" /\ u[1] = "DATA" /\ b = "command")
         /\ c = "tls" <=> b = "tls" \/ (c = "tls" /\ u[1] = "STARTTLS" /\ b = "command")
         /\ b = "command" /\ c \in {"data", "tls"} => \A k \in 1 .. Len(Tail(u)) : Tail(u)[k] \in Tls
         /\ u[1] = "." => b = "data"
<1> DEFINE x == u[1]
<1>1. /\ Len(u) \in Nat /\ 1 \in 1 .. Len(u) /\ x \in Lines
      /\ \A k \in 1 .. Len(Tail(u)) : k + 1 \in 2 .. Len(u) /\ Tail(u)[k] = u[k + 1]
      /\ \A j \in 1 .. 1 : j = 1
  BY TailFacts
<1>2. Answered(u, b, 1) <=> x \in Commands \cup {"."} /\ b # "bdat" /\ (b = "data" => x = ".")
  BY <1>1 DEF Answered
<1>3. /\ x = "." => b = "data"
      /\ b = "data" /\ x # "." => x \in {"STARTTLS", "BAD"} \cup Tls
      /\ b = "tls" => x \in Tls
      /\ b = "bdat" => x = "STARTTLS"
      /\ Answered(u, b, 1) /\ x \in {"DATA", "STARTTLS"} => \A j \in 1 + 1 .. Len(u) : u[j] \in Tls
  BY <1>1 DEF Shape
<1>4. 1 \in AnsweredIn(u, b) <=> Answered(u, b, 1)
  BY <1>1 DEF AnsweredIn
<1>5. Serves(b, x, c)
  OBVIOUS
<1> HIDE DEF x
<1>6. 1 \in AnsweredIn(u, b) <=> (b = "command" /\ x \in Commands) \/ (b = "data" /\ x = ".")
  BY <1>2, <1>3, <1>4, <1>5 DEF Serves, Backends, Commands, Tls
<1>7. c = "bdat" <=> x = "BDAT"
  BY <1>3, <1>5 DEF Serves, Tls
<1>8. c = "data" <=> (b = "data" /\ x # ".") \/ (c = "data" /\ x = "DATA" /\ b = "command")
  BY <1>5 DEF Serves
<1>9. c = "tls" <=> b = "tls" \/ (c = "tls" /\ x = "STARTTLS" /\ b = "command")
  BY <1>5 DEF Serves
<1>10. b = "command" /\ c \in {"data", "tls"} => \A k \in 1 .. Len(Tail(u)) : Tail(u)[k] \in Tls
  <2> SUFFICES ASSUME b = "command", c \in {"data", "tls"}, NEW k \in 1 .. Len(Tail(u))
               PROVE  Tail(u)[k] \in Tls
    OBVIOUS
  <2>1. x \in {"DATA", "STARTTLS"}
    BY <1>5 DEF Serves
  <2>2. Answered(u, b, 1)
    BY <1>2, <2>1 DEF Commands
  <2> QED BY <1>1, <1>3, <2>1, <2>2
<1> QED BY <1>3, <1>6, <1>7, <1>8, <1>9, <1>10 DEF x

\* A dot among the lines up to the next one.
LEMMA DotBehind ==
  ASSUME NEW u \in Seq(Lines), u # <<>>, NEW k \in 1 .. Len(Tail(u))
  PROVE  (\E j \in 1 .. k + 1 : u[j] = ".") <=> u[1] = "." \/ \E j \in 1 .. k : Tail(u)[j] = "."
<1> DEFINE v == Tail(u)
<1>1. /\ k \in Nat /\ 1 \in 1 .. k + 1 /\ \A j \in 1 .. k : v[j] = u[j + 1] /\ j + 1 \in 1 .. k + 1
      /\ \A j \in 1 .. k + 1 : j = 1 \/ (j - 1 \in 1 .. k /\ v[j - 1] = u[j])
  BY TailFacts
<1> HIDE DEF v
<1>2. (\E j \in 1 .. k + 1 : u[j] = ".") <=> u[1] = "." \/ \E j \in 1 .. k : v[j] = "."
  BY <1>1
<1> QED BY <1>2 DEF v

\* Which lines will be answered does not depend on whether those before them have been.
LEMMA AnsweredBehind ==
  ASSUME NEW u \in Seq(Lines), u # <<>>, NEW b \in Backends, NEW c \in Backends,
         Shape(u, b), Serves(b, u[1], c), NEW k \in 1 .. Len(Tail(u))
  PROVE  Answered(Tail(u), c, k) <=> Answered(u, b, k + 1)
<1> DEFINE v == Tail(u)
<1>1. /\ k \in Nat /\ v[k] = u[k + 1] /\ k + 1 # 1 /\ (k + 1) - 1 = k
      /\ (k # 1 => v[k - 1] = u[k])
  BY TailFacts
<1>2. (\E j \in 1 .. k + 1 : u[j] = ".") <=> u[1] = "." \/ \E j \in 1 .. k : v[j] = "."
  BY DotBehind
<1>3. /\ c = "bdat" <=> u[1] = "BDAT"
      /\ c = "data" <=> (b = "data" /\ u[1] # ".") \/ (c = "data" /\ u[1] = "DATA" /\ b = "command")
      /\ b = "command" /\ c \in {"data", "tls"} => v[k] \in Tls
      /\ u[1] = "." => b = "data"
  BY FirstServed
<1> HIDE DEF v
<1>4. (IF k = 1 THEN c # "bdat" ELSE v[k - 1] # "BDAT") <=> u[k] # "BDAT"
  BY <1>1, <1>3
<1>5. v[k] \in Tls => v[k] \notin Commands \cup {"."}
  BY DEF Tls, Commands
<1>6. CASE b = "command" /\ c \in {"data", "tls"}
  BY <1>1, <1>3, <1>5, <1>6 DEF Answered, v
<1>7. CASE ~(b = "command" /\ c \in {"data", "tls"})
  <2>1. (c = "data" => \E j \in 1 .. k : v[j] = ".") <=> (b = "data" => \E j \in 1 .. k + 1 : u[j] = ".")
    BY <1>2, <1>3, <1>7
  <2>2. Answered(v, c, k) <=> Answered(u, b, k + 1)
    BY <1>1, <1>4, <2>1 DEF Answered
  <2> QED BY <2>2 DEF v
<1> QED BY <1>6, <1>7

LEMMA AnsweredTail ==
  ASSUME NEW u \in Seq(Lines), u # <<>>, NEW b \in Backends, NEW c \in Backends,
         Shape(u, b), Serves(b, u[1], c)
  PROVE  \A i \in Nat : i \in AnsweredIn(Tail(u), c) <=> i > 0 /\ i + 1 \in AnsweredIn(u, b)
<1> SUFFICES ASSUME NEW i \in Nat
             PROVE  i \in AnsweredIn(Tail(u), c) <=> i > 0 /\ i + 1 \in AnsweredIn(u, b)
  OBVIOUS
<1>1. i \in 1 .. Len(Tail(u)) <=> i > 0 /\ i + 1 \in 1 .. Len(u)
  BY TailFacts
<1>2. CASE i \in 1 .. Len(Tail(u))
  BY <1>1, <1>2, AnsweredBehind DEF AnsweredIn
<1>3. CASE i \notin 1 .. Len(Tail(u))
  BY <1>1, <1>3 DEF AnsweredIn
<1> QED BY <1>2, <1>3

LEMMA ShapeTail ==
  ASSUME NEW u \in Seq(Lines), u # <<>>, NEW b \in Backends, NEW c \in Backends,
         Shape(u, b), Serves(b, u[1], c)
  PROVE  Shape(Tail(u), c)
<1> DEFINE v == Tail(u)
<1>1. /\ Len(u) = Len(v) + 1 /\ Len(v) \in Nat /\ (v = <<>> <=> Len(v) = 0)
      /\ \A k \in 1 .. Len(v) : k + 1 \in 1 .. Len(u) /\ v[k] = u[k + 1]
      /\ 1 \in 1 .. Len(u)
  BY TailFacts
<1>2. /\ c = "bdat" <=> u[1] = "BDAT"
      /\ c = "data" <=> (b = "data" /\ u[1] # ".") \/ (c = "data" /\ u[1] = "DATA" /\ b = "command")
      /\ c = "tls" <=> b = "tls" \/ (c = "tls" /\ u[1] = "STARTTLS" /\ b = "command")
      /\ b = "command" /\ c \in {"data", "tls"} => \A k \in 1 .. Len(v) : v[k] \in Tls
      /\ u[1] = "." => b = "data"
  BY FirstServed
<1>3. \A k \in 1 .. Len(v) : /\ (\E j \in 1 .. k + 1 : u[j] = ".") <=> u[1] = "." \/ \E j \in 1 .. k : v[j] = "."
                             /\ Answered(v, c, k) <=> Answered(u, b, k + 1)
  BY DotBehind, AnsweredBehind
<1>4. \A k \in 1 .. Len(v) : \A j \in k + 1 .. Len(v) : j + 1 \in k + 1 + 1 .. Len(u)
  BY <1>1
<1>5. \A k \in 1 .. Len(v) : \A j \in 1 .. k - 1 : j + 1 \in 1 .. (k + 1) - 1 /\ j \in 1 .. Len(v)
  BY <1>1
<1>6. ASSUME NEW k \in 1 .. Len(u)
      PROVE  /\ u[k] = "BDAT" => k = Len(u) \/ u[k + 1] = "STARTTLS"
             /\ u[k] = "." => b = "data" /\ \A j \in 1 .. k - 1 : u[j] # "."
             /\ b = "data" /\ (\A j \in 1 .. k : u[j] # ".") => u[k] \in {"STARTTLS", "BAD"} \cup Tls
             /\ b = "tls" => u[k] \in Tls
             /\ u[k] \in Tls \/ (Answered(u, b, k) /\ u[k] \in {"DATA", "STARTTLS"})
                  => \A j \in k + 1 .. Len(u) : u[j] \in Tls
  BY DEF Shape
<1> HIDE DEF v
<1> SUFFICES Shape(v, c)
  BY DEF v
<1>7. c = "bdat" /\ v # <<>> => v[1] = "STARTTLS"
  <2> SUFFICES ASSUME c = "bdat", v # <<>> PROVE v[1] = "STARTTLS"
    OBVIOUS
  <2>1. u[1] = "BDAT" /\ 1 # Len(u) /\ 1 \in 1 .. Len(v)
    BY <1>1, <1>2
  <2>2. u[1 + 1] = "STARTTLS"
    BY <1>1, <1>6, <2>1
  <2> QED BY <1>1, <2>1, <2>2
<1>8. ASSUME NEW k \in 1 .. Len(v)
      PROVE  /\ v[k] = "BDAT" => k = Len(v) \/ v[k + 1] = "STARTTLS"
             /\ v[k] = "." => c = "data" /\ \A j \in 1 .. k - 1 : v[j] # "."
             /\ c = "data" /\ (\A j \in 1 .. k : v[j] # ".") => v[k] \in {"STARTTLS", "BAD"} \cup Tls
             /\ c = "tls" => v[k] \in Tls
             /\ v[k] \in Tls \/ (Answered(v, c, k) /\ v[k] \in {"DATA", "STARTTLS"})
                  => \A j \in k + 1 .. Len(v) : v[j] \in Tls
  <2>0. k \in Nat /\ k + 1 \in 1 .. Len(u) /\ v[k] = u[k + 1] /\ 1 \in 1 .. (k + 1) - 1
        /\ (k + 1 = Len(u) <=> k = Len(v)) /\ (k # Len(v) => k + 1 \in 1 .. Len(v))
    BY <1>1
  <2>1. v[k] = "BDAT" => k = Len(v) \/ v[k + 1] = "STARTTLS"
    BY <1>1, <1>6, <2>0
  <2>2. v[k] = "." => c = "data" /\ \A j \in 1 .. k - 1 : v[j] # "."
    <3> SUFFICES ASSUME v[k] = "." PROVE c = "data" /\ \A j \in 1 .. k - 1 : v[j] # "."
      OBVIOUS
    <3>1. b = "data" /\ \A j \in 1 .. (k + 1) - 1 : u[j] # "."
      BY <1>6, <2>0
    <3>2. c = "data"
      BY <1>2, <2>0, <3>1
    <3> QED BY <1>1, <1>5, <3>1, <3>2
  <2>3. c = "data" /\ (\A j \in 1 .. k : v[j] # ".") => v[k] \in {"STARTTLS", "BAD"} \cup Tls
    <3> SUFFICES ASSUME c = "data", \A j \in 1 .. k : v[j] # "." PROVE v[k] \in {"STARTTLS", "BAD"} \cup Tls
      OBVIOUS
    <3>1. CASE b = "data" /\ u[1] # "."
      <4>1. \A j \in 1 .. k + 1 : u[j] # "."
        BY <1>3, <3>1
      <4> QED BY <1>6, <2>0, <3>1, <4>1
    <3>2. CASE b = "command"
      BY <1>2, <3>2
    <3> QED BY <1>2, <3>1, <3>2
  <2>4. c = "tls" => v[k] \in Tls
    BY <1>2, <1>6, <2>0
  <2>5. v[k] \in Tls \/ (Answered(v, c, k) /\ v[k] \in {"DATA", "STARTTLS"})
          => \A j \in k + 1 .. Len(v) : v[j] \in Tls
    <3> SUFFICES ASSUME v[k] \in Tls \/ (Answered(v, c, k) /\ v[k] \in {"DATA", "STARTTLS"}),
                        NEW j \in k + 1 .. Len(v)
                 PROVE  v[j] \in Tls
      OBVIOUS
    <3>1. \A i \in k + 1 + 1 .. Len(u) : u[i] \in Tls
      BY <1>3, <1>6, <2>0
    <3>2. j + 1 \in k + 1 + 1 .. Len(u) /\ v[j] = u[j + 1]
      BY <1>1, <1>4, <2>0
    <3> QED BY <3>1, <3>2
  <2> QED BY <2>1, <2>2, <2>3, <2>4, <2>5
<1> QED BY <1>7, <1>8 DEF Shape

LEMMA AheadTail ==
  ASSUME NEW u \in Seq(Lines), u # <<>>, NEW b \in Backends, NEW c \in Backends, NEW m \in Modes,
         Shape(u, b), Ahead(u, b, m), Serves(b, u[1], c)
  PROVE  Ahead(Tail(u), c, m)
<1> DEFINE v == Tail(u)
<1>1. /\ Len(u) = Len(v) + 1 /\ Len(v) \in Nat /\ (v = <<>> <=> Len(v) = 0)
      /\ \A k \in 1 .. Len(v) : k + 1 \in 1 .. Len(u) /\ v[k] = u[k + 1]
      /\ 1 \in 1 .. Len(u) /\ (v # <<>> => Len(v) \in 1 .. Len(v))
      /\ \A k \in 1 .. Len(u) : k = 1 \/ (k - 1 \in 1 .. Len(v) /\ v[k - 1] = u[k])
  BY TailFacts
<1>2. /\ c = "bdat" <=> u[1] = "BDAT"
      /\ 1 \in AnsweredIn(u, b) <=> (b = "command" /\ u[1] \in Commands) \/ (b = "data" /\ u[1] = ".")
      /\ c = "data" <=> (b = "data" /\ u[1] # ".") \/ (c = "data" /\ u[1] = "DATA" /\ b = "command")
      /\ c = "tls" <=> b = "tls" \/ (c = "tls" /\ u[1] = "STARTTLS" /\ b = "command")
  BY FirstServed
<1>3. \A k \in Nat : k \in AnsweredIn(v, c) <=> k > 0 /\ k + 1 \in AnsweredIn(u, b)
  BY AnsweredTail
<1>4. \A k \in AnsweredIn(v, c) : k \in Nat /\ k \in 1 .. Len(v)
  BY DEF AnsweredIn
<1> HIDE DEF v
<1> SUFFICES Ahead(v, c, m)
  BY DEF v
<1>5. m # "tls" => \A k \in 1 .. Len(v) : v[k] \notin Tls
  BY <1>1 DEF Ahead
<1>6. m = "bdat" <=> IF v = <<>> THEN c = "bdat" ELSE v[Len(v)] = "BDAT"
  <2>1. v = <<>> => u[Len(u)] = u[1]
    BY <1>1
  <2>2. v # <<>> => v[Len(v)] = u[Len(u)]
    BY <1>1
  <2> QED BY <1>2, <2>1, <2>2 DEF Ahead
<1>7. m = "data" => c = "data" /\ \A k \in 1 .. Len(v) : v[k] # "."
  BY <1>1, <1>2 DEF Ahead
<1>8. ASSUME m \in {"command", "bdat"}
      PROVE  /\ c # "tls"
             /\ c = "data" => \E k \in 1 .. Len(v) : v[k] = "."
             /\ \A k \in AnsweredIn(v, c) : v[k] \notin {"DATA", "STARTTLS"}
  <2>1. /\ b # "tls"
        /\ b = "data" => \E k \in 1 .. Len(u) : u[k] = "."
        /\ \A k \in AnsweredIn(u, b) : u[k] \notin {"DATA", "STARTTLS"}
    BY <1>8 DEF Ahead
  <2>2. ~(b = "command" /\ u[1] \in {"DATA", "STARTTLS"})
    BY <1>2, <2>1 DEF Commands
  <2>3. \A k \in AnsweredIn(v, c) : v[k] \notin {"DATA", "STARTTLS"}
    BY <1>1, <1>3, <1>4, <2>1
  <2> QED BY <1>1, <1>2, <2>1, <2>2, <2>3
<1>9. ASSUME m = "wait", v # <<>>
      PROVE  v[Len(v)] \in {"DATA", "STARTTLS"} /\ Len(v) \in AnsweredIn(v, c)
  <2>1. u[Len(u)] \in {"DATA", "STARTTLS"} /\ Len(u) \in AnsweredIn(u, b)
    BY <1>9, <1>1 DEF Ahead
  <2> QED BY <1>1, <1>3, <1>9, <2>1
<1> QED BY <1>5, <1>6, <1>7, <1>8, <1>9 DEF Ahead

-----------------------------------------------------------------------------
(* What is owed: the replies d on their way, the one that a backend in      *)
(* state b is about to give unasked, and the lines u to be answered.        *)

Due(b) == IF b \in {"silent", "bdat"} THEN 1 ELSE 0

Count(d, b, u) == Cardinality(Finals(d)) + Due(b) + Cardinality(AnsweredIn(u, b))

\* They answer the list e.
Matches(e, d, b, u) ==
  /\ Len(e) = Count(d, b, u)
  /\ \A k \in Finals(d) : e[Rank(Finals(d), k)] = d[k].to
  /\ b = "silent" => e[Cardinality(Finals(d)) + 1] = "greeting"
  /\ b = "bdat" => e[Cardinality(Finals(d)) + 1] = "BDAT"
  /\ \A k \in AnsweredIn(u, b) :
       e[Cardinality(Finals(d)) + Due(b) + Rank(AnsweredIn(u, b), k)] = u[k]

Expectable == Commands \cup {".", "greeting"}

\* The end of a reply, whose other lines say that it goes on.
Whole(rs) == Final(rs[Len(rs)]) /\ \A k \in 1 .. Len(rs) - 1 : ~Final(rs[k])

\* What the backend sends when it reads t and goes from b to c.
RepliesTo(b, t, c, rs) ==
  /\ rs # <<>> <=> b = "bdat" \/ (b = "command" /\ t \in Commands \ {"BDAT"}) \/ (b = "data" /\ t = ".")
  /\ rs # <<>> => Whole(rs) /\ rs[Len(rs)].to = IF b = "bdat" THEN "BDAT" ELSE t

LEMMA FinalsIn ==
  ASSUME NEW d \in Seq(Replies)
  PROVE  /\ Len(d) \in Nat /\ Finals(d) \in SUBSET (1 .. Len(d))
         /\ \A k \in 1 .. Len(d) : d[k] \in Replies
BY DEF Finals

LEMMA AnsweredInIn ==
  ASSUME NEW u \in Seq(Lines), NEW b
  PROVE  Len(u) \in Nat /\ AnsweredIn(u, b) \in SUBSET (1 .. Len(u))
BY DEF AnsweredIn

LEMMA FinalsAppend ==
  ASSUME NEW d \in Seq(Replies), NEW rs \in Seq(Replies), rs # <<>>, Whole(rs)
  PROVE  LET v == d \o rs
         IN /\ v \in Seq(Replies) /\ Len(v) = Len(d) + Len(rs) /\ Len(v) > Len(d)
            /\ Finals(v) = Finals(d) \cup {Len(v)}
            /\ \A k \in 1 .. Len(d) : v[k] = d[k]
            /\ v[Len(v)] = rs[Len(rs)]
            /\ \A k \in 1 .. Len(v) : k \in 1 .. Len(d) \/ v[k] = rs[k - Len(d)]
<1> DEFINE v == d \o rs
<1>1. /\ v \in Seq(Replies) /\ Len(v) = Len(d) + Len(rs) /\ Len(d) \in Nat /\ Len(rs) \in Nat
      /\ \A k \in 1 .. Len(d) : v[k] = d[k]
      /\ \A k \in 1 .. Len(v) : k \in 1 .. Len(d) \/ v[k] = rs[k - Len(d)]
      /\ DOMAIN v = 1 .. Len(v) /\ DOMAIN d = 1 .. Len(d)
  OBVIOUS
<1>2. Len(rs) > 0
  BY <1>1
<1>3. Len(v) \in 1 .. Len(v) /\ Len(v) \notin 1 .. Len(d) /\ Len(v) - Len(d) = Len(rs) /\ Len(v) > Len(d)
  BY <1>1, <1>2
<1>4. \A k \in 1 .. Len(v) : k \in 1 .. Len(d) \/ k = Len(v) \/ k - Len(d) \in 1 .. Len(rs) - 1
  BY <1>1
<1>5. \A k \in 1 .. Len(d) : k \in 1 .. Len(v)
  BY <1>1
<1> HIDE DEF v
<1>6. Finals(v) = Finals(d) \cup {Len(v)}
  BY <1>1, <1>3, <1>4, <1>5 DEF Finals, Whole
<1> QED BY <1>1, <1>3, <1>6 DEF v

LEMMA FinalsTail ==
  ASSUME NEW d \in Seq(Replies), d # <<>>
  PROVE  LET v == Tail(d)
         IN /\ v \in Seq(Replies) /\ Len(d) = Len(v) + 1 /\ Len(v) \in Nat /\ d[1] \in Replies
            /\ \A k \in 1 .. Len(v) : v[k] = d[k + 1]
            /\ \A i \in Nat : i \in Finals(v) <=> i > 0 /\ i + 1 \in Finals(d)
            /\ 1 \in Finals(d) <=> Final(d[1])
            /\ (v = <<>> <=> Len(v) = 0)
<1> DEFINE v == Tail(d)
<1>1. v \in Seq(Replies) /\ Len(d) \in Nat \ {0} /\ Len(v) = Len(d) - 1
  OBVIOUS
<1>2. \A k \in 1 .. Len(d) - 1 : v[k] = d[k + 1]
  OBVIOUS
<1>3. DOMAIN v = 1 .. Len(v) /\ DOMAIN d = 1 .. Len(d) /\ d[1] \in Replies
  BY <1>1
<1>4. v = <<>> <=> Len(v) = 0
  BY <1>1, EmptySeq
<1> HIDE DEF v
<1>5. \A i \in Nat : i \in Finals(v) <=> i > 0 /\ i + 1 \in Finals(d)
  <2> SUFFICES ASSUME NEW i \in Nat PROVE i \in Finals(v) <=> i > 0 /\ i + 1 \in Finals(d)
    OBVIOUS
  <2>1. i \in 1 .. Len(v) <=> i > 0 /\ i + 1 \in 1 .. Len(d)
    BY <1>1
  <2> QED BY <1>1, <1>2, <1>3, <2>1 DEF Finals
<1>6. 1 \in Finals(d) <=> Final(d[1])
  BY <1>1, <1>3 DEF Finals
<1> QED BY <1>1, <1>2, <1>3, <1>4, <1>5, <1>6 DEF v

\* A count, and the places of the three kinds in the list.
LEMMA CountFacts ==
  ASSUME NEW d \in Seq(Replies), NEW b, NEW u \in Seq(Lines)
  PROVE  LET D == Cardinality(Finals(d))
             I == AnsweredIn(u, b)
         IN /\ D \in Nat /\ Due(b) \in {0, 1} /\ Cardinality(I) \in Nat
            /\ Count(d, b, u) = D + Due(b) + Cardinality(I) /\ Count(d, b, u) \in Nat
            /\ \A k \in Finals(d) : Rank(Finals(d), k) \in 1 .. D
            /\ \A k \in I : Rank(I, k) \in 1 .. Cardinality(I)
            /\ I = {} => Cardinality(I) = 0
            /\ D = 0 => Finals(d) = {}
            /\ Cardinality(I) = 0 => I = {}
<1> DEFINE D == Cardinality(Finals(d))
           I == AnsweredIn(u, b)
           F == Finals(d)
<1>1. Len(d) \in Nat /\ F \in SUBSET (1 .. Len(d)) /\ Len(u) \in Nat /\ I \in SUBSET (1 .. Len(u))
  BY FinalsIn, AnsweredInIn
<1>2. /\ IsFiniteSet(F) /\ Cardinality(F) \in Nat
      /\ \A k \in Nat : Rank(F, k) \in Nat /\ Rank(F, k) <= Cardinality(F)
      /\ \A k \in F : Rank(F, k) >= 1
  BY <1>1, RankFacts
<1>3. /\ IsFiniteSet(I) /\ Cardinality(I) \in Nat
      /\ \A k \in Nat : Rank(I, k) \in Nat /\ Rank(I, k) <= Cardinality(I)
      /\ \A k \in I : Rank(I, k) >= 1
  BY <1>1, RankFacts
<1>4. (\A k \in F : k \in Nat) /\ (\A k \in I : k \in Nat)
  BY <1>1
<1>5. (I = {} => Cardinality(I) = 0) /\ (Cardinality(F) = 0 => F = {}) /\ (Cardinality(I) = 0 => I = {})
  BY <1>2, <1>3, FS_EmptySet
<1>6. Due(b) \in {0, 1}
  BY DEF Due
<1> HIDE DEF F, I
<1>7. ASSUME NEW k \in F PROVE Rank(F, k) \in 1 .. Cardinality(F)
  BY <1>2, <1>4
<1>8. ASSUME NEW k \in I PROVE Rank(I, k) \in 1 .. Cardinality(I)
  BY <1>3, <1>4
<1>9. Count(d, b, u) = Cardinality(F) + Due(b) + Cardinality(I)
  BY DEF Count, F, I
<1>10. Count(d, b, u) \in Nat
  <2>1. \A x, y, z \in Nat : x + y + z \in Nat
    OBVIOUS
  <2>2. Due(b) \in Nat
    BY <1>6
  <2>3. Cardinality(F) \in Nat
    BY <1>2
  <2>4. Cardinality(I) \in Nat
    BY <1>3
  <2>5. Cardinality(F) + Due(b) + Cardinality(I) \in Nat
    BY <2>1, <2>2, <2>3, <2>4, Zenon
  <2> QED BY <1>9, <2>5
<1> QED BY <1>2, <1>3, <1>5, <1>6, <1>7, <1>8, <1>9, <1>10 DEF F, I

LEMMA RankFirst ==
  ASSUME NEW I \in SUBSET Nat, 0 \notin I, 1 \in I
  PROVE  Rank(I, 1) = 1
<1>1. \A i \in I : i <= 1 <=> i = 1
  <2>1. ASSUME NEW i \in I PROVE i <= 1 <=> i = 1
    <3>1. i \in Nat /\ i # 0
      OBVIOUS
    <3> QED BY <3>1
  <2> QED BY <2>1
<1>3. {i \in I : i <= 1} = {1}
  BY <1>1, Zenon
<1>2. Cardinality({1}) = 1
  BY FS_Singleton
<1> QED BY <1>2, <1>3 DEF Rank

\* The client sends a line.
LEMMA CountSent ==
  ASSUME NEW d \in Seq(Replies), NEW u \in Seq(Lines), NEW b \in Backends, NEW m \in Modes,
         NEW t \in Lines, Shape(u, b), Ahead(u, b, m), t \in Sendable(m)
  PROVE  Count(d, b, Append(u, t)) = Count(d, b, u) + (IF IsOwed(m, t) THEN 1 ELSE 0)
<1>1. AnsweredIn(Append(u, t), b) = AnsweredIn(u, b) \cup (IF IsOwed(m, t) THEN {Len(u) + 1} ELSE {})
  BY AnsweredAppend
<1>2. Len(u) \in Nat /\ AnsweredIn(u, b) \in SUBSET (1 .. Len(u))
  BY AnsweredInIn
<1>3. Cardinality(AnsweredIn(u, b) \cup {Len(u) + 1}) = Cardinality(AnsweredIn(u, b)) + 1
  <2>1. Len(u) + 1 \in Nat /\ Len(u) + 1 > Len(u)
    BY <1>2
  <2> QED BY <1>2, <2>1, RankAppend
<1>4. /\ Cardinality(Finals(d)) \in Nat /\ Due(b) \in {0, 1}
      /\ Cardinality(AnsweredIn(u, b)) \in Nat
  BY CountFacts
<1>5. CASE IsOwed(m, t)
  BY <1>1, <1>3, <1>4, <1>5 DEF Count
<1>6. CASE ~IsOwed(m, t)
  <2>1. AnsweredIn(Append(u, t), b) = AnsweredIn(u, b)
    BY <1>1, <1>6
  <2> QED BY <1>4, <1>6, <2>1 DEF Count
<1> QED BY <1>5, <1>6

LEMMA MatchesSent ==
  ASSUME NEW d \in Seq(Replies), NEW u \in Seq(Lines), NEW b \in Backends, NEW m \in Modes,
         NEW t \in Lines, Shape(u, b), Ahead(u, b, m), t \in Sendable(m),
         NEW e \in Seq(Expectable), Matches(e, d, b, u)
  PROVE  Matches(IF IsOwed(m, t) THEN Append(e, t) ELSE e, d, b, Append(u, t))
<1> DEFINE I == AnsweredIn(u, b)
           D == Cardinality(Finals(d))
           v == Append(u, t)
           n == Len(u) + 1
<1>1. AnsweredIn(v, b) = I \cup (IF IsOwed(m, t) THEN {n} ELSE {})
  BY AnsweredAppend
<1>2. /\ D \in Nat /\ Due(b) \in {0, 1} /\ Cardinality(I) \in Nat
      /\ Count(d, b, u) = D + Due(b) + Cardinality(I)
      /\ \A k \in Finals(d) : Rank(Finals(d), k) \in 1 .. D
      /\ \A k \in I : Rank(I, k) \in 1 .. Cardinality(I)
  BY CountFacts
<1>3. \A k \in I : v[k] = u[k]
  <2>1. \A k \in I : k \in 1 .. Len(u)
    BY AnsweredInIn
  <2> QED BY <2>1, AppendFacts
<1>4. v[n] = t
  BY AppendFacts
<1>5. Count(d, b, v) = Count(d, b, u) + (IF IsOwed(m, t) THEN 1 ELSE 0)
  BY CountSent
<1>6. /\ Len(e) = Count(d, b, u)
      /\ \A k \in Finals(d) : e[Rank(Finals(d), k)] = d[k].to
      /\ b = "silent" => e[D + 1] = "greeting"
      /\ b = "bdat" => e[D + 1] = "BDAT"
      /\ \A k \in I : e[D + Due(b) + Rank(I, k)] = u[k]
  BY DEF Matches
<1>7. CASE IsOwed(m, t)
  <2> DEFINE f == Append(e, t)
             J == I \cup {n}
  <2>a. t \in Expectable
    BY <1>7 DEF IsOwed, Expectable
  <2>1. Len(f) = Len(e) + 1 /\ f[Len(e) + 1] = t /\ \A i \in 1 .. Len(e) : f[i] = e[i]
    BY <2>a
  <2>2. Rank(J, n) = Cardinality(I) + 1 /\ \A k \in I : Rank(J, k) = Rank(I, k)
    <3>1. Len(u) \in Nat /\ I \in SUBSET (1 .. Len(u)) /\ n \in Nat /\ n > Len(u)
      BY AnsweredInIn
    <3> QED BY <3>1, RankAppend
  <2> HIDE DEF f, J, I, D, v, n
  <2>3. AnsweredIn(v, b) = J
    BY <1>1, <1>7 DEF J
  <2>4. Len(f) = Count(d, b, v)
    BY <1>5, <1>6, <1>7, <2>1
  <2>5. \A k \in Finals(d) : f[Rank(Finals(d), k)] = d[k].to
    <3> SUFFICES ASSUME NEW k \in Finals(d) PROVE f[Rank(Finals(d), k)] = d[k].to
      OBVIOUS
    <3>1. Rank(Finals(d), k) \in 1 .. D
      BY <1>2
    <3>2. Rank(Finals(d), k) \in 1 .. Len(e)
      BY <1>2, <1>6, <3>1
    <3> QED BY <1>6, <2>1, <3>2
  <2>6. b \in {"silent", "bdat"} => f[D + 1] = e[D + 1]
    <3>1. b \in {"silent", "bdat"} => D + 1 \in 1 .. Len(e)
      BY <1>2, <1>6 DEF Due
    <3> QED BY <2>1, <3>1
  <2>7. \A k \in J : f[D + Due(b) + Rank(J, k)] = v[k]
    <3>1. ASSUME NEW k \in I PROVE f[D + Due(b) + Rank(J, k)] = v[k]
      <4>1. Rank(I, k) \in 1 .. Cardinality(I) /\ Rank(J, k) = Rank(I, k)
        BY <1>2, <2>2
      <4>2. D + Due(b) + Rank(I, k) \in 1 .. Len(e)
        BY <1>2, <1>6, <4>1
      <4> QED BY <1>3, <1>6, <2>1, <4>1, <4>2
    <3>2. f[D + Due(b) + Rank(J, n)] = v[n]
      <4>1. D + Due(b) + Rank(J, n) = Len(e) + 1
        <5>1. D \in Nat /\ Due(b) \in Nat /\ Cardinality(I) \in Nat
          BY <1>2
        <5>2. Len(e) = D + Due(b) + Cardinality(I)
          BY <1>2, <1>6
        <5>3. Rank(J, n) = Cardinality(I) + 1
          BY <2>2
        <5> QED BY <5>1, <5>2, <5>3
      <4> QED BY <1>4, <2>1, <4>1
    <3> QED BY <3>1, <3>2 DEF J
  <2>8. Matches(f, d, b, v)
    BY <1>6, <2>3, <2>4, <2>5, <2>6, <2>7 DEF Matches, D
  <2> QED BY <1>7, <2>8 DEF f, v
<1>8. CASE ~IsOwed(m, t)
  <2> HIDE DEF I, D, v, n
  <2>1. AnsweredIn(v, b) = I /\ Count(d, b, v) = Count(d, b, u)
    BY <1>1, <1>2, <1>5, <1>8
  <2>2. Matches(e, d, b, v)
    BY <1>3, <1>6, <2>1 DEF Matches, D
  <2> QED BY <1>8, <2>2 DEF v
<1> QED BY <1>7, <1>8

\* Cardinalities and ranks once the backend has read the first line.
LEMMA TailRanks ==
  ASSUME NEW u \in Seq(Lines), u # <<>>, NEW b \in Backends, NEW c \in Backends,
         Shape(u, b), Serves(b, u[1], c)
  PROVE  LET I == AnsweredIn(u, b)
             J == AnsweredIn(Tail(u), c)
             x == IF 1 \in I THEN 1 ELSE 0
         IN /\ Cardinality(J) = Cardinality(I) - x
            /\ \A k \in Nat : Rank(J, k) = Rank(I, k + 1) - x
            /\ 1 \in I => Rank(I, 1) = 1
<1> DEFINE I == AnsweredIn(u, b)
           J == AnsweredIn(Tail(u), c)
<1>1. Len(u) \in Nat /\ I \in SUBSET (1 .. Len(u))
  BY AnsweredInIn
<1>2. J \in SUBSET (1 .. Len(u))
  <2>1. Len(Tail(u)) \in Nat /\ Len(u) = Len(Tail(u)) + 1
    BY TailFacts
  <2>2. J \in SUBSET (1 .. Len(Tail(u)))
    BY DEF AnsweredIn
  <2> HIDE DEF J
  <2> QED BY <2>1, <2>2
<1>3. \A i \in Nat : i \in J <=> i > 0 /\ i + 1 \in I
  BY AnsweredTail
<1>4. 1 \in I => Rank(I, 1) = 1
  <2>1. I \in SUBSET Nat /\ 0 \notin I
    BY <1>1
  <2> QED BY <2>1, RankFirst
<1> HIDE DEF I, J
<1>5. LET x == IF 1 \in I THEN 1 ELSE 0
      IN /\ Cardinality(J) = Cardinality(I) - x
         /\ \A k \in Nat : Rank(J, k) = Rank(I, k + 1) - x
  <2> DEFINE n == Len(u)
  <2>1. n \in Nat /\ I \in SUBSET (1 .. n) /\ J \in SUBSET (1 .. n)
    BY <1>1, <1>2
  <2> HIDE DEF n
  <2> QED BY <1>3, <2>1, RankShift, ZenonT(20)
<1> QED BY <1>4, <1>5 DEF I, J

\* The reply to the first line, if it is due, is on its way; nothing is owed that was not.
LEMMA ServedDue ==
  ASSUME NEW u \in Seq(Lines), u # <<>>, NEW b \in Backends, NEW c \in Backends,
         Shape(u, b), Serves(b, u[1], c), NEW rs, RepliesTo(b, u[1], c, rs)
  PROVE  (IF rs # <<>> THEN 1 ELSE 0) + Due(c)
           = Due(b) + (IF 1 \in AnsweredIn(u, b) THEN 1 ELSE 0)
<1>1. /\ c = "bdat" <=> u[1] = "BDAT"
      /\ 1 \in AnsweredIn(u, b) <=> (b = "command" /\ u[1] \in Commands) \/ (b = "data" /\ u[1] = ".")
  BY FirstServed
<1>2. /\ b = "command" => c # "silent" /\ (c = "bdat" <=> u[1] = "BDAT")
      /\ b # "command" => c \notin {"silent", "bdat"} /\ b # "silent"
  BY DEF Serves, Tls
<1>3. rs # <<>> <=> b = "bdat" \/ (b = "command" /\ u[1] \in Commands \ {"BDAT"}) \/ (b = "data" /\ u[1] = ".")
  BY DEF RepliesTo
<1>4. CASE b = "command"
  BY <1>1, <1>2, <1>3, <1>4 DEF Due, Commands
<1>5. CASE b # "command"
  BY <1>1, <1>2, <1>3, <1>5 DEF Due, Backends
<1> QED BY <1>4, <1>5

LEMMA FinalsMore ==
  ASSUME NEW d \in Seq(Replies), NEW rs \in Seq(Replies), rs # <<>> => Whole(rs)
  PROVE  LET D == Finals(d)
             E == Finals(d \o rs)
         IN /\ Cardinality(E) = Cardinality(D) + (IF rs # <<>> THEN 1 ELSE 0)
            /\ \A k \in D : Rank(E, k) = Rank(D, k) /\ (d \o rs)[k] = d[k]
            /\ \A k \in E : k \in D \/ (rs # <<>> /\ Rank(E, k) = Cardinality(D) + 1
                                          /\ (d \o rs)[k] = rs[Len(rs)])
            /\ d \o rs \in Seq(Replies)
<1> DEFINE D == Finals(d)
           v == d \o rs
<1>1. Len(d) \in Nat /\ D \in SUBSET (1 .. Len(d)) /\ IsFiniteSet(D) /\ Cardinality(D) \in Nat
  BY FinalsIn, RankFacts
<1>2. CASE rs = <<>>
  <2>1. v = d
    BY <1>2
  <2> QED BY <1>1, <1>2, <2>1
<1>3. CASE rs # <<>>
  <2>1. /\ v \in Seq(Replies) /\ Len(v) \in Nat /\ Len(v) > Len(d)
        /\ Finals(v) = D \cup {Len(v)}
        /\ \A k \in 1 .. Len(d) : v[k] = d[k]
        /\ v[Len(v)] = rs[Len(rs)]
    BY <1>3, FinalsAppend
  <2>2. /\ Cardinality(D \cup {Len(v)}) = Cardinality(D) + 1
        /\ Rank(D \cup {Len(v)}, Len(v)) = Cardinality(D) + 1
        /\ \A k \in D : Rank(D \cup {Len(v)}, k) = Rank(D, k)
    BY <1>1, <2>1, RankAppend
  <2> HIDE DEF D, v
  <2>3. \A k \in D : v[k] = d[k]
    BY <1>1, <2>1
  <2> QED BY <1>3, <2>1, <2>2, <2>3 DEF D, v
<1> QED BY <1>2, <1>3

LEMMA CountServed ==
  ASSUME NEW d \in Seq(Replies), NEW u \in Seq(Lines), u # <<>>,
         NEW b \in Backends, NEW c \in Backends, Shape(u, b), Serves(b, u[1], c),
         NEW rs \in Seq(Replies), RepliesTo(b, u[1], c, rs)
  PROVE  Count(d \o rs, c, Tail(u)) = Count(d, b, u)
<1> DEFINE I == Cardinality(AnsweredIn(u, b))
           J == Cardinality(AnsweredIn(Tail(u), c))
           D == Cardinality(Finals(d))
           E == Cardinality(Finals(d \o rs))
           x == IF 1 \in AnsweredIn(u, b) THEN 1 ELSE 0
           y == IF rs # <<>> THEN 1 ELSE 0
<1>1. D \in Nat /\ Due(b) \in {0, 1} /\ I \in Nat
  BY CountFacts
<1>2. J = I - x
  BY TailRanks
<1>3. E = D + y
  BY FinalsMore DEF RepliesTo
<1>4. y + Due(c) = Due(b) + x
  BY ServedDue
<1>5. Due(c) \in {0, 1} /\ x \in {0, 1} /\ y \in {0, 1}
  BY DEF Due
<1> HIDE DEF I, J, D, E, x, y
<1>6. E + Due(c) + J = D + Due(b) + I
  <2>1. CASE x = 0 /\ y = 0
    BY <1>1, <1>2, <1>3, <1>4, <1>5, <2>1
  <2>2. CASE x = 1 /\ y = 0
    <3>1. J = I - 1
      BY <1>2, <2>2
    <3>2. E = D
      BY <1>1, <1>3, <2>2
    <3>3. Due(c) = Due(b) + 1
      BY <1>1, <1>4, <1>5, <2>2
    <3>4. Due(c) = 1 /\ Due(b) = 0
      BY <1>1, <1>5, <3>3
    <3> QED BY <1>1, <3>1, <3>2, <3>4
  <2>3. CASE x = 0 /\ y = 1
    BY <1>1, <1>2, <1>3, <1>4, <1>5, <2>3
  <2>4. CASE x = 1 /\ y = 1
    <3>1. J = I - 1
      BY <1>2, <2>4
    <3>2. E = D + 1
      BY <1>3, <2>4
    <3>3. Due(c) = Due(b)
      BY <1>1, <1>4, <1>5, <2>4
    <3> QED BY <1>1, <3>1, <3>2, <3>3
  <2> QED BY <1>5, <2>1, <2>2, <2>3, <2>4
<1> QED BY <1>6 DEF Count, I, J, D, E

LEMMA MatchesServed ==
  ASSUME NEW d \in Seq(Replies), NEW u \in Seq(Lines), u # <<>>,
         NEW b \in Backends, NEW c \in Backends, Shape(u, b), Serves(b, u[1], c),
         NEW rs \in Seq(Replies), RepliesTo(b, u[1], c, rs),
         NEW e, Matches(e, d, b, u)
  PROVE  Matches(e, d \o rs, c, Tail(u))
<1> DEFINE F == Finals(d)
           G == Finals(d \o rs)
           I == AnsweredIn(u, b)
           J == AnsweredIn(Tail(u), c)
           D == Cardinality(F)
           E == Cardinality(G)
           v == Tail(u)
           w == d \o rs
           x == IF 1 \in I THEN 1 ELSE 0
           y == IF rs # <<>> THEN 1 ELSE 0
<1>1. /\ D \in Nat /\ Due(b) \in {0, 1} /\ Cardinality(I) \in Nat
      /\ \A k \in I : Rank(I, k) \in 1 .. Cardinality(I)
  BY CountFacts
<1>2. /\ \A k \in Nat : Rank(J, k) = Rank(I, k + 1) - x
      /\ 1 \in I => Rank(I, 1) = 1
  BY TailRanks
<1>3. /\ E = D + y
      /\ \A k \in F : Rank(G, k) = Rank(F, k) /\ w[k] = d[k]
      /\ \A k \in G : k \in F \/ (rs # <<>> /\ Rank(G, k) = D + 1 /\ w[k] = rs[Len(rs)])
  BY FinalsMore DEF RepliesTo
<1>4. y + Due(c) = Due(b) + x
  BY ServedDue
<1>5. \A k \in J : k \in Nat /\ k + 1 \in I /\ v[k] = u[k + 1]
  <2>1. \A k \in J : k \in 1 .. Len(v)
    BY DEF AnsweredIn
  <2>2. \A k \in 1 .. Len(v) : k \in Nat /\ v[k] = u[k + 1]
    BY TailFacts
  <2>3. \A k \in Nat : k \in J => k + 1 \in I
    BY AnsweredTail
  <2> HIDE DEF J, I, v
  <2> QED BY <2>1, <2>2, <2>3
<1>6. /\ Len(e) = Count(d, b, u)
      /\ \A k \in F : e[Rank(F, k)] = d[k].to
      /\ b = "bdat" => e[D + 1] = "BDAT"
      /\ \A k \in I : e[D + Due(b) + Rank(I, k)] = u[k]
  BY DEF Matches
<1>7. Count(w, c, v) = Count(d, b, u)
  BY CountServed
<1>8. /\ c = "bdat" <=> u[1] = "BDAT"
      /\ 1 \in I <=> (b = "command" /\ u[1] \in Commands) \/ (b = "data" /\ u[1] = ".")
  BY FirstServed
<1>9. /\ rs # <<>> <=> b = "bdat" \/ (b = "command" /\ u[1] \in Commands \ {"BDAT"}) \/ (b = "data" /\ u[1] = ".")
      /\ rs # <<>> => rs[Len(rs)].to = IF b = "bdat" THEN "BDAT" ELSE u[1]
  BY DEF RepliesTo
<1>10. c # "silent" /\ (c = "bdat" => b = "command")
  BY DEF Serves
<1>11. Due(c) \in {0, 1} /\ x \in {0, 1} /\ y \in {0, 1} /\ (x = 1 <=> 1 \in I) /\ (y = 1 <=> rs # <<>>)
       /\ (Due(b) = 1 <=> b \in {"silent", "bdat"})
  BY DEF Due
<1> HIDE DEF F, G, I, J, D, E, v, w, x, y
\* The first line's place in e, if it is to be answered.
<1>12. 1 \in I => e[D + Due(b) + 1] = u[1]
  <2> SUFFICES ASSUME 1 \in I PROVE e[D + Due(b) + 1] = u[1]
    OBVIOUS
  <2>1. Rank(I, 1) = 1
    BY <1>2
  <2>2. e[D + Due(b) + Rank(I, 1)] = u[1]
    BY <1>6
  <2> QED BY <2>1, <2>2
<1>13. \A k \in G : e[Rank(G, k)] = w[k].to
  <2> SUFFICES ASSUME NEW k \in G PROVE e[Rank(G, k)] = w[k].to
    OBVIOUS
  <2>1. CASE k \in F
    BY <1>3, <1>6, <2>1
  <2>2. CASE k \notin F
    <3>1. rs # <<>> /\ Rank(G, k) = D + 1 /\ w[k] = rs[Len(rs)]
      BY <1>3, <2>2
    <3>2. CASE b = "bdat"
      BY <1>6, <1>9, <3>1, <3>2
    <3>3. CASE b # "bdat"
      <4>1. 1 \in I /\ b \notin {"silent", "bdat"}
        BY <1>8, <1>9, <3>1, <3>3
      <4>2. Due(b) = 0
        BY <1>1, <1>11, <4>1
      <4>3. e[D + 1] = u[1]
        BY <1>1, <1>12, <4>1, <4>2
      <4> QED BY <1>9, <3>1, <3>3, <4>3
    <3> QED BY <3>2, <3>3
  <2> QED BY <2>1, <2>2
<1>14. c = "bdat" => e[E + 1] = "BDAT"
  <2> SUFFICES ASSUME c = "bdat" PROVE e[E + 1] = "BDAT"
    OBVIOUS
  <2>1. b = "command" /\ u[1] = "BDAT" /\ 1 \in I /\ rs = <<>>
    BY <1>8, <1>9, <1>10 DEF Commands
  <2>2. Due(b) = 0 /\ y = 0
    BY <1>1, <1>11, <2>1
  <2> QED BY <1>1, <1>3, <1>12, <2>1, <2>2
<1>15. \A k \in J : e[E + Due(c) + Rank(J, k)] = v[k]
  <2> SUFFICES ASSUME NEW k \in J PROVE e[E + Due(c) + Rank(J, k)] = v[k]
    OBVIOUS
  <2>1. k \in Nat /\ k + 1 \in I /\ v[k] = u[k + 1]
    BY <1>5
  <2>2. Rank(J, k) = Rank(I, k + 1) - x /\ Rank(I, k + 1) \in Int
    BY <1>1, <1>2, <2>1
  <2>3. E + Due(c) + Rank(J, k) = D + Due(b) + Rank(I, k + 1)
    <3>1. E + Due(c) = D + Due(b) + x
      <4>1. CASE y = 0
        BY <1>1, <1>3, <1>4, <1>11, <4>1
      <4>2. CASE y = 1
        BY <1>1, <1>3, <1>4, <1>11, <4>2
      <4> QED BY <1>11, <4>1, <4>2
    <3>2. CASE x = 0
      BY <1>1, <2>2, <3>1, <3>2
    <3>3. CASE x = 1
      BY <1>1, <2>2, <3>1, <3>3
    <3> QED BY <1>11, <3>2, <3>3
  <2>4. e[D + Due(b) + Rank(I, k + 1)] = u[k + 1]
    BY <1>6, <2>1
  <2> QED BY <2>1, <2>3, <2>4
<1> QED BY <1>6, <1>7, <1>10, <1>13, <1>14, <1>15 DEF Matches, E, G, J, v, w

\* The greeting.
LEMMA AlikeSilent ==
  ASSUME NEW u
  PROVE  /\ AnsweredIn(u, "silent") = AnsweredIn(u, "command")
         /\ Shape(u, "silent") => Shape(u, "command")
         /\ \A m : Ahead(u, "silent", m) => Ahead(u, "command", m)
<1>1. \A k : Answered(u, "silent", k) <=> Answered(u, "command", k)
  BY DEF Answered
<1>2. AnsweredIn(u, "silent") = AnsweredIn(u, "command")
  BY <1>1 DEF AnsweredIn
<1>3. Shape(u, "silent") => Shape(u, "command")
  BY <1>1 DEF Shape
<1>4. \A m : Ahead(u, "silent", m) => Ahead(u, "command", m)
  BY <1>2 DEF Ahead
<1> QED BY <1>2, <1>3, <1>4

LEMMA Greeted ==
  ASSUME NEW d \in Seq(Replies), NEW u \in Seq(Lines)
  PROVE  LET w == d \o <<Reply("220", "greeting")>>
         IN /\ w \in Seq(Replies)
            /\ Count(w, "command", u) = Count(d, "silent", u)
            /\ \A e : Matches(e, d, "silent", u) => Matches(e, w, "command", u)
<1> DEFINE rs == <<Reply("220", "greeting")>>
           w == d \o rs
           F == Finals(d)
           G == Finals(w)
           I == AnsweredIn(u, "silent")
           J == AnsweredIn(u, "command")
<1>1. rs \in Seq(Replies) /\ rs # <<>> /\ Whole(rs) /\ rs[Len(rs)] = rs[1] /\ rs[1].to = "greeting"
  BY DEF Whole, Final, Reply, Replies, Codes
<1> HIDE DEF rs
<1>2. /\ Cardinality(G) = Cardinality(F) + 1
      /\ \A k \in F : Rank(G, k) = Rank(F, k) /\ w[k] = d[k]
      /\ \A k \in G : k \in F \/ (Rank(G, k) = Cardinality(F) + 1 /\ w[k] = rs[Len(rs)])
      /\ w \in Seq(Replies)
  <2>1. rs \in Seq(Replies) /\ rs # <<>> /\ Whole(rs)
    BY <1>1
  <2>2. /\ Cardinality(Finals(d \o rs)) = Cardinality(Finals(d)) + (IF rs # <<>> THEN 1 ELSE 0)
        /\ \A k \in Finals(d) : Rank(Finals(d \o rs), k) = Rank(Finals(d), k) /\ (d \o rs)[k] = d[k]
        /\ \A k \in Finals(d \o rs) :
             k \in Finals(d) \/ (rs # <<>> /\ Rank(Finals(d \o rs), k) = Cardinality(Finals(d)) + 1
                                /\ (d \o rs)[k] = rs[Len(rs)])
        /\ d \o rs \in Seq(Replies)
    BY <2>1, FinalsMore
  <2> HIDE DEF F, G, w
  <2> QED BY <2>1, <2>2, Zenon DEF F, G, w
<1>3. I = J
  BY AlikeSilent
<1>4. Cardinality(F) \in Nat /\ Cardinality(I) \in Nat
  BY CountFacts
<1>5. Due("silent") = 1 /\ Due("command") = 0
  BY DEF Due
<1> HIDE DEF F, G, I, J, w
<1>6. Cardinality(G) + Due("command") = Cardinality(F) + Due("silent")
  BY <1>2, <1>4, <1>5
<1>7. Count(w, "command", u) = Count(d, "silent", u)
  BY <1>3, <1>6 DEF Count, F, G, I, J
<1>8. ASSUME NEW e, Matches(e, d, "silent", u) PROVE Matches(e, w, "command", u)
  <2>1. /\ Len(e) = Count(d, "silent", u)
        /\ \A k \in F : e[Rank(F, k)] = d[k].to
        /\ e[Cardinality(F) + 1] = "greeting"
        /\ \A k \in I : e[Cardinality(F) + Due("silent") + Rank(I, k)] = u[k]
    BY <1>8 DEF Matches, F, I
  <2>2. \A k \in G : e[Rank(G, k)] = w[k].to
    BY <1>1, <1>2, <2>1
  <2>3. \A k \in J : e[Cardinality(G) + Due("command") + Rank(J, k)] = u[k]
    BY <1>3, <1>6, <2>1
  <2> QED BY <1>7, <2>1, <2>2, <2>3 DEF Matches, G, J
<1> QED BY <1>2, <1>7, <1>8 DEF rs, w

\* The server's pump reads the first reply.
LEMMA TailFinals ==
  ASSUME NEW d \in Seq(Replies), d # <<>>
  PROVE  LET x == IF Final(d[1]) THEN 1 ELSE 0
         IN /\ Cardinality(Finals(Tail(d))) = Cardinality(Finals(d)) - x
            /\ \A k \in Nat : Rank(Finals(Tail(d)), k) = Rank(Finals(d), k + 1) - x
            /\ Final(d[1]) => 1 \in Finals(d) /\ Rank(Finals(d), 1) = 1
<1> DEFINE I == Finals(d)
           J == Finals(Tail(d))
<1>1. Len(d) \in Nat /\ I \in SUBSET (1 .. Len(d))
  BY FinalsIn
<1>2. /\ Tail(d) \in Seq(Replies) /\ Len(d) = Len(Tail(d)) + 1 /\ Len(Tail(d)) \in Nat
      /\ \A i \in Nat : i \in J <=> i > 0 /\ i + 1 \in I
      /\ 1 \in I <=> Final(d[1])
  BY FinalsTail
<1>3. J \in SUBSET (1 .. Len(Tail(d)))
  BY <1>2, FinalsIn
<1>4. 1 \in I => Rank(I, 1) = 1
  <2>1. I \in SUBSET Nat /\ 0 \notin I
    BY <1>1
  <2> QED BY <2>1, RankFirst
<1> HIDE DEF I, J
<1>5. J \in SUBSET (1 .. Len(d))
  BY <1>2, <1>3
<1>6. LET x == IF 1 \in I THEN 1 ELSE 0
      IN /\ Cardinality(J) = Cardinality(I) - x
         /\ \A k \in Nat : Rank(J, k) = Rank(I, k + 1) - x
  BY <1>1, <1>2, <1>5, RankShift
<1> QED BY <1>2, <1>4, <1>6 DEF I, J

LEMMA CountRead ==
  ASSUME NEW d \in Seq(Replies), d # <<>>, NEW b \in Backends, NEW u \in Seq(Lines)
  PROVE  Count(Tail(d), b, u) = Count(d, b, u) - (IF Final(d[1]) THEN 1 ELSE 0)
<1>1. Cardinality(Finals(Tail(d))) = Cardinality(Finals(d)) - (IF Final(d[1]) THEN 1 ELSE 0)
  BY TailFinals
<1>2. /\ Cardinality(Finals(d)) \in Nat /\ Due(b) \in {0, 1}
      /\ Cardinality(AnsweredIn(u, b)) \in Nat
  BY CountFacts
<1>3. /\ Count(Tail(d), b, u) = Cardinality(Finals(Tail(d))) + Due(b) + Cardinality(AnsweredIn(u, b))
      /\ Count(d, b, u) = Cardinality(Finals(d)) + Due(b) + Cardinality(AnsweredIn(u, b))
  BY Zenon DEF Count
<1> DEFINE x == IF Final(d[1]) THEN 1 ELSE 0
<1>4. x \in {0, 1}
  OBVIOUS
<1>5. Cardinality(Finals(Tail(d))) = Cardinality(Finals(d)) - x
  BY <1>1
<1>6. Count(Tail(d), b, u) = Count(d, b, u) - x
  <2> HIDE DEF x
  <2> QED BY <1>2, <1>3, <1>4, <1>5
<1> QED BY <1>6

LEMMA MatchesRead ==
  ASSUME NEW d \in Seq(Replies), d # <<>>, NEW b \in Backends, NEW u \in Seq(Lines),
         NEW e \in Seq(Expectable), Matches(e, d, b, u)
  PROVE  /\ Final(d[1]) => e # <<>> /\ e[1] = d[1].to
         /\ Matches(IF Final(d[1]) THEN Tail(e) ELSE e, Tail(d), b, u)
<1> DEFINE I == Finals(d)
           J == Finals(Tail(d))
           A == AnsweredIn(u, b)
           x == IF Final(d[1]) THEN 1 ELSE 0
           f == IF Final(d[1]) THEN Tail(e) ELSE e
           v == Tail(d)
<1>1. /\ Cardinality(J) = Cardinality(I) - x
      /\ \A k \in Nat : Rank(J, k) = Rank(I, k + 1) - x
      /\ Final(d[1]) => 1 \in I /\ Rank(I, 1) = 1
  BY TailFinals
<1>2. /\ Cardinality(I) \in Nat /\ Due(b) \in {0, 1} /\ Cardinality(A) \in Nat
      /\ Count(d, b, u) = Cardinality(I) + Due(b) + Cardinality(A)
      /\ \A k \in I : Rank(I, k) \in 1 .. Cardinality(I)
      /\ \A k \in A : Rank(A, k) \in 1 .. Cardinality(A)
  BY CountFacts
<1>3. v \in Seq(Replies) /\ \A k \in J : k \in Nat /\ k + 1 \in I /\ k > 0 /\ v[k] = d[k + 1]
  <2>1. /\ v \in Seq(Replies)
        /\ \A k \in 1 .. Len(v) : v[k] = d[k + 1]
        /\ \A k \in Nat : k \in J <=> k > 0 /\ k + 1 \in I
    BY FinalsTail
  <2>2. \A k \in J : k \in Nat /\ k \in 1 .. Len(v)
    <3>1. J \in SUBSET (1 .. Len(v)) /\ Len(v) \in Nat
      BY <2>1, FinalsIn
    <3> HIDE DEF J, v
    <3> QED BY <3>1
  <2> HIDE DEF I, J, v
  <2> QED BY <2>1, <2>2
<1>4. Cardinality(J) \in Nat /\ \A k \in J : Rank(J, k) \in 1 .. Cardinality(J)
  BY <1>3, CountFacts
<1>5. /\ Len(e) = Count(d, b, u)
      /\ \A k \in I : e[Rank(I, k)] = d[k].to
      /\ b = "silent" => e[Cardinality(I) + 1] = "greeting"
      /\ b = "bdat" => e[Cardinality(I) + 1] = "BDAT"
      /\ \A k \in A : e[Cardinality(I) + Due(b) + Rank(A, k)] = u[k]
  BY DEF Matches
<1>6. Count(v, b, u) = Count(d, b, u) - x
  BY CountRead
<1>7. Final(d[1]) => e # <<>> /\ e[1] = d[1].to
  <2> SUFFICES ASSUME Final(d[1]) PROVE e # <<>> /\ e[1] = d[1].to
    OBVIOUS
  <2>1. 1 \in I /\ Rank(I, 1) = 1
    BY <1>1
  <2>2. 1 \in 1 .. Cardinality(I)
    BY <1>2, <2>1
  <2> HIDE DEF I, A
  <2>3. Len(e) >= 1
    BY <1>2, <1>5, <2>2
  <2> QED BY <1>5, <2>1, <2>3
<1>8. Len(f) = Len(e) - x /\ \A i \in 1 .. Len(f) : f[i] = e[i + x]
  <2>1. CASE Final(d[1])
    <3>1. e # <<>> /\ f = Tail(e) /\ x = 1
      BY <1>7, <2>1
    <3>2. Len(Tail(e)) = Len(e) - 1 /\ \A i \in 1 .. Len(Tail(e)) : Tail(e)[i] = e[i + 1]
      BY <3>1
    <3> QED BY <3>1, <3>2
  <2>2. CASE ~Final(d[1])
    <3>1. f = e /\ x = 0 /\ Len(e) \in Nat
      BY <2>2
    <3> HIDE DEF f, x
    <3> QED BY <3>1
  <2> QED BY <2>1, <2>2
<1>9. x \in {0, 1}
  OBVIOUS
<1> HIDE DEF I, J, A, x, f, v
<1>10. Len(f) = Count(v, b, u)
  BY <1>5, <1>6, <1>8
<1>11. Len(f) = Cardinality(J) + Due(b) + Cardinality(A)
  <2>1. Count(v, b, u) = Cardinality(J) + Due(b) + Cardinality(A)
    BY Zenon DEF Count, J, A, v
  <2> QED BY <1>10, <2>1
<1>12. \A k \in J : f[Rank(J, k)] = v[k].to
  <2> SUFFICES ASSUME NEW k \in J PROVE f[Rank(J, k)] = v[k].to
    OBVIOUS
  <2>1. k \in Nat /\ k + 1 \in I /\ v[k] = d[k + 1] /\ Rank(J, k) \in 1 .. Cardinality(J)
    BY <1>3, <1>4
  <2>2. Rank(J, k) + x = Rank(I, k + 1)
    <3>1. Rank(J, k) = Rank(I, k + 1) - x /\ Rank(I, k + 1) \in Int
      BY <1>1, <1>2, <2>1
    <3> QED BY <1>9, <3>1
  <2>3. Rank(J, k) \in 1 .. Len(f)
    <3>1. /\ Cardinality(J) \in Nat /\ Cardinality(A) \in Nat /\ Due(b) \in Nat
          /\ Rank(J, k) \in 1 .. Cardinality(J)
      BY <1>2, <1>4, <2>1
    <3>2. Cardinality(J) <= Len(f)
      BY <1>11, <3>1
    <3> QED BY <1>11, <3>1, <3>2
  <2> QED BY <1>5, <1>8, <2>1, <2>2, <2>3
<1>13. ASSUME NEW r, r \in 1 .. Due(b) + Cardinality(A)
       PROVE  f[Cardinality(J) + r] = e[Cardinality(I) + r]
  <2>1. Cardinality(J) + r \in 1 .. Len(f)
    <3> DEFINE j == Cardinality(J)
               a == Cardinality(A)
    <3>1. j \in Nat /\ a \in Nat /\ Due(b) \in {0, 1} /\ Len(f) = j + Due(b) + a
      BY <1>2, <1>4, <1>11
    <3> HIDE DEF j, a
    <3>2. r \in 1 .. Due(b) + a
      BY <1>13 DEF a
    <3>3. j + r \in 1 .. Len(f)
      BY <3>1, <3>2
    <3> QED BY <3>3 DEF j
  <2>2. Cardinality(J) + r + x = Cardinality(I) + r
    BY <1>1, <1>2, <1>9, <1>13
  <2>3. f[Cardinality(J) + r] = e[Cardinality(J) + r + x]
    BY <1>8, <2>1
  <2> QED BY <2>2, <2>3
<1>14. b \in {"silent", "bdat"} => f[Cardinality(J) + 1] = e[Cardinality(I) + 1]
  <2>1. b \in {"silent", "bdat"} => 1 \in 1 .. Due(b) + Cardinality(A)
    BY <1>2 DEF Due
  <2> QED BY <1>13, <2>1
<1>15. \A k \in A : f[Cardinality(J) + Due(b) + Rank(A, k)] = u[k]
  <2> SUFFICES ASSUME NEW k \in A PROVE f[Cardinality(J) + Due(b) + Rank(A, k)] = u[k]
    OBVIOUS
  <2>1. Rank(A, k) \in 1 .. Cardinality(A)
    BY <1>2
  <2>2. Due(b) + Rank(A, k) \in 1 .. Due(b) + Cardinality(A)
    BY <1>2, <2>1
  <2>3. f[Cardinality(J) + (Due(b) + Rank(A, k))] = e[Cardinality(I) + (Due(b) + Rank(A, k))]
    BY <1>13, <2>2
  <2>4. /\ Cardinality(J) + (Due(b) + Rank(A, k)) = Cardinality(J) + Due(b) + Rank(A, k)
        /\ Cardinality(I) + (Due(b) + Rank(A, k)) = Cardinality(I) + Due(b) + Rank(A, k)
    <3>1. Due(b) \in Int /\ Rank(A, k) \in Int /\ Cardinality(J) \in Int /\ Cardinality(I) \in Int
      BY <1>2, <1>4, <2>1
    <3> QED BY <3>1
  <2> QED BY <1>5, <2>3, <2>4
<1>16. Matches(f, v, b, u)
  <2>1. b = "silent" => f[Cardinality(J) + 1] = "greeting"
    BY <1>5, <1>14
  <2>2. b = "bdat" => f[Cardinality(J) + 1] = "BDAT"
    BY <1>5, <1>14
  <2> QED BY <1>10, <1>12, <1>15, <2>1, <2>2, Zenon DEF Matches, J, A, v
<1> QED BY <1>7, <1>16 DEF f, v

-----------------------------------------------------------------------------
(* The observer's steps, field by field.                                    *)

\* It looks for commands and replies.
On == Watching /\ ~obs.tlsArmed

Observers ==
  [greeted : BOOLEAN, commands : Seq(Commands \cup {"."}), inData : BOOLEAN, bdat : BOOLEAN,
   clientPart : BOOLEAN, serverPart : BOOLEAN, tlsArmed : BOOLEAN, fingerprinted : BOOLEAN,
   disabled : BOOLEAN, premature : BOOLEAN, refused : BOOLEAN,
   outcome : {"", "accepted", "refused"}]

\* What no line of the client changes.
Unmoved ==
  /\ obs'.greeted = obs.greeted /\ obs'.tlsArmed = obs.tlsArmed
  /\ obs'.fingerprinted = obs.fingerprinted
  /\ obs'.refused = obs.refused /\ obs'.outcome = obs.outcome

\* The line ends a chunk of BDAT, is TLS, goes on with a message, or is to be answered.
ChunkSeen ==
  /\ obs.bdat /\ ~obs'.bdat
  /\ obs'.commands = obs.commands /\ obs'.inData = obs.inData /\ obs'.clientPart = obs.clientPart

TlsSeen ==
  /\ ~obs.bdat /\ ~obs'.bdat /\ obs'.clientPart
  /\ obs'.commands = obs.commands /\ obs'.inData = obs.inData

BodySeen ==
  /\ ~obs.bdat /\ ~obs'.bdat /\ obs.inData /\ obs'.inData /\ ~obs'.clientPart
  /\ obs'.commands = obs.commands

CommandSeen(t) ==
  /\ ~obs.bdat /\ (obs.inData \/ Len(obs.commands) < MaxCommands)
  /\ obs'.commands = Append(obs.commands, t) /\ ~obs'.inData /\ ~obs'.clientPart
  /\ obs'.bdat = (t = "BDAT")

LEMMA LineSeen ==
  ASSUME obs \in Observers, On, NEW t \in Lines, NEW first \in BOOLEAN, ObserveLine(t, first)
  PROVE  /\ obs' \in Observers /\ Unmoved
         /\ \/ obs'.disabled /\ obs'.premature /\ t = "hello" /\ ~obs.bdat
            \/ /\ obs'.disabled /\ obs'.premature = obs.premature /\ ~obs.bdat /\ t \notin Tls
               /\ t = "BAD" \/ (~obs.inData /\ Len(obs.commands) >= MaxCommands)
            \/ /\ ~obs'.disabled /\ obs'.premature = obs.premature
               /\ \/ ChunkSeen
                  \/ t \in Tls /\ TlsSeen
                  \/ t \notin Tls \cup {".", "BAD"} /\ BodySeen
                  \/ t \notin Tls \cup {"BAD"} /\ (obs.inData => t = ".") /\ CommandSeen(t)
<1> USE DEF On, Watching
<1>1. CASE TlsFirst(t, first)
  <2>1. obs' = [obs EXCEPT !.premature = TRUE, !.disabled = TRUE] /\ t = "hello" /\ ~obs.bdat
    BY <1>1 DEF ObserveLine, ObservePart, TlsFirst, ObserveText, Tls
  <2> QED BY <2>1 DEF Observers, Unmoved
<1>2. CASE obs.bdat
  <2>1. obs' = [obs EXCEPT !.bdat = FALSE]
    BY <1>2 DEF ObserveLine, TlsFirst
  <2> QED BY <1>2, <2>1 DEF Observers, Unmoved, ChunkSeen
<1>3. CASE ~obs.bdat /\ ~TlsFirst(t, first) /\ t \in Tls
  <2>1. obs' = [obs EXCEPT !.clientPart = TRUE]
    BY <1>3 DEF ObserveLine, ObservePart
  <2> QED BY <1>3, <2>1 DEF Observers, Unmoved, TlsSeen
<1>4. CASE ~obs.bdat /\ t \notin Tls
  <2> DEFINE full == t = "BAD" \/ (~obs.inData /\ Len(obs.commands) >= MaxCommands)
  <2>0. ObserveText(t)
    BY <1>4 DEF ObserveLine, TlsFirst, Tls
  <2>1. CASE full
    <3>1. obs' = [[obs EXCEPT !.clientPart = FALSE] EXCEPT !.disabled = TRUE]
      BY <2>0, <2>1 DEF ObserveText
    <3>2. obs' = [obs EXCEPT !.clientPart = FALSE, !.disabled = TRUE]
      BY <3>1
    <3> QED BY <1>4, <2>1, <3>2 DEF Observers, Unmoved
  <2>2. CASE ~full /\ obs.inData /\ t # "."
    <3>1. obs' = [obs EXCEPT !.clientPart = FALSE]
      BY <2>0, <2>2 DEF ObserveText
    <3> QED BY <1>4, <2>2, <3>1 DEF Observers, Unmoved, BodySeen
  <2>3. CASE ~full /\ ~(obs.inData /\ t # ".")
    <3>1. obs' = [[obs EXCEPT !.clientPart = FALSE] EXCEPT !.inData = FALSE,
                     !.commands = Append(@, t), !.bdat = (t = "BDAT")]
      BY <2>0, <2>3 DEF ObserveText
    <3>2. /\ Append(obs.commands, t) \in Seq(Commands \cup {"."}) /\ (t = "BDAT") \in BOOLEAN
          /\ Len(obs.commands) \in Nat
      <4>1. t \in Commands \cup {"."} /\ obs.commands \in Seq(Commands \cup {"."})
        BY <1>4 DEF Observers, Lines
      <4> QED BY <4>1
    <3>3. obs' = [obs EXCEPT !.clientPart = FALSE, !.inData = FALSE,
                             !.commands = Append(obs.commands, t), !.bdat = (t = "BDAT")]
      BY <3>1 DEF Observers
    <3>4. obs' \in Observers /\ Unmoved
      BY <3>2, <3>3 DEF Observers, Unmoved
    <3>5. ~obs'.disabled /\ obs'.premature = obs.premature /\ CommandSeen(t)
      <4>1. /\ obs'.disabled = obs.disabled /\ obs'.premature = obs.premature
            /\ obs'.commands = Append(obs.commands, t) /\ obs'.inData = FALSE
            /\ obs'.clientPart = FALSE /\ obs'.bdat = (t = "BDAT")
        BY <3>3 DEF Observers
      <4>2. obs.inData \/ Len(obs.commands) < MaxCommands
        BY <2>3, <3>2, SessionAssumption DEF SessionAssumption
      <4> QED BY <1>4, <4>1, <4>2 DEF CommandSeen
    <3> QED BY <1>4, <2>3, <3>4, <3>5
  <2> QED BY <2>1, <2>2, <2>3
<1> QED BY <1>1, <1>2, <1>3, <1>4

LEMMA PartSeen ==
  ASSUME obs \in Observers, NEW t \in Lines, NEW first \in BOOLEAN, ObservePart(t, first)
  PROVE  /\ obs' \in Observers /\ Unmoved
         /\ obs'.commands = obs.commands /\ obs'.inData = obs.inData /\ obs'.bdat = obs.bdat
         /\ \/ obs' = obs
            \/ On /\ obs'.disabled /\ obs'.premature /\ t = "hello"
            \/ On /\ ~obs'.disabled /\ obs'.premature = obs.premature /\ obs'.clientPart
<1>1. CASE obs' = obs
  BY <1>1 DEF Unmoved
<1>2. CASE obs' = [obs EXCEPT !.premature = TRUE, !.disabled = TRUE] /\ On /\ t = "hello"
  BY <1>2 DEF Observers, Unmoved
<1>3. CASE obs' = [obs EXCEPT !.clientPart = TRUE] /\ On
  BY <1>3 DEF Observers, Unmoved, On, Watching
<1> QED BY <1>1, <1>2, <1>3 DEF ObservePart, TlsFirst, On

\* A line that the server's pump has read, while commands are paired with replies.
GreetingSeen ==
  /\ (~obs.greeted \/ obs.commands = <<>>) /\ obs'.greeted
  /\ obs'.commands = obs.commands /\ obs'.inData = obs.inData /\ obs'.tlsArmed = obs.tlsArmed
  /\ obs'.refused = obs.refused /\ obs'.outcome = obs.outcome

Accepts(r) ==
  /\ Head(obs.commands) = "STARTTLS" /\ r.code = "220" /\ obs'.tlsArmed
  /\ obs'.outcome = "accepted" /\ obs'.refused = obs.refused

Refuses(r) ==
  /\ Head(obs.commands) = "STARTTLS" /\ r.code # "220" /\ ~obs'.tlsArmed
  /\ obs'.outcome = "refused" /\ obs'.refused
  /\ obs'.commands = Tail(obs.commands) /\ obs'.inData = obs.inData

AnswerSeen(r) ==
  /\ Head(obs.commands) # "STARTTLS" /\ ~obs'.tlsArmed
  /\ obs'.refused = obs.refused /\ obs'.outcome = obs.outcome
  /\ obs'.commands = Tail(obs.commands)
  /\ obs'.inData = (obs.inData \/ (Head(obs.commands) = "DATA" /\ r.code = "354"))

LEMMA ReplySeen ==
  ASSUME obs \in Observers, On, NEW r \in Replies, ObserveReply(r)
  PROVE  /\ obs' \in Observers
         /\ obs'.fingerprinted = obs.fingerprinted /\ obs'.premature = obs.premature
         /\ obs'.bdat = obs.bdat
         /\ ~obs'.tlsArmed => obs'.clientPart = obs.clientPart
         /\ \/ r.code = "long" /\ obs'.disabled /\ obs'.tlsArmed = obs.tlsArmed
                 /\ obs'.refused = obs.refused /\ obs'.outcome = obs.outcome
            \/ /\ r.code = "more" /\ ~obs'.disabled /\ obs'.greeted = obs.greeted
               /\ obs'.commands = obs.commands /\ obs'.inData = obs.inData
               /\ obs'.tlsArmed = obs.tlsArmed
               /\ obs'.refused = obs.refused /\ obs'.outcome = obs.outcome
            \/ Final(r) /\ ~obs'.disabled /\ GreetingSeen
            \/ /\ Final(r) /\ ~obs'.disabled /\ obs.greeted /\ obs'.greeted /\ obs.commands # <<>>
               /\ Accepts(r) \/ Refuses(r) \/ AnswerSeen(r)
<1> USE DEF On, Watching
<1>1. CASE r.code = "long"
  <2>1. obs' = [obs EXCEPT !.disabled = TRUE]
    BY <1>1 DEF ObserveReply
  <2> QED BY <1>1, <2>1 DEF Observers
<1>2. CASE r.code = "more"
  <2>1. obs' = [obs EXCEPT !.serverPart = FALSE]
    BY <1>2 DEF ObserveReply
  <2> QED BY <1>2, <2>1 DEF Observers
<1>3. CASE Final(r) /\ (~obs.greeted \/ obs.commands = <<>>)
  <2>1. obs' = [obs EXCEPT !.serverPart = FALSE, !.greeted = TRUE]
    BY <1>3 DEF ObserveReply, Final
  <2> QED BY <1>3, <2>1 DEF Observers, GreetingSeen
<1>4. CASE Final(r) /\ obs.greeted /\ obs.commands # <<>>
  <2>0. ObserveAnswer(r)
    BY <1>4 DEF ObserveReply, Final
  <2> DEFINE answered == Head(obs.commands)
  <2>a. Tail(obs.commands) \in Seq(Commands \cup {"."}) /\ <<>> \in Seq(Commands \cup {"."})
    <3>1. obs.commands \in Seq(Commands \cup {"."}) /\ obs.commands # <<>>
      BY <1>4 DEF Observers
    <3> QED BY <3>1
  <2>1. CASE answered = "STARTTLS" /\ r.code = "220"
    <3>1. obs' = [obs EXCEPT !.serverPart = FALSE, !.commands = <<>>, !.outcome = "accepted",
                             !.tlsArmed = TRUE, !.clientPart = FALSE]
      BY <2>0, <2>1 DEF ObserveAnswer, Observers
    <3> QED BY <1>4, <2>1, <2>a, <3>1 DEF Observers, Accepts
  <2>2. CASE answered = "STARTTLS" /\ r.code # "220"
    <3>1. obs' = [obs EXCEPT !.serverPart = FALSE, !.commands = Tail(obs.commands),
                             !.outcome = "refused", !.refused = TRUE]
      BY <2>0, <2>2 DEF ObserveAnswer, Observers
    <3> QED BY <1>4, <2>2, <2>a, <3>1 DEF Observers, Refuses
  <2>3. CASE answered # "STARTTLS"
    <3>1. obs' = [obs EXCEPT !.serverPart = FALSE, !.commands = Tail(obs.commands),
                             !.inData = obs.inData \/ (answered = "DATA" /\ r.code = "354")]
      BY <2>0, <2>3 DEF ObserveAnswer, Observers
    <3> QED BY <1>4, <2>3, <2>a, <3>1 DEF Observers, AnswerSeen
  <2> QED BY <2>1, <2>2, <2>3
<1> QED BY <1>1, <1>2, <1>3, <1>4 DEF Final

-----------------------------------------------------------------------------
(* The steps, as changes of what is on its way.                             *)

\* The client sends t.
Sent(t) ==
  /\ t \in Sendable(client.mode) /\ Under' = Append(Under, t)
  /\ client'.mode = ModeAfter(client.mode, t)
  /\ client'.owed = client.owed + (IF IsOwed(client.mode, t) THEN 1 ELSE 0)
  /\ UNCHANGED <<backend, down>>

Became(code) == IF code = "354" THEN "data" ELSE IF code = "220" THEN "tls" ELSE "command"

\* A reply that a backend gives.
ReplyOK(r) ==
  /\ r.code = "354" => r.to = "DATA"
  /\ r.code = "220" => r.to \in {"greeting", "STARTTLS"}
  /\ r.to = "greeting" => r.code = "220"
  /\ r.code \in {"more", "long"} => r.to = "EHLO"

\* The backend reads the first line, goes to c and sends rs.
Served(c, rs) ==
  /\ Under # <<>> /\ Under' = Tail(Under)
  /\ c \in Backends /\ backend' = c /\ Serves(backend, Under[1], c)
  /\ rs \in Seq(Replies) /\ RepliesTo(backend, Under[1], c, rs)
  /\ \A k \in 1 .. Len(rs) : ReplyOK(rs[k])
        /\ (rs[k].code = "354" => backend = "command" /\ c = "data" /\ k = Len(rs))
  /\ backend = "command" /\ Under[1] \in {"DATA", "STARTTLS"} => c = Became(rs[Len(rs)].code)
  /\ down'.sent = down.sent \o rs /\ down'.held = down.held
  /\ down' \in [held : Replies \cup {NoReply}, begun : BOOLEAN, sent : Seq(Replies)]
  /\ client' = client /\ obs' = obs /\ seen' = seen /\ report' = report /\ phase' = phase

\* Types but those of the observer.
Places ==
  /\ phase \in {"dialing", "relaying", "ended"}
  /\ client \in [mode : {"command", "wait", "data", "bdat", "tls"}, owed : Nat]
  /\ begun \in Lines \cup {None}
  /\ up \in [held : Lines \cup {None}, sent : Seq(Lines)]
  /\ backend \in {"silent", "command", "data", "bdat", "tls"}
  /\ down \in [held : Replies \cup {NoReply}, begun : BOOLEAN, sent : Seq(Replies)]
  /\ report \in [state : States \cup {None},
                 outcome : {None, "unknown", "not_seen", "refused", "accepted"}]
  /\ seen \subseteq Excuses \cup {"accepted", "refused", "hello"}
  /\ lines \in 0 .. MaxLines

LEMMA PlacesFact ==
  ASSUME TypeOK PROVE Places
BY Zenon DEF TypeOK, Places

LEMMA TypesNext ==
  ASSUME Places', obs' \in Observers PROVE TypeOK'
BY Zenon DEF TypeOK, Places, Observers

LEMMA Types ==
  ASSUME TypeOK
  PROVE  /\ client.mode \in Modes /\ client.owed \in Nat /\ backend \in Backends
         /\ Under \in Seq(Lines) /\ down.sent \in Seq(Replies) /\ down.held \in Replies \cup {NoReply}
         /\ obs \in Observers /\ obs.commands \in Seq(Commands \cup {"."})
<1>1. client.mode \in Modes /\ client.owed \in Nat /\ backend \in Backends
  BY DEF TypeOK, Modes, Backends
<1>2. down.sent \in Seq(Replies) /\ down.held \in Replies \cup {NoReply}
  BY DEF TypeOK
<1>3. obs \in Observers
  BY DEF TypeOK, Observers
<1>4. obs.commands \in Seq(Commands \cup {"."})
  BY <1>3 DEF Observers
<1>5. Under \in Seq(Lines)
  <2>1. up.sent \in Seq(Lines) /\ (up.held # None => up.held \in Lines)
    BY DEF TypeOK
  <2> QED BY <2>1 DEF Under
<1> QED BY <1>1, <1>2, <1>3, <1>4, <1>5

LEMMA SentFacts ==
  ASSUME TypeOK, NEW t \in Lines, NEW first \in BOOLEAN, ReadLine(t, first)
  PROVE  Sent(t)
<1>1. client.mode \in Modes
  BY Types
<1>2. t \in Sendable(client.mode)
  BY <1>1 DEF ReadLine, ClientReads, MaySend, Sendable, Modes
<1>3. Under' = Append(Under, t)
  <2>1. up'.held = t /\ up'.sent = up.sent /\ up.held = None /\ t # None
    BY DEF ReadLine, ClientReads, TypeOK, Lines, Commands, Tls, None
  <2> QED BY <2>1 DEF Under
<1>4. /\ client'.mode = ModeAfter(client.mode, t)
      /\ client'.owed = client.owed + (IF IsOwed(client.mode, t) THEN 1 ELSE 0)
  BY <1>1 DEF ReadLine, ClientSends, ModeAfter, Owed, IsOwed
<1> QED BY <1>2, <1>3, <1>4 DEF Sent, ReadLine

LEMMA ServedFacts ==
  ASSUME TypeOK, Shape(Under, backend), Serve
  PROVE  \E c, rs : Served(c, rs)
<1> DEFINE t == Head(up.sent)
<1>1. up.sent \in Seq(Lines) /\ up.sent # <<>> /\ t \in Lines /\ backend \in Backends
  <2>1. up.sent \in Seq(Lines) /\ up.sent # <<>> /\ backend \in Backends
    BY DEF Serve, TypeOK, Backends
  <2> QED BY <2>1
<1>2. Under # <<>> /\ Under[1] = t /\ Under' = Tail(Under)
  <2>1. up'.held = up.held /\ up'.sent = Tail(up.sent) /\ up.held \in Lines \cup {None}
    BY DEF Serve, TypeOK
  <2>2. CASE up.held = None
    BY <1>1, <2>1, <2>2 DEF Under
  <2>3. CASE up.held # None
    BY <1>1, <2>1, <2>3 DEF Under
  <2> QED BY <2>2, <2>3
<1>3. backend = "tls" => t \in Tls
  <2>1. 1 \in 1 .. Len(Under)
    BY <1>2, TailFacts, Types
  <2> QED BY <1>2, <2>1 DEF Shape
<1>0. client' = client /\ obs' = obs /\ seen' = seen /\ report' = report /\ phase' = phase
  BY DEF Serve, Answer, Answers
<1> HIDE DEF t
<1>4. ASSUME NEW c \in Backends, NEW rs \in Seq(Replies), Answers(rs, c), Serves(backend, t, c),
             RepliesTo(backend, t, c, rs),
             \A k \in 1 .. Len(rs) : ReplyOK(rs[k])
        /\ (rs[k].code = "354" => backend = "command" /\ c = "data" /\ k = Len(rs)),
             backend = "command" /\ t \in {"DATA", "STARTTLS"} => c = Became(rs[Len(rs)].code)
      PROVE  \E cc, rrs : Served(cc, rrs)
  <2>1. backend' = c /\ down'.sent = down.sent \o rs /\ down'.held = down.held
    BY <1>4 DEF Answers, TypeOK
  <2>a. down' \in [held : Replies \cup {NoReply}, begun : BOOLEAN, sent : Seq(Replies)]
    <3>1. down.sent \o rs \in Seq(Replies)
      BY <1>4, Types
    <3> QED BY <1>4, <3>1 DEF Answers, TypeOK
  <2>2. /\ Serves(backend, Under[1], c) /\ RepliesTo(backend, Under[1], c, rs)
        /\ backend = "command" /\ Under[1] \in {"DATA", "STARTTLS"} => c = Became(rs[Len(rs)].code)
    BY <1>2, <1>4
  <2>3. Served(c, rs)
    <3>1. Under # <<>> /\ Under' = Tail(Under)
      BY <1>2
    <3>2. c \in Backends /\ backend' = c /\ Serves(backend, Under[1], c)
      BY <2>1, <2>2
    <3>3. rs \in Seq(Replies) /\ RepliesTo(backend, Under[1], c, rs)
      BY <2>2
    <3>4. \A k \in 1 .. Len(rs) : ReplyOK(rs[k])
        /\ (rs[k].code = "354" => backend = "command" /\ c = "data" /\ k = Len(rs))
      BY <1>4
    <3> QED BY <1>0, <2>1, <2>2, <2>a, <3>1, <3>2, <3>3, <3>4 DEF Served
  <2> QED BY <2>3
<1>5. ASSUME NEW code \in Codes, NEW to \in Commands \cup {"."}, NEW c \in Backends,
             Final(Reply(code, to)), ReplyOK(Reply(code, to)), Serves(backend, t, c),
             to = IF backend = "bdat" THEN "BDAT" ELSE t,
             backend = "bdat" \/ (backend = "command" /\ t \in Commands \ {"BDAT"}) \/ (backend = "data" /\ t = "."),
             code = "354" => backend = "command" /\ c = "data",
             backend = "command" /\ t \in {"DATA", "STARTTLS"} => c = Became(code),
             Answers(<<Reply(code, to)>>, c)
      PROVE  \E cc, rrs : Served(cc, rrs)
  <2> DEFINE r == Reply(code, to)
             rs == <<r>>
  <2>1. r \in Replies /\ r.code = code /\ r.to = to
    BY <1>5 DEF Reply, Replies
  <2> HIDE DEF r
  <2>2. rs \in Seq(Replies) /\ Len(rs) = 1 /\ rs[1] = r /\ rs # <<>>
    BY <2>1
  <2>3. Final(r) /\ ReplyOK(r) /\ Answers(rs, c)
    BY <1>5 DEF r
  <2> HIDE DEF rs
  <2>4. Whole(rs)
    BY <2>2, <2>3 DEF Whole
  <2>5. RepliesTo(backend, t, c, rs)
    BY <1>5, <2>1, <2>2, <2>4 DEF RepliesTo
  <2>6. \A k \in 1 .. Len(rs) : k = 1
    BY <2>2
  <2> QED BY <1>4, <1>5, <2>1, <2>2, <2>3, <2>5, <2>6
<1>6. ASSUME NEW c \in Backends, Answers(<<>>, c), Serves(backend, t, c),
             ~(backend = "bdat" \/ (backend = "command" /\ t \in Commands \ {"BDAT"}) \/ (backend = "data" /\ t = "."))
      PROVE  \E cc, rrs : Served(cc, rrs)
  <2> DEFINE rs == <<>>
  <2>1. rs \in Seq(Replies) /\ RepliesTo(backend, t, c, rs) /\ \A k \in 1 .. Len(rs) : FALSE
    BY <1>6 DEF RepliesTo
  <2>2. ~(backend = "command" /\ t \in {"DATA", "STARTTLS"})
    BY <1>6 DEF Commands
  <2> QED BY <1>4, <1>6, <2>1, <2>2
<1>7. CASE backend = "command" /\ Answer(t)
  <2> USE DEF Serves, Backends, Codes, Commands, Tls, Reply, Final, ReplyOK, Became
  <2>1. CASE t = "EHLO"
    <3>1. PICK x \in {"more", "long"} : Answers(<<Reply(x, t), Reply("250", t)>>, "command")
      BY <1>7, <2>1 DEF Answer
    <3> DEFINE rs == <<Reply(x, t), Reply("250", t)>>
    <3>2. /\ rs \in Seq(Replies) /\ Len(rs) = 2 /\ rs # <<>>
          /\ rs[1].code = x /\ rs[1].to = "EHLO" /\ rs[2].code = "250" /\ rs[2].to = "EHLO"
      BY <2>1 DEF Replies
    <3>3. Answers(rs, "command")
      BY <3>1
    <3> HIDE DEF rs
    <3>4. \A k \in 1 .. Len(rs) : k \in {1, 2}
      BY <3>2
    <3>5. Whole(rs)
      BY <3>2 DEF Whole
    <3>6. RepliesTo(backend, t, "command", rs)
      BY <1>7, <2>1, <3>2, <3>5 DEF RepliesTo
    <3>7. \A k \in 1 .. Len(rs) : ReplyOK(rs[k]) /\ rs[k].code # "354"
      BY <3>2, <3>4
    <3> QED BY <1>4, <1>7, <2>1, <3>2, <3>3, <3>6, <3>7
  <2>2. CASE t = "DATA" /\ Answers(<<Reply("354", t)>>, "data")
    BY <1>5, <1>7, <2>2
  <2>3. CASE t = "STARTTLS" /\ Answers(<<Reply("220", t)>>, "tls")
    BY <1>5, <1>7, <2>3
  <2>4. CASE t = "BDAT"
    BY <1>6, <1>7, <2>4 DEF Answer
  <2>5. CASE t \in Commands \ {"EHLO", "BDAT"} /\ Answers(<<Reply("500", t)>>, "command")
    BY <1>5, <1>7, <2>5
  <2>6. CASE t \in Tls
    BY <1>6, <1>7, <2>6 DEF Answer
  <2> QED BY <1>7, <2>1, <2>2, <2>3, <2>4, <2>5, <2>6 DEF Answer
<1>8. CASE backend = "data" /\ t = "." /\ Answers(<<Reply("250", ".")>>, "command")
  <2> USE DEF Serves, Backends, Codes, Reply, Final, ReplyOK
  <2> QED BY <1>5, <1>8
<1>9. CASE backend = "data" /\ t # "." /\ Answers(<<>>, "data")
  BY <1>6, <1>9 DEF Serves, Backends
<1>10. CASE backend = "bdat" /\ \E x \in {"250", "500"} : Answers(<<Reply(x, "BDAT")>>, "command")
  <2>1. PICK x \in {"250", "500"} : Answers(<<Reply(x, "BDAT")>>, "command")
    BY <1>10
  <2> USE DEF Serves, Backends, Codes, Commands, Reply, Final, ReplyOK
  <2> QED BY <1>5, <1>10, <2>1
<1>11. CASE backend = "tls" /\ Answers(<<>>, "tls")
  BY <1>3, <1>6, <1>11 DEF Serves, Backends
<1> QED BY <1>7, <1>8, <1>9, <1>10, <1>11 DEF Serve, t

-----------------------------------------------------------------------------
(* What holds between the client and the backend, whatever is observed.     *)

LinesInv == Shape(Under, backend) /\ Ahead(Under, backend, client.mode)

\* The client is owed the replies on their way and those that will be given.
Held == IF down.held # NoReply /\ Final(down.held) THEN 1 ELSE 0

Owes == client.owed = Held + Count(down.sent, backend, Under)

\* The last line of replies on its way.
Latest == IF down.sent # <<>> THEN down.sent[Len(down.sent)] ELSE down.held

\* A client that waits for the reply to a line the backend has read waits for that one.
WaitInv ==
  client.mode = "wait" /\ Under = <<>> => Latest # NoReply /\ backend = Became(Latest.code)

\* The backend has let the client send its message.
Letting ==
  /\ \A k \in 1 .. Len(Under) : Under[k] \in Tls
  /\ backend = "data" /\ client.mode \in {"wait", "tls"}

Upgrades(r) == r.code = "220" /\ r.to = "STARTTLS"

DownInv ==
  /\ \A k \in 1 .. Len(down.sent) :
       /\ ReplyOK(down.sent[k])
       /\ down.sent[k].code = "354" => k = Len(down.sent) /\ Letting
       /\ Upgrades(down.sent[k]) => backend = "tls"
  /\ Final(Latest)
  /\ backend = "silent" => down.sent = <<>> /\ down.held = NoReply
  /\ down.held # NoReply => ReplyOK(down.held)
  /\ down.held.code = "354" => down.sent = <<>> /\ Letting

Protocol == LinesInv /\ Owes /\ WaitInv /\ DownInv

LEMMA ProtocolStays ==
  ASSUME Protocol, client' = client, Under' = Under, backend' = backend,
         down'.sent = down.sent, down'.held = down.held
  PROVE  Protocol'
<1>1. LinesInv'
  BY DEF Protocol, LinesInv
<1>2. Owes'
  BY DEF Protocol, Owes, Held
<1>3. WaitInv'
  BY DEF Protocol, WaitInv, Latest
<1>4. DownInv'
  BY DEF Protocol, DownInv, Latest, Letting
<1> QED BY <1>1, <1>2, <1>3, <1>4 DEF Protocol

LEMMA NoReplyFacts ==
  /\ Final(NoReply) /\ NoReply.code = None /\ NoReply \notin Replies
  /\ \A r \in Replies : r.code \in Codes /\ r # NoReply
<1>1. NoReply.code = None /\ None \notin Codes
  BY DEF NoReply, Reply, None, Codes
<1>2. \A r \in Replies : r.code \in Codes
  BY DEF Replies
<1>3. NoReply.code \notin {"more", "long"}
  BY <1>1 DEF None
<1> QED BY <1>1, <1>2, <1>3 DEF Final

LEMMA ProtocolSent ==
  ASSUME TypeOK, Protocol, NEW t \in Lines, Sent(t)
  PROVE  Protocol'
<1> USE Types DEF Protocol
<1>1. Shape(Under, backend) /\ Ahead(Under, backend, client.mode)
  BY DEF LinesInv
<1>2. t \in Sendable(client.mode) /\ Under' = Append(Under, t) /\ client'.mode = ModeAfter(client.mode, t)
      /\ backend' = backend /\ down' = down
  BY DEF Sent
<1>3. LinesInv'
  <2>1. Shape(Append(Under, t), backend) /\ Ahead(Append(Under, t), backend, ModeAfter(client.mode, t))
    BY <1>1, <1>2, ShapeAppend, AheadAppend
  <2> QED BY <1>2, <2>1 DEF LinesInv
<1>4. Owes'
  <2> DEFINE n == Count(down.sent, backend, Under)
             x == IF IsOwed(client.mode, t) THEN 1 ELSE 0
  <2>1. Count(down.sent, backend, Append(Under, t)) = n + x
    BY <1>1, <1>2, CountSent
  <2>2. n \in Nat /\ x \in Nat /\ Held \in Nat
    BY CountFacts DEF Held
  <2>3. Held' = Held /\ client'.owed = client.owed + x /\ client.owed = Held + n
    BY <1>2 DEF Held, Owes, Sent
  <2>4. Count(down'.sent, backend', Under') = n + x
    BY <1>2, <2>1
  <2> HIDE DEF n, x
  <2>5. client'.owed = Held' + (n + x)
    BY <2>2, <2>3
  <2> QED BY <2>4, <2>5 DEF Owes
<1>5. WaitInv'
  BY <1>2, AppendFacts DEF WaitInv
<1>6. Letting => Letting'
  <2> SUFFICES ASSUME Letting PROVE Letting'
    OBVIOUS
  <2>1. t \in Tls
    BY <1>2 DEF Letting, Sendable, Tls
  <2>2. client'.mode = "tls"
    BY <1>2, <2>1 DEF ModeAfter
  <2>3. \A k \in 1 .. Len(Append(Under, t)) : Append(Under, t)[k] \in Tls
    BY <2>1, AppendFacts DEF Letting
  <2> QED BY <1>2, <2>2, <2>3 DEF Letting
<1>7. DownInv'
  BY <1>2, <1>6 DEF DownInv, Latest
<1> QED BY <1>3, <1>4, <1>5, <1>7

LEMMA ProtocolGreeted ==
  ASSUME TypeOK, Protocol, Greet
  PROVE  Protocol'
<1> USE Types DEF Protocol
<1> DEFINE r == Reply("220", "greeting")
<1>1. /\ backend = "silent" /\ backend' = "command" /\ down'.sent = down.sent \o <<r>>
      /\ down'.held = down.held /\ client' = client /\ Under' = Under
  BY DEF Greet, Answers, TypeOK, Under
<1>2. down.sent = <<>> /\ down.held = NoReply
  BY <1>1 DEF DownInv
<1>3. down'.sent = <<r>> /\ Len(down'.sent) = 1 /\ down'.sent[1] = r /\ down'.sent # <<>>
      /\ \A k \in 1 .. Len(down'.sent) : k = 1
  BY <1>1, <1>2
<1>4. r.code = "220" /\ r.to = "greeting" /\ ReplyOK(r) /\ Final(r) /\ ~Upgrades(r)
  BY DEF Reply, ReplyOK, Final, Upgrades
<1>5. Count(down'.sent, "command", Under) = Count(down.sent, "silent", Under)
  BY <1>1, Greeted
<1> HIDE DEF r
<1>6. LinesInv'
  BY <1>1, AlikeSilent DEF LinesInv
<1>7. Owes'
  BY <1>1, <1>5 DEF Owes, Held
<1>8. WaitInv'
  BY <1>1, <1>2 DEF WaitInv, Latest
<1>9. DownInv'
  <2>1. Latest' = r /\ backend' # "silent" /\ down'.held = NoReply
    BY <1>1, <1>2, <1>3 DEF Latest
  <2>2. NoReply.code # "354"
    BY NoReplyFacts DEF None
  <2> QED BY <1>3, <1>4, <2>1, <2>2 DEF DownInv
<1> QED BY <1>6, <1>7, <1>8, <1>9

LEMMA ProtocolServed ==
  ASSUME TypeOK, Protocol, NEW c, NEW rs, Served(c, rs)
  PROVE  Protocol'
<1> USE Types DEF Protocol
<1>1. Shape(Under, backend) /\ Ahead(Under, backend, client.mode)
  BY DEF LinesInv
<1>2. /\ Under # <<>> /\ Under' = Tail(Under) /\ c \in Backends /\ backend' = c
      /\ Serves(backend, Under[1], c) /\ rs \in Seq(Replies)
      /\ RepliesTo(backend, Under[1], c, rs) /\ client' = client
      /\ down'.sent = down.sent \o rs /\ down'.held = down.held
  BY DEF Served
<1>3. /\ 1 \in AnsweredIn(Under, backend) <=>
           (backend = "command" /\ Under[1] \in Commands) \/ (backend = "data" /\ Under[1] = ".")
      /\ backend = "command" /\ c \in {"data", "tls"} =>
           \A k \in 1 .. Len(Tail(Under)) : Tail(Under)[k] \in Tls
  BY <1>1, <1>2, FirstServed
<1>4. /\ Len(Under) = Len(Tail(Under)) + 1 /\ Len(Tail(Under)) \in Nat /\ 1 \in 1 .. Len(Under)
      /\ Under[1] \in Lines /\ (Tail(Under) = <<>> <=> Len(Tail(Under)) = 0)
      /\ \A k \in 1 .. Len(Tail(Under)) : k + 1 \in 1 .. Len(Under) /\ Tail(Under)[k] = Under[k + 1]
  <2>1. /\ Len(Under) = Len(Tail(Under)) + 1 /\ Len(Tail(Under)) \in Nat
        /\ Under[1] \in Lines /\ (Tail(Under) = <<>> <=> Len(Tail(Under)) = 0)
        /\ \A k \in 1 .. Len(Tail(Under)) : k + 1 \in 1 .. Len(Under) /\ Tail(Under)[k] = Under[k + 1]
    BY <1>2, TailFacts
  <2> QED BY <2>1
<1>5. LinesInv'
  <2>1. Shape(Tail(Under), c) /\ Ahead(Tail(Under), c, client.mode)
    BY <1>1, <1>2, ShapeTail, AheadTail
  <2> QED BY <1>2, <2>1 DEF LinesInv
<1>6. Owes'
  <2>1. Count(down.sent \o rs, c, Tail(Under)) = Count(down.sent, backend, Under)
    BY <1>1, <1>2, CountServed
  <2> QED BY <1>2, <2>1 DEF Owes, Held
<1>7. rs # <<>> => Whole(rs)
  BY <1>2 DEF RepliesTo
<1>8. CASE rs = <<>>
  <2>1. down'.sent = down.sent
    BY <1>2, <1>8
  <2>2. WaitInv'
    <3> SUFFICES ASSUME client.mode = "wait", Tail(Under) = <<>> PROVE FALSE
      BY <1>2 DEF WaitInv
    <3>1. 1 \in AnsweredIn(Under, backend) /\ Under[1] \in {"DATA", "STARTTLS"}
      BY <1>1, <1>2, <1>4 DEF Ahead
    <3>2. backend = "command" /\ Under[1] \in Commands \ {"BDAT"}
      BY <1>3, <3>1 DEF Commands
    <3> QED BY <1>2, <1>8, <3>2 DEF RepliesTo
  <2>3. Letting => Letting'
    <3> SUFFICES ASSUME Letting PROVE Letting'
      OBVIOUS
    <3>1. Under[1] \in Tls /\ backend = "data"
      BY <1>4 DEF Letting
    <3>2. c = "data"
      BY <1>2, <3>1 DEF Serves, Tls
    <3> QED BY <1>2, <1>4, <3>2 DEF Letting
  <2>4. backend = "tls" => c = "tls"
    BY <1>2 DEF Serves
  <2>5. c # "silent"
    BY <1>2 DEF Serves
  <2>6. DownInv'
    BY <1>2, <2>1, <2>3, <2>4, <2>5 DEF DownInv, Latest
  <2> QED BY <1>5, <1>6, <2>2, <2>6
<1>9. CASE rs # <<>>
  <2> DEFINE d == down.sent
             v == d \o rs
  <2>1. /\ Len(v) = Len(d) + Len(rs) /\ Len(d) \in Nat /\ Len(rs) \in Nat \ {0}
        /\ v # <<>> /\ v[Len(v)] = rs[Len(rs)]
        /\ \A k \in 1 .. Len(d) : v[k] = d[k]
        /\ \A k \in 1 .. Len(v) : k \in 1 .. Len(d) \/ (k - Len(d) \in 1 .. Len(rs) /\ v[k] = rs[k - Len(d)])
    <3>1. d \in Seq(Replies)
      OBVIOUS
    <3> QED BY <1>2, <1>9, <3>1
  <2>2. Len(rs) \in 1 .. Len(rs) /\ \A k \in 1 .. Len(v) : k - Len(d) = Len(rs) => k = Len(v)
    BY <2>1
  <2>3. /\ \A k \in 1 .. Len(rs) : ReplyOK(rs[k]) /\ (rs[k].code = "354" => backend = "command" /\ c = "data" /\ k = Len(rs))
        /\ (backend = "command" /\ Under[1] \in {"DATA", "STARTTLS"} => c = Became(rs[Len(rs)].code))
    BY DEF Served
  <2>a. rs[Len(rs)] \in Replies
    BY <1>2, <2>2
  <2> HIDE DEF d, v
  <2>4. Latest' = rs[Len(rs)] /\ down'.sent = v
    BY <1>2, <2>1 DEF Latest, v, d
  <2>5. WaitInv'
    <3> SUFFICES ASSUME client.mode = "wait", Tail(Under) = <<>>
                 PROVE  Latest' # NoReply /\ c = Became(Latest'.code)
      BY <1>2 DEF WaitInv
    <3>1. 1 \in AnsweredIn(Under, backend) /\ Under[1] \in {"DATA", "STARTTLS"}
      BY <1>1, <1>2, <1>4 DEF Ahead
    <3>2. backend = "command"
      BY <1>3, <3>1
    <3> QED BY <2>3, <2>4, <2>a, <3>1, <3>2, NoReplyFacts
  <2>6. ~Letting /\ backend # "tls"
    <3>1. \/ backend = "bdat"
          \/ backend = "command" /\ Under[1] \in Commands
          \/ backend = "data" /\ Under[1] = "."
      BY <1>2, <1>9 DEF RepliesTo
    <3>2. Letting => Under[1] \in Tls
      BY <1>4 DEF Letting
    <3> QED BY <3>1, <3>2 DEF Letting, Tls
  <2>7. ASSUME NEW k \in 1 .. Len(rs), rs[k].code = "354" PROVE k = Len(rs) /\ Letting'
    <3>1. backend = "command" /\ c = "data" /\ k = Len(rs)
      BY <2>3, <2>7
    <3>2. Under[1] = "DATA"
      BY <1>2, <3>1 DEF Serves
    <3>3. 1 \in AnsweredIn(Under, backend)
      BY <1>3, <3>1, <3>2 DEF Commands
    <3>4. client.mode \in {"wait", "tls"}
      <4>1. client.mode \notin {"command", "bdat"}
        BY <1>1, <3>2, <3>3 DEF Ahead
      <4>2. client.mode # "data"
        BY <1>1, <3>1 DEF Ahead
      <4> QED BY <4>1, <4>2 DEF Modes
    <3> QED BY <1>2, <1>3, <3>1, <3>4 DEF Letting
  <2>8. ASSUME NEW k \in 1 .. Len(rs), Upgrades(rs[k]) PROVE c = "tls"
    <3>1. k = Len(rs)
      <4>1. Final(rs[k])
        BY <2>8 DEF Upgrades, Final
      <4>2. k = Len(rs) \/ k \in 1 .. Len(rs) - 1
        BY <2>1
      <4> QED BY <1>7, <1>9, <4>1, <4>2 DEF Whole
    <3>2. backend # "bdat" /\ Under[1] = "STARTTLS"
      BY <1>2, <1>9, <2>8, <3>1 DEF RepliesTo, Upgrades
    <3>3. backend = "command"
      BY <1>2, <1>9, <3>2 DEF RepliesTo
    <3> QED BY <2>3, <2>8, <3>1, <3>2, <3>3 DEF Upgrades, Became
  <2>9. ASSUME NEW k \in 1 .. Len(v)
        PROVE  /\ ReplyOK(v[k])
               /\ v[k].code = "354" => k = Len(v) /\ Letting'
               /\ Upgrades(v[k]) => c = "tls"
    <3>1. CASE k \in 1 .. Len(d)
      BY <2>1, <2>6, <3>1 DEF DownInv, d
    <3>2. CASE k - Len(d) \in 1 .. Len(rs) /\ v[k] = rs[k - Len(d)]
      <4>1. rs[k - Len(d)].code = "354" => k - Len(d) = Len(rs) /\ Letting'
        BY <2>7, <3>2
      <4>2. Upgrades(rs[k - Len(d)]) => c = "tls"
        BY <2>8, <3>2
      <4> QED BY <2>2, <2>3, <3>2, <4>1, <4>2
    <3> QED BY <2>1, <3>1, <3>2
  <2>10. Final(Latest') /\ c # "silent"
    BY <1>2, <1>7, <1>9, <2>4 DEF Whole, Serves
  <2>11. down.held.code # "354"
    BY <2>6 DEF DownInv
  <2>12. DownInv'
    BY <1>2, <2>4, <2>9, <2>10, <2>11 DEF DownInv
  <2> QED BY <1>5, <1>6, <2>5, <2>12
<1> QED BY <1>8, <1>9

LEMMA ProtocolRead ==
  ASSUME TypeOK, Protocol, ReadReply
  PROVE  Protocol'
<1> USE Types DEF Protocol
<1> DEFINE d == down.sent
           r == d[1]
           v == Tail(d)
<1>1. /\ down.held = NoReply /\ d # <<>> /\ down'.held = r /\ down'.sent = v
      /\ client' = client /\ backend' = backend /\ Under' = Under
  BY DEF ReadReply, Under
<1>2. /\ Len(d) = Len(v) + 1 /\ Len(v) \in Nat /\ r \in Replies
      /\ \A k \in 1 .. Len(v) : v[k] = d[k + 1]
      /\ (v = <<>> <=> Len(v) = 0)
  <2>1. d \in Seq(Replies)
    OBVIOUS
  <2> QED BY <1>1, <2>1, FinalsTail
<1>3. r # NoReply
  BY <1>2, NoReplyFacts
<1>4. Count(v, backend, Under) = Count(d, backend, Under) - (IF Final(r) THEN 1 ELSE 0)
  BY <1>1, CountRead
<1>5. Count(d, backend, Under) \in Nat
  BY CountFacts
<1>6. 1 \in 1 .. Len(d) /\ (\A k \in 1 .. Len(v) : k + 1 \in 1 .. Len(d))
      /\ (1 = Len(d) <=> Len(v) = 0) /\ \A k \in 1 .. Len(v) : k + 1 = Len(d) <=> k = Len(v)
  BY <1>2
<1>7. Len(v) # 0 => Len(v) \in 1 .. Len(v) /\ Len(v) + 1 = Len(d)
  BY <1>2
<1> HIDE DEF d, r, v
<1>8. Latest' = Latest
  <2>1. CASE v = <<>>
    BY <1>1, <1>2, <2>1 DEF Latest, d, r
  <2>2. CASE v # <<>>
    <3>1. Latest' = v[Len(v)] /\ Latest = d[Len(d)]
      BY <1>1, <2>2 DEF Latest, d
    <3> QED BY <1>2, <1>7, <2>2, <3>1
  <2> QED BY <2>1, <2>2
<1>9. LinesInv'
  BY <1>1 DEF LinesInv
<1>10. Owes'
  <2>1. client.owed = Count(d, backend, Under)
    BY <1>1, <1>5 DEF Owes, Held, d
  <2>2. Held' = IF Final(r) THEN 1 ELSE 0
    BY <1>1, <1>3 DEF Held
  <2>3. Count(v, backend, Under) = Count(down'.sent, backend', Under')
    BY <1>1
  <2> QED BY <1>1, <1>4, <1>5, <2>1, <2>2, <2>3 DEF Owes
<1>11. WaitInv'
  BY <1>1, <1>8 DEF WaitInv
<1>12. DownInv'
  <2>1. Letting' <=> Letting
    BY <1>1 DEF Letting
  <2>2. \A k \in 1 .. Len(d) : /\ ReplyOK(d[k])
                               /\ d[k].code = "354" => k = Len(d) /\ Letting
                               /\ Upgrades(d[k]) => backend = "tls"
    BY DEF DownInv, d
  <2>3. \A k \in 1 .. Len(v) : /\ ReplyOK(v[k])
                               /\ v[k].code = "354" => k = Len(v) /\ Letting
                               /\ Upgrades(v[k]) => backend = "tls"
    BY <1>2, <1>6, <2>2
  <2>4. ReplyOK(r) /\ (r.code = "354" => v = <<>> /\ Letting)
    BY <1>2, <1>6, <2>2 DEF r
  <2>5. backend # "silent" /\ Final(Latest')
    BY <1>1, <1>8 DEF DownInv, d
  <2> QED BY <1>1, <2>1, <2>3, <2>4, <2>5 DEF DownInv
<1> QED BY <1>9, <1>10, <1>11, <1>12

\* Nothing is on its way behind the reply that a client is owed last.
LEMMA NothingBehind ==
  ASSUME TypeOK, Protocol, down.held # NoReply, Final(down.held), client.mode = "wait"
  PROVE  /\ client.owed \in Nat \ {0}
         /\ client.owed = 1 =>
              down.sent = <<>> /\ Under = <<>> /\ backend = Became(down.held.code)
         /\ Under = <<>> /\ client.owed # 1 => down.sent # <<>>
         /\ down.held.code = "354" => client.owed = 1
<1> USE Types DEF Protocol
<1> DEFINE D == Cardinality(Finals(down.sent))
           I == AnsweredIn(Under, backend)
<1>1. /\ D \in Nat /\ Due(backend) \in {0, 1} /\ Cardinality(I) \in Nat
      /\ Count(down.sent, backend, Under) = D + Due(backend) + Cardinality(I)
      /\ D = 0 => Finals(down.sent) = {}
      /\ Cardinality(I) = 0 => I = {}
  BY CountFacts
<1>2. client.owed = 1 + (D + Due(backend) + Cardinality(I))
  BY <1>1 DEF Owes, Held
<1>3. down.sent # <<>> => Len(down.sent) \in Finals(down.sent)
  <2>1. down.sent # <<>> => Len(down.sent) \in 1 .. Len(down.sent)
    OBVIOUS
  <2>2. down.sent # <<>> => Final(down.sent[Len(down.sent)])
    BY DEF DownInv, Latest
  <2> QED BY <2>1, <2>2 DEF Finals
<1>4. Under # <<>> => Len(Under) \in I /\ Len(Under) \in 1 .. Len(Under) /\ Under[Len(Under)] \in {"DATA", "STARTTLS"}
  BY DEF LinesInv, Ahead, AnsweredIn
<1>5. down.sent = <<>> => D = 0
  <2>1. down.sent = <<>> => Finals(down.sent) = {}
    BY DEF Finals
  <2> QED BY <2>1, RankNone
<1>6. Under = <<>> => Cardinality(I) = 0
  <2>1. Under = <<>> => I = {}
    BY DEF AnsweredIn
  <2> QED BY <2>1, RankNone
<1> HIDE DEF D, I
<1>7. client.owed \in Nat \ {0}
  BY <1>1, <1>2
<1>8. ASSUME client.owed = 1
      PROVE  down.sent = <<>> /\ Under = <<>> /\ backend = Became(down.held.code)
  <2>1. D = 0 /\ Cardinality(I) = 0
    BY <1>1, <1>2, <1>8
  <2>2. down.sent = <<>> /\ Under = <<>>
    BY <1>1, <1>3, <1>4, <2>1
  <2> QED BY <2>2 DEF WaitInv, Latest
<1>9. ASSUME Under = <<>>, client.owed # 1 PROVE down.sent # <<>>
  <2> SUFFICES ASSUME down.sent = <<>> PROVE FALSE
    OBVIOUS
  <2>1. backend = Became(down.held.code)
    BY <1>9 DEF WaitInv, Latest
  <2>2. Due(backend) = 0
    BY <2>1 DEF Became, Due
  <2> QED BY <1>1, <1>2, <1>5, <1>6, <1>9, <2>2
<1>10. ASSUME down.held.code = "354" PROVE client.owed = 1
  <2>1. down.sent = <<>> /\ Letting
    BY <1>10 DEF DownInv
  <2>2. Under = <<>>
    BY <1>4, <2>1 DEF Letting, Tls
  <2>3. Due(backend) = 0
    BY <2>1 DEF Letting, Due
  <2> QED BY <1>2, <1>5, <1>6, <2>1, <2>2, <2>3
<1> QED BY <1>7, <1>8, <1>9, <1>10

LEMMA ReceivedFacts ==
  ASSUME TypeOK, Protocol, WriteReply
  PROVE  /\ down.held # NoReply /\ down'.held = NoReply /\ down'.sent = down.sent
         /\ backend' = backend /\ Under' = Under /\ obs' = obs /\ seen' = seen
         /\ \/ ~Final(down.held) /\ client' = client
            \/ /\ Final(down.held) /\ client'.owed = client.owed - 1
               /\ \/ (client.mode # "wait" \/ client.owed # 1) /\ client'.mode = client.mode
                  \/ client.mode = "wait" /\ client.owed = 1 /\ client'.mode = Became(down.held.code)
<1> USE Types
<1>1. /\ down.held # NoReply /\ down'.held = NoReply /\ down'.sent = down.sent
      /\ backend' = backend /\ Under' = Under /\ obs' = obs /\ seen' = seen
      /\ client' = Receives(down.held)
  BY DEF WriteReply, Under, TypeOK
<1>2. CASE ~Final(down.held)
  BY <1>1, <1>2 DEF Receives, Final
<1>3. CASE Final(down.held)
  <2>1. /\ client'.owed = client.owed - 1
        /\ client'.mode = IF client.mode # "wait" \/ client.owed > 1 THEN client.mode
                          ELSE Became(down.held.code)
    BY <1>1, <1>3 DEF Receives, Final, Became
  <2>2. client.mode = "wait" => client.owed \in Nat \ {0}
    BY <1>1, <1>3, NothingBehind
  <2>3. client.mode = "wait" => (client.owed > 1 <=> client.owed # 1)
    BY <2>2
  <2> QED BY <1>1, <1>3, <2>1, <2>3
<1> QED BY <1>1, <1>2, <1>3

LEMMA ProtocolReceived ==
  ASSUME TypeOK, Protocol, WriteReply
  PROVE  Protocol' /\ client'.owed \in Nat
<1> USE Types DEF Protocol
<1>1. /\ down.held # NoReply /\ down'.held = NoReply /\ down'.sent = down.sent
      /\ backend' = backend /\ Under' = Under
  BY ReceivedFacts
<1>2. NoReply.code # "354" /\ Final(NoReply)
  BY NoReplyFacts DEF None
<1>3. Count(down.sent, backend, Under) \in Nat
  BY CountFacts
<1>a. Latest' = IF down.sent # <<>> THEN down.sent[Len(down.sent)] ELSE NoReply
  BY <1>1 DEF Latest
<1>b. Final(Latest')
  BY <1>2, <1>a DEF DownInv, Latest
<1>4. CASE ~Final(down.held) /\ client' = client
  <2>1. down.sent # <<>>
    BY <1>4 DEF DownInv, Latest
  <2>2. Latest' = Latest
    BY <1>a, <2>1 DEF Latest
  <2>3. LinesInv'
    BY <1>1, <1>4 DEF LinesInv
  <2>4. Owes'
    <3>1. Held = 0 /\ Held' = 0
      BY <1>1, <1>4 DEF Held
    <3> QED BY <1>1, <1>4, <3>1 DEF Owes
  <2>5. WaitInv'
    BY <1>1, <1>4, <2>2 DEF WaitInv
  <2>6. DownInv'
    BY <1>1, <1>2, <1>4, <1>b DEF DownInv, Letting
  <2> QED BY <1>4, <2>3, <2>4, <2>5, <2>6
<1>5. CASE Final(down.held) /\ client'.owed = client.owed - 1
  <2>1. Owes' /\ client'.owed \in Nat
    <3>1. Held = 1 /\ Held' = 0
      BY <1>1, <1>5 DEF Held
    <3>2. client.owed = 1 + Count(down.sent, backend, Under)
      BY <3>1 DEF Owes
    <3>3. client'.owed = Count(down.sent, backend, Under)
      BY <1>3, <1>5, <3>2
    <3> QED BY <1>1, <1>3, <3>1, <3>3 DEF Owes
  <2>2. CASE (client.mode # "wait" \/ client.owed # 1) /\ client'.mode = client.mode
    <3>1. LinesInv'
      BY <1>1, <2>2 DEF LinesInv
    <3>2. WaitInv'
      <4> SUFFICES ASSUME client.mode = "wait", Under = <<>>
                   PROVE  Latest' # NoReply /\ backend = Became(Latest'.code)
        BY <1>1, <2>2 DEF WaitInv
      <4>1. down.sent # <<>>
        BY <1>1, <1>5, <2>2, NothingBehind
      <4> QED BY <1>a, <4>1 DEF WaitInv, Latest
    <3>3. DownInv'
      BY <1>1, <1>2, <1>b, <2>2 DEF DownInv, Letting
    <3> QED BY <2>1, <3>1, <3>2, <3>3
  <2>3. CASE client.mode = "wait" /\ client.owed = 1 /\ client'.mode = Became(down.held.code)
    <3>1. down.sent = <<>> /\ Under = <<>> /\ backend = client'.mode
      BY <1>1, <1>5, <2>3, NothingBehind
    <3>2. backend \in {"data", "tls", "command"}
      BY <2>3, <3>1 DEF Became
    <3>3. LinesInv'
      <4>1. Shape(Under, backend)
        BY DEF LinesInv
      <4>2. Ahead(<<>>, backend, backend)
        BY <3>2 DEF Ahead, AnsweredIn
      <4> QED BY <1>1, <3>1, <4>1, <4>2 DEF LinesInv
    <3>4. WaitInv'
      BY <3>1, <3>2 DEF WaitInv
    <3>5. DownInv'
      <4>1. \A k \in 1 .. Len(down.sent) : FALSE
        BY <3>1
      <4> QED BY <1>1, <1>2, <1>b, <3>2, <4>1 DEF DownInv
    <3> QED BY <2>1, <3>3, <3>4, <3>5
  <2> QED BY <1>5, <2>2, <2>3, ReceivedFacts
<1> QED BY <1>4, <1>5, ReceivedFacts

-----------------------------------------------------------------------------
(* What the observer has recorded, as long as it pairs commands with        *)
(* replies.                                                                 *)

PairInv == On => Matches(Expected, down.sent, backend, Under)

FlagInv ==
  On =>
    /\ obs.bdat <=> client.mode = "bdat"
    /\ client.mode = "data" => obs.inData
    /\ client.mode = "wait" /\ down.held.code = "354" => obs.inData
    /\ obs.inData => client.mode \in {"data", "tls"} \/ (client.mode = "wait" /\ down.held.code = "354")

Recorded == PairInv /\ FlagInv

LEMMA ExpectedFacts ==
  ASSUME obs \in Observers
  PROVE  /\ Expected \in Seq(Expectable) /\ obs.commands \in Seq(Expectable)
         /\ Len(obs.commands) \in Nat /\ Len(Expected) \in Nat /\ Len(obs.commands) <= Len(Expected)
         /\ obs.greeted => Expected = obs.commands
         /\ ~obs.greeted => Expected[1] = "greeting" /\ Tail(Expected) = obs.commands
<1>1. obs.commands \in Seq(Expectable)
  <2>1. obs.commands \in Seq(Commands \cup {"."})
    BY DEF Observers
  <2>2. Commands \cup {"."} \subseteq Expectable
    BY DEF Expectable
  <2> QED BY <2>1, <2>2
<1>2. "greeting" \in Expectable
  BY DEF Expectable
<1> DEFINE s == obs.commands
           e == <<"greeting">> \o s
<1> HIDE DEF s
<1>3. e \in Seq(Expectable) /\ Len(e) = 1 + Len(s) /\ e[1] = "greeting" /\ Tail(e) = s /\ Len(s) \in Nat
  BY <1>1, <1>2 DEF s
<1>4. obs.greeted => Expected = s
  BY DEF Expected, s
<1>5. ~obs.greeted => Expected = e
  BY DEF Expected, s
<1> HIDE DEF e
<1>6. s \in Seq(Expectable)
  BY <1>1 DEF s
<1>7. Expected = s \/ Expected = e
  BY <1>4, <1>5
<1>8. /\ Expected \in Seq(Expectable) /\ Len(Expected) \in Nat /\ Len(s) <= Len(Expected)
      /\ ~obs.greeted => Expected[1] = "greeting" /\ Tail(Expected) = s
  <2>1. Len(e) \in Nat /\ Len(s) <= Len(e)
    BY <1>3
  <2>2. Len(Expected) \in Nat /\ Len(s) <= Len(Expected)
    <3>1. Len(s) \in Nat /\ Len(s) <= Len(s)
      BY <1>3
    <3> QED BY <1>7, <2>1, <3>1, Zenon
  <2>3. Expected \in Seq(Expectable)
    BY <1>3, <1>6, <1>7, Zenon
  <2>4. ~obs.greeted => Expected[1] = "greeting" /\ Tail(Expected) = s
    BY <1>3, <1>5, Zenon
  <2> QED BY <2>2, <2>3, <2>4
<1> QED BY <1>3, <1>4, <1>6, <1>8 DEF s

LEMMA ExpectedAppend ==
  ASSUME obs \in Observers, NEW t \in Commands \cup {"."}, obs'.greeted = obs.greeted,
         obs'.commands = Append(obs.commands, t)
  PROVE  Expected' = Append(Expected, t)
<1>1. obs.commands \in Seq(Commands \cup {"."})
  BY DEF Observers
<1>2. ASSUME NEW s \in Seq(Commands \cup {"."})
      PROVE  <<"greeting">> \o Append(s, t) = Append(<<"greeting">> \o s, t)
  OBVIOUS
<1>3. <<"greeting">> \o Append(obs.commands, t) = Append(<<"greeting">> \o obs.commands, t)
  BY <1>1, <1>2
<1> QED BY <1>3 DEF Expected

\* Nothing on its way changes, and the observer's record does not either.
LEMMA RecordedStays ==
  ASSUME Recorded, On' => On, Under' = Under, backend' = backend, client'.mode = client.mode,
         down'.sent = down.sent, down'.held = down.held,
         obs'.greeted = obs.greeted, obs'.commands = obs.commands, obs'.inData = obs.inData,
         obs'.bdat = obs.bdat
  PROVE  Recorded'
<1>1. Expected' = Expected
  BY DEF Expected
<1>2. PairInv'
  BY <1>1 DEF Recorded, PairInv
<1>3. FlagInv'
  BY DEF Recorded, FlagInv
<1> QED BY <1>2, <1>3 DEF Recorded

\* What a line of the client can be, as far as the observer tells.
LEMMA SentAs ==
  ASSUME TypeOK, Protocol, Recorded, On, NEW t \in Lines, Sent(t)
  PROVE  /\ client.mode \in Modes /\ t \in Sendable(client.mode)
         /\ obs.bdat => client.mode = "bdat"
         /\ ~obs.bdat /\ t \notin Tls =>
              \/ obs.inData /\ client.mode = "data"
              \/ ~obs.inData /\ client.mode = "command"
         /\ client.mode = "bdat" => ~obs.inData
<1>1. client.mode \in Modes /\ t \in Sendable(client.mode)
  BY Types DEF Sent
<1>2. t \notin Tls => client.mode \in {"command", "data", "bdat"}
  BY <1>1 DEF Sendable, Modes, Tls
<1> QED BY <1>1, <1>2 DEF Recorded, FlagInv

LEMMA RecordedSent ==
  ASSUME TypeOK, Protocol, Recorded, On, NEW t \in Lines, Sent(t), NEW first \in BOOLEAN,
         ObserveLine(t, first)
  PROVE  Recorded'
<1> USE Types
<1>1. obs' \in Observers /\ Unmoved
  BY LineSeen
<1>2. /\ client.mode \in Modes /\ t \in Sendable(client.mode)
      /\ obs.bdat => client.mode = "bdat"
      /\ ~obs.bdat /\ t \notin Tls =>
           \/ obs.inData /\ client.mode = "data"
           \/ ~obs.inData /\ client.mode = "command"
      /\ client.mode = "bdat" => ~obs.inData
  BY SentAs
<1>3. CASE obs'.disabled
  BY <1>3 DEF Recorded, PairInv, FlagInv, On, Watching
<1>4. /\ Under' = Append(Under, t) /\ client'.mode = ModeAfter(client.mode, t)
      /\ backend' = backend /\ down'.sent = down.sent /\ down'.held = down.held
      /\ Shape(Under, backend) /\ Ahead(Under, backend, client.mode)
  BY DEF Sent, Protocol, LinesInv
<1>5. Matches(Expected, down.sent, backend, Under) /\ Expected \in Seq(Expectable)
  BY ExpectedFacts DEF Recorded, PairInv
<1>6. ASSUME ~IsOwed(client.mode, t), obs'.commands = obs.commands PROVE PairInv'
  <2>1. Expected' = Expected
    BY <1>1, <1>6 DEF Unmoved, Expected
  <2>2. Matches(Expected, down.sent, backend, Append(Under, t))
    BY <1>2, <1>4, <1>5, <1>6, MatchesSent
  <2> QED BY <1>4, <2>1, <2>2 DEF PairInv
<1>7. CASE ~obs'.disabled /\ ChunkSeen
  <2>1. client.mode = "bdat" /\ t = "STARTTLS" /\ ~obs.inData
    BY <1>2, <1>7 DEF ChunkSeen, Sendable
  <2>2. client'.mode = "command" /\ ~IsOwed(client.mode, t)
    BY <1>4, <2>1 DEF ModeAfter, IsOwed, Tls
  <2>3. PairInv'
    BY <1>6, <1>7, <2>2 DEF ChunkSeen
  <2>4. FlagInv'
    BY <1>7, <2>1, <2>2 DEF FlagInv, ChunkSeen
  <2> QED BY <2>3, <2>4 DEF Recorded
<1>8. CASE ~obs'.disabled /\ t \in Tls /\ TlsSeen
  <2>1. client'.mode = "tls" /\ ~IsOwed(client.mode, t)
    BY <1>4, <1>8 DEF ModeAfter, IsOwed, Tls, Commands
  <2>2. PairInv'
    BY <1>6, <1>8, <2>1 DEF TlsSeen
  <2>3. FlagInv'
    BY <1>8, <2>1 DEF FlagInv, TlsSeen
  <2> QED BY <2>2, <2>3 DEF Recorded
<1>9. CASE ~obs'.disabled /\ t \notin Tls \cup {".", "BAD"} /\ BodySeen
  <2>1. client.mode = "data"
    BY <1>2, <1>9 DEF BodySeen
  <2>2. client'.mode = "data" /\ ~IsOwed(client.mode, t)
    BY <1>4, <1>9, <2>1 DEF ModeAfter, IsOwed
  <2>3. PairInv'
    BY <1>6, <1>9, <2>2 DEF BodySeen
  <2>4. FlagInv'
    BY <1>9, <2>2 DEF FlagInv, BodySeen
  <2> QED BY <2>3, <2>4 DEF Recorded
<1>10. CASE ~obs'.disabled /\ t \notin Tls \cup {"BAD"} /\ (obs.inData => t = ".") /\ CommandSeen(t)
  <2>1. IsOwed(client.mode, t) /\ t \in Commands \cup {"."}
    BY <1>2, <1>10 DEF CommandSeen, IsOwed, Sendable, Commands, Tls
  <2>2. Expected' = Append(Expected, t)
    BY <1>1, <1>10, <2>1, ExpectedAppend DEF CommandSeen, Unmoved
  <2>4. Matches(Append(Expected, t), down.sent, backend, Append(Under, t))
    BY <1>2, <1>4, <1>5, <2>1, MatchesSent
  <2>5. PairInv'
    BY <1>4, <2>2, <2>4 DEF PairInv
  <2>6. client'.mode = "bdat" <=> t = "BDAT"
    BY <1>2, <1>4, <1>10, <2>1 DEF ModeAfter, IsOwed, CommandSeen, Commands
  <2>7. client'.mode # "data"
    BY <1>2, <1>4, <1>10, <2>1 DEF ModeAfter, IsOwed, CommandSeen, Commands
  <2>8. ~(client'.mode = "wait" /\ down.held.code = "354")
    <3>1. client.mode \in {"command", "data"}
      BY <1>2, <1>10 DEF CommandSeen
    <3> QED BY <3>1 DEF Protocol, DownInv, Letting
  <2>9. FlagInv'
    BY <1>4, <1>10, <2>6, <2>7, <2>8 DEF FlagInv, CommandSeen
  <2> QED BY <2>5, <2>9 DEF Recorded
<1> QED BY <1>3, <1>7, <1>8, <1>9, <1>10, LineSeen

LEMMA RecordedGreeted ==
  ASSUME TypeOK, Protocol, Recorded, Greet
  PROVE  Recorded'
<1> USE Types
<1>1. /\ backend = "silent" /\ backend' = "command"
      /\ down'.sent = down.sent \o <<Reply("220", "greeting")>> /\ down'.held = down.held
      /\ client' = client /\ Under' = Under /\ obs' = obs
  BY DEF Greet, Answers, TypeOK, Under
<1>2. PairInv'
  <2>1. \A e : Matches(e, down.sent, "silent", Under) => Matches(e, down'.sent, "command", Under)
    BY <1>1, Greeted
  <2>2. Expected' = Expected /\ (On' => On)
    BY <1>1 DEF Expected, On, Watching
  <2> QED BY <1>1, <2>1, <2>2 DEF Recorded, PairInv
<1>3. FlagInv'
  BY <1>1 DEF Recorded, FlagInv, On, Watching
<1> QED BY <1>2, <1>3 DEF Recorded

LEMMA RecordedServed ==
  ASSUME TypeOK, Protocol, Recorded, NEW c, NEW rs, Served(c, rs)
  PROVE  Recorded'
<1> USE Types
<1>1. /\ Under # <<>> /\ Under' = Tail(Under) /\ c \in Backends /\ backend' = c
      /\ Serves(backend, Under[1], c) /\ rs \in Seq(Replies)
      /\ RepliesTo(backend, Under[1], c, rs) /\ client' = client /\ obs' = obs
      /\ down'.sent = down.sent \o rs /\ down'.held = down.held
      /\ Shape(Under, backend)
  BY DEF Served, Protocol, LinesInv
<1>2. Expected' = Expected /\ (On' <=> On)
  BY <1>1 DEF Expected, On, Watching
<1>3. PairInv'
  <2> SUFFICES ASSUME On PROVE Matches(Expected, down.sent \o rs, c, Tail(Under))
    BY <1>1, <1>2 DEF PairInv
  <2>1. Matches(Expected, down.sent, backend, Under)
    BY DEF Recorded, PairInv
  <2> QED BY <1>1, <2>1, MatchesServed
<1>4. FlagInv'
  BY <1>1, <1>2 DEF Recorded, FlagInv
<1> QED BY <1>3, <1>4 DEF Recorded

\* The reply that is read answers what the observer takes it to answer.
LEMMA ReadAs ==
  ASSUME TypeOK, Protocol, Recorded, On, ReadReply
  PROVE  LET r == down.sent[1]
         IN /\ r \in Replies /\ ReplyOK(r) /\ down.sent # <<>> /\ down.held = NoReply
            /\ Upgrades(r) => backend = "tls"
            /\ r.code = "354" => Letting
            /\ ~obs.greeted => (Final(r) => r.to = "greeting")
            /\ obs.greeted => (Final(r) => obs.commands # <<>> /\ Head(obs.commands) = r.to)
<1> USE Types
<1> DEFINE r == down.sent[1]
<1>1. down.sent # <<>> /\ down.held = NoReply
  BY DEF ReadReply
<1>2. 1 \in 1 .. Len(down.sent) /\ r \in Replies
  BY <1>1
<1>3. ReplyOK(r) /\ (Upgrades(r) => backend = "tls") /\ (r.code = "354" => Letting)
  BY <1>2 DEF Protocol, DownInv
<1>4. Final(r) => Expected # <<>> /\ Expected[1] = r.to
  <2>1. Matches(Expected, down.sent, backend, Under) /\ Expected \in Seq(Expectable)
    BY ExpectedFacts DEF Recorded, PairInv
  <2> QED BY <1>1, <2>1, MatchesRead
<1>5. obs.greeted => (Final(r) => obs.commands # <<>> /\ Head(obs.commands) = r.to)
  <2> SUFFICES ASSUME obs.greeted, Final(r) PROVE obs.commands # <<>> /\ Head(obs.commands) = r.to
    OBVIOUS
  <2>1. obs.commands \in Seq(Expectable) /\ obs.commands # <<>> /\ obs.commands[1] = r.to
    BY <1>4, ExpectedFacts
  <2> HIDE DEF r
  <2>2. Head(obs.commands) = obs.commands[1]
    BY <2>1
  <2> QED BY <2>1, <2>2
<1>6. ~obs.greeted => (Final(r) => r.to = "greeting")
  BY <1>4, ExpectedFacts
<1> QED BY <1>1, <1>2, <1>3, <1>5, <1>6

LEMMA RecordedRead ==
  ASSUME TypeOK, Protocol, Recorded, On, ReadReply
  PROVE  Recorded'
<1> USE Types
<1> DEFINE r == down.sent[1]
<1>1. /\ down'.held = r /\ down'.sent = Tail(down.sent) /\ Under' = Under /\ backend' = backend
      /\ client' = client /\ ObserveReply(r)
  BY DEF ReadReply, Under
<1>2. /\ r \in Replies /\ ReplyOK(r) /\ down.sent # <<>> /\ down.held = NoReply
      /\ r.code = "354" => Letting
      /\ ~obs.greeted => (Final(r) => r.to = "greeting")
      /\ obs.greeted => (Final(r) => obs.commands # <<>> /\ Head(obs.commands) = r.to)
  BY ReadAs
<1>3. Matches(IF Final(r) THEN Tail(Expected) ELSE Expected, Tail(down.sent), backend, Under)
  <2>1. Matches(Expected, down.sent, backend, Under) /\ Expected \in Seq(Expectable)
    BY ExpectedFacts DEF Recorded, PairInv
  <2> QED BY <1>2, <2>1, MatchesRead
<1>4. /\ obs.greeted => Expected = obs.commands
      /\ ~obs.greeted => Tail(Expected) = obs.commands
  BY ExpectedFacts
<1>5. NoReply.code # "354"
  BY NoReplyFacts DEF None
<1> HIDE DEF r
<1>6. CASE ~On'
  BY <1>6 DEF Recorded, PairInv, FlagInv
<1>7. ASSUME On', obs'.commands = obs.commands, obs'.inData = obs.inData, obs'.bdat = obs.bdat,
             Expected' = IF Final(r) THEN Tail(Expected) ELSE Expected,
             r.code # "354" \/ client.mode # "wait"
      PROVE  Recorded'
  <2>1. PairInv'
    BY <1>1, <1>3, <1>7 DEF PairInv
  <2>2. FlagInv'
    BY <1>1, <1>2, <1>5, <1>7 DEF Recorded, FlagInv
  <2> QED BY <2>1, <2>2 DEF Recorded
<1>8. ASSUME On', obs.greeted, obs'.greeted, obs.commands # <<>>, Final(r), obs'.bdat = obs.bdat,
             obs'.commands = Tail(obs.commands),
             obs'.inData <=> obs.inData \/ (Head(obs.commands) = "DATA" /\ r.code = "354")
      PROVE  Recorded'
  <2>1. Expected' = Tail(Expected)
    BY <1>4, <1>8 DEF Expected
  <2>2. PairInv'
    BY <1>1, <1>3, <1>8, <2>1 DEF PairInv
  <2>3. r.code = "354" => r.to = "DATA" /\ Head(obs.commands) = r.to
    BY <1>2, <1>8 DEF ReplyOK
  <2>4. r.code = "354" => client.mode \in {"wait", "tls"}
    BY <1>2 DEF Letting
  <2>5. FlagInv'
    BY <1>1, <1>2, <1>5, <1>8, <2>3, <2>4 DEF Recorded, FlagInv
  <2> QED BY <2>2, <2>5 DEF Recorded
<1>9. CASE On' /\ r.code = "more" /\ obs'.greeted = obs.greeted /\ obs'.commands = obs.commands
           /\ obs'.inData = obs.inData /\ obs'.bdat = obs.bdat
  <2>1. ~Final(r) /\ Expected' = Expected
    BY <1>9 DEF Final, Expected
  <2> QED BY <1>7, <1>9, <2>1
<1>10. CASE On' /\ Final(r) /\ GreetingSeen /\ obs'.bdat = obs.bdat
  <2>1. ~obs.greeted /\ r.to = "greeting"
    BY <1>2, <1>10 DEF GreetingSeen
  <2>2. Expected' = obs.commands
    BY <1>10 DEF GreetingSeen, Expected
  <2>3. r.code # "354"
    BY <1>2, <2>1 DEF ReplyOK
  <2> QED BY <1>4, <1>7, <1>10, <2>1, <2>2, <2>3 DEF GreetingSeen
<1>11. CASE /\ On' /\ Final(r) /\ obs.greeted /\ obs'.greeted /\ obs.commands # <<>>
            /\ (Refuses(r) \/ AnswerSeen(r)) /\ obs'.bdat = obs.bdat
  <2>1. obs'.commands = Tail(obs.commands)
    BY <1>11 DEF Refuses, AnswerSeen
  <2>2. obs'.inData <=> obs.inData \/ (Head(obs.commands) = "DATA" /\ r.code = "354")
    BY <1>11 DEF Refuses, AnswerSeen
  <2> QED BY <1>8, <1>11, <2>1, <2>2
<1>12. Accepts(r) => ~On'
  BY DEF Accepts, On
<1>13. obs'.disabled => ~On'
  BY DEF On, Watching
<1> QED BY <1>1, <1>2, <1>6, <1>9, <1>10, <1>11, <1>12, <1>13, ReplySeen

LEMMA RecordedReceived ==
  ASSUME TypeOK, Protocol, Recorded, WriteReply
  PROVE  Recorded'
<1> USE Types
<1>1. /\ down.held # NoReply /\ down'.held = NoReply /\ down'.sent = down.sent
      /\ backend' = backend /\ Under' = Under /\ obs' = obs
  BY ReceivedFacts
<1>2. Expected' = Expected /\ (On' <=> On)
  BY <1>1 DEF Expected, On, Watching
<1>3. PairInv'
  BY <1>1, <1>2 DEF Recorded, PairInv
<1>4. FlagInv'
  <2> SUFFICES ASSUME On
               PROVE  /\ obs.bdat <=> client'.mode = "bdat"
                      /\ client'.mode = "data" => obs.inData
                      /\ ~(client'.mode = "wait" /\ NoReply.code = "354")
                      /\ obs.inData => client'.mode \in {"data", "tls"}
    BY <1>1, <1>2 DEF FlagInv
  <2>1. NoReply.code # "354"
    BY NoReplyFacts DEF None
  <2>2. /\ obs.bdat <=> client.mode = "bdat"
        /\ client.mode = "data" => obs.inData
        /\ client.mode = "wait" /\ down.held.code = "354" => obs.inData
        /\ obs.inData => client.mode \in {"data", "tls"} \/ (client.mode = "wait" /\ down.held.code = "354")
    BY DEF Recorded, FlagInv
  <2>3. CASE ~Final(down.held) /\ client' = client
    <3>1. down.held.code # "354"
      BY <2>3 DEF Final
    <3> QED BY <2>1, <2>2, <2>3, <3>1
  <2>4. CASE Final(down.held) /\ (client.mode # "wait" \/ client.owed # 1) /\ client'.mode = client.mode
    <3>1. client.mode = "wait" => down.held.code # "354"
      BY <1>1, <2>4, NothingBehind
    <3> QED BY <2>1, <2>2, <2>4, <3>1
  <2>5. CASE client.mode = "wait" /\ client'.mode = Became(down.held.code)
    BY <2>1, <2>2, <2>5 DEF Became
  <2> QED BY <2>3, <2>4, <2>5, ReceivedFacts
<1> QED BY <1>3, <1>4 DEF Recorded

-----------------------------------------------------------------------------
(* What the observer knows of what the pumps have read.                     *)

\* Until it gives up, which it does not without an excuse, it knows of every outcome
\* of STARTTLS.
OutcomeInv ==
  /\ ~obs.disabled => ("accepted" \in seen <=> obs.tlsArmed)
  /\ obs.tlsArmed => obs.outcome = "accepted" /\ backend = "tls"
  /\ obs.outcome = "accepted" => obs.tlsArmed /\ "accepted" \in seen
  /\ obs.outcome = "refused" => obs.refused
  /\ obs.refused => "refused" \in seen
  /\ ~obs.disabled /\ "refused" \in seen => obs.outcome # ""
  /\ obs.premature => "early" \in seen
  /\ obs.disabled => seen \cap Excuses # {}

\* A ClientHello is a fingerprint, or stands in its buffer if it comes early.
HelloInv ==
  /\ obs.fingerprinted => obs.tlsArmed /\ "hello" \in seen
  /\ "hello" \in seen => client.mode = "tls" /\ ("accepted" \in seen \/ "early" \in seen)
  /\ On /\ "hello" \in seen => obs.clientPart
  /\ "hello" \in seen /\ ~obs.disabled /\ obs.tlsArmed => obs.fingerprinted \/ "early" \in seen

Knows == OutcomeInv /\ HelloInv

LEMMA KnowsStays ==
  ASSUME Knows, seen' = seen, client.mode = "tls" => client'.mode = "tls",
         backend = "tls" => backend' = "tls",
         obs'.disabled = obs.disabled, obs'.tlsArmed = obs.tlsArmed, obs'.outcome = obs.outcome,
         obs'.refused = obs.refused, obs'.premature = obs.premature,
         obs'.fingerprinted = obs.fingerprinted, obs'.clientPart = obs.clientPart
  PROVE  Knows'
<1>1. On' => On
  BY DEF On, Watching
<1>2. OutcomeInv'
  BY DEF Knows, OutcomeInv
<1>3. HelloInv'
  BY <1>1 DEF Knows, HelloInv
<1> QED BY <1>2, <1>3 DEF Knows

\* What a line adds to seen.
NewNotes(t) == Notes(t) \cup (IF t = "hello" THEN {t} ELSE {})

LEMMA NotesFacts ==
  ASSUME NEW t \in Lines
  PROVE  /\ Notes(t) \subseteq Excuses
         /\ "accepted" \notin NewNotes(t) /\ "refused" \notin NewNotes(t)
         /\ "hello" \in NewNotes(t) <=> t = "hello"
         /\ t \in Tls /\ "accepted" \notin seen => "early" \in Notes(t)
         /\ t = "BAD" /\ client.mode # "bdat" => "bad" \in Notes(t)
         /\ t = "alert" => "alert" \in Notes(t)
         /\ client.owed + Owed(t) > MaxCommands => "flood" \in Notes(t)
<1>1. Notes(t) \subseteq {"early", "bad", "alert", "flood"}
  BY Zenon DEF Notes
<1>2. Notes(t) \subseteq Excuses
  BY <1>1 DEF Excuses
<1>3. /\ "accepted" \notin NewNotes(t) /\ "refused" \notin NewNotes(t)
      /\ "hello" \in NewNotes(t) <=> t = "hello"
  BY <1>1 DEF NewNotes
<1>4. t \in Tls /\ "accepted" \notin seen => "early" \in Notes(t)
  BY Zenon DEF Notes
<1>5. t = "BAD" /\ client.mode # "bdat" => "bad" \in Notes(t)
  BY Zenon DEF Notes
<1>6. t = "alert" => "alert" \in Notes(t)
  BY Zenon DEF Notes
<1>7. client.owed + Owed(t) > MaxCommands => "flood" \in Notes(t)
  BY Zenon DEF Notes
<1> QED BY <1>2, <1>3, <1>4, <1>5, <1>6, <1>7

\* The observer has as many commands as the client is owed replies, or one less.
LEMMA OwedAtLeast ==
  ASSUME TypeOK, Protocol, Recorded, On
  PROVE  client.owed >= Len(obs.commands)
<1> USE Types
<1>1. Len(Expected) = Count(down.sent, backend, Under)
  BY DEF Recorded, PairInv, Matches
<1>2. client.owed = Held + Count(down.sent, backend, Under) /\ Held \in Nat
  BY DEF Protocol, Owes, Held
<1> QED BY <1>1, <1>2, ExpectedFacts

\* The observer gives up on a line, and the line is an excuse.
LEMMA GivesUp ==
  ASSUME TypeOK, Protocol, Recorded, On, Knows, NEW t \in Lines, Sent(t), ~obs.bdat,
         t \notin Tls, t = "BAD" \/ (~obs.inData /\ Len(obs.commands) >= MaxCommands)
  PROVE  Notes(t) \cap Excuses # {}
<1> USE Types
<1>1. CASE t = "BAD"
  <2>1. client.mode # "bdat"
    BY DEF Recorded, FlagInv
  <2> QED BY <1>1, <2>1, NotesFacts
<1>2. CASE ~obs.inData /\ Len(obs.commands) >= MaxCommands
  <2>1. client.mode = "command" /\ t \in Sendable("command")
    BY <1>2, SentAs
  <2>2. Owed(t) = 1
    BY <2>1 DEF Owed, Sendable, Tls
  <2>3. client.owed + Owed(t) > MaxCommands
    BY <1>2, <2>2, OwedAtLeast, ExpectedFacts, SessionAssumption DEF SessionAssumption
  <2> QED BY <2>3, NotesFacts
<1> QED BY <1>1, <1>2

LEMMA SentModes ==
  ASSUME TypeOK, Protocol, NEW t \in Lines, Sent(t)
  PROVE  /\ t \in Tls => client'.mode = "tls"
         /\ client.mode = "tls" => t \in Tls
         /\ client.mode = "bdat" => t = "STARTTLS"
         /\ backend = "tls" => t \in Tls
<1> USE Types
<1>1. t \in Sendable(client.mode) /\ client'.mode = ModeAfter(client.mode, t)
  BY DEF Sent
<1>2. backend = "tls" => client.mode \in {"wait", "tls"}
  BY DEF Protocol, LinesInv, Ahead, Modes
<1> QED BY <1>1, <1>2 DEF Sendable, ModeAfter, Tls, Modes

LEMMA KnowsSent ==
  ASSUME TypeOK, Protocol, Recorded, Knows, NEW t \in Lines, Sent(t), NEW first \in BOOLEAN,
         ObserveLine(t, first), seen' = seen \cup NewNotes(t)
  PROVE  Knows'
<1> USE Types
<1>1. /\ t \in Tls => client'.mode = "tls"
      /\ client.mode = "tls" => t \in Tls
      /\ client.mode = "bdat" => t = "STARTTLS"
      /\ backend = "tls" => t \in Tls
      /\ backend' = backend
  BY SentModes DEF Sent
<1>2. /\ "accepted" \in seen' <=> "accepted" \in seen
      /\ "refused" \in seen' <=> "refused" \in seen
      /\ "hello" \in seen' <=> "hello" \in seen \/ t = "hello"
      /\ "early" \in seen => "early" \in seen'
      /\ t \in Tls /\ "accepted" \notin seen => "early" \in seen'
      /\ "hello" \in Tls
  BY NotesFacts DEF NewNotes, Tls
<1>3. /\ seen \cap Excuses # {} => seen' \cap Excuses # {}
      /\ Notes(t) \cap Excuses # {} => seen' \cap Excuses # {}
      /\ "early" \in seen' => seen' \cap Excuses # {}
  <2>1. Notes(t) \subseteq seen' /\ seen \subseteq seen' /\ "early" \in Excuses
    BY DEF NewNotes, Excuses
  <2> QED BY <2>1
<1>4. "hello" \in seen' => client'.mode = "tls" /\ ("accepted" \in seen' \/ "early" \in seen')
  BY <1>1, <1>2 DEF Knows, HelloInv
<1>5. CASE ~Watching
  <2>1. obs' = obs /\ ~On'
    BY <1>5 DEF ObserveLine, On, Watching
  <2>2. OutcomeInv'
    BY <1>1, <1>2, <1>3, <2>1 DEF Knows, OutcomeInv
  <2>3. HelloInv'
    BY <1>2, <1>4, <1>5, <2>1 DEF Knows, HelloInv, Watching
  <2> QED BY <2>2, <2>3 DEF Knows
<1>6. CASE Watching /\ obs.tlsArmed
  <2>1. ObserveTls(t) /\ t \in Tls
    BY <1>1, <1>6 DEF ObserveLine, Knows, OutcomeInv
  <2>2. CASE t = "hello"
    <3>1. obs' = [obs EXCEPT !.fingerprinted = TRUE]
      BY <2>1, <2>2 DEF ObserveTls
    <3>2. /\ obs'.fingerprinted /\ obs'.disabled = obs.disabled /\ obs'.tlsArmed = obs.tlsArmed
          /\ obs'.outcome = obs.outcome /\ obs'.refused = obs.refused
          /\ obs'.premature = obs.premature
      BY <3>1 DEF Observers
    <3>3. OutcomeInv'
      BY <1>1, <1>2, <1>3, <3>2 DEF Knows, OutcomeInv
    <3>4. HelloInv'
      BY <1>2, <1>4, <1>6, <2>2, <3>2 DEF Knows, HelloInv, On, Watching
    <3> QED BY <3>3, <3>4 DEF Knows
  <2>3. CASE t # "hello"
    <3>1. obs' = [obs EXCEPT !.disabled = TRUE]
      BY <2>1, <2>3 DEF ObserveTls
    <3>2. /\ obs'.disabled /\ obs'.fingerprinted = obs.fingerprinted
          /\ obs'.tlsArmed = obs.tlsArmed
          /\ obs'.outcome = obs.outcome /\ obs'.refused = obs.refused
          /\ obs'.premature = obs.premature
      BY <3>1 DEF Observers
    <3>3. seen' \cap Excuses # {}
      <4>1. t = "alert"
        BY <2>1, <2>3 DEF Tls
      <4> QED BY <1>3, <4>1, NotesFacts
    <3>4. OutcomeInv'
      BY <1>1, <1>2, <3>2, <3>3 DEF Knows, OutcomeInv
    <3>5. HelloInv'
      BY <1>2, <1>4, <3>2 DEF Knows, HelloInv, On, Watching
    <3> QED BY <3>4, <3>5 DEF Knows
  <2> QED BY <2>2, <2>3
<1>7. CASE On
  <2>1. Unmoved
    BY <1>7, LineSeen
  <2>2. ~obs.disabled /\ ~obs.fingerprinted /\ ~obs.tlsArmed /\ "accepted" \notin seen
    BY <1>7 DEF On, Watching, Knows, OutcomeInv
  <2>3. CASE obs'.disabled
    <3>1. seen' \cap Excuses # {} /\ (obs'.premature => "early" \in seen')
      <4>1. CASE t = "hello"
        BY <1>2, <1>3, <2>2, <4>1
      <4>2. CASE t # "hello"
        <5>1. obs'.premature = obs.premature /\ ~obs.bdat /\ t \notin Tls
              /\ (t = "BAD" \/ (~obs.inData /\ Len(obs.commands) >= MaxCommands))
          BY <1>7, <2>3, <4>2, LineSeen
        <5>2. Notes(t) \cap Excuses # {}
          BY <1>7, <5>1, GivesUp
        <5> QED BY <1>2, <1>3, <5>1, <5>2 DEF Knows, OutcomeInv
      <4> QED BY <4>1, <4>2
    <3>2. OutcomeInv'
      BY <1>1, <1>2, <2>1, <2>3, <3>1 DEF Knows, OutcomeInv, Unmoved
    <3>3. HelloInv'
      BY <1>4, <2>1, <2>2, <2>3 DEF HelloInv, On, Watching, Unmoved
    <3> QED BY <3>2, <3>3 DEF Knows
  <2>4. CASE ~obs'.disabled
    <3>1. /\ obs'.premature = obs.premature
          /\ \/ ChunkSeen
             \/ t \in Tls /\ TlsSeen
             \/ t \notin Tls
      BY <1>7, <2>4, LineSeen
    <3>2. t \in Tls => obs'.clientPart
      <4>1. ChunkSeen => t = "STARTTLS"
        BY <1>1, <1>7 DEF ChunkSeen, Recorded, FlagInv
      <4> QED BY <3>1, <4>1 DEF TlsSeen, Tls
    <3>3. OutcomeInv'
      BY <1>1, <1>2, <2>1, <2>2, <2>4, <3>1 DEF Knows, OutcomeInv, Unmoved
    <3>4. "hello" \in seen' => t \in Tls
      BY <1>1, <1>2 DEF Knows, HelloInv
    <3>5. HelloInv'
      BY <1>4, <2>1, <2>2, <3>2, <3>4 DEF HelloInv, Unmoved
    <3> QED BY <3>3, <3>5 DEF Knows
  <2> QED BY <2>3, <2>4
<1> QED BY <1>5, <1>6, <1>7 DEF On

LEMMA KnowsPart ==
  ASSUME TypeOK, Knows, NEW t \in Lines, NEW first \in BOOLEAN, ReadPart(t, first)
  PROVE  Knows'
<1> USE Types
<1>1. /\ client' = client /\ backend' = backend /\ ObservePart(t, first)
      /\ seen' = seen \cup (Notes(t) \cap {"early"})
  BY DEF ReadPart
<1>2. obs' \in Observers /\ Unmoved
  BY <1>1, PartSeen
<1>3. /\ "accepted" \in seen' <=> "accepted" \in seen
      /\ "refused" \in seen' <=> "refused" \in seen
      /\ "hello" \in seen' <=> "hello" \in seen
      /\ "early" \in seen => "early" \in seen'
      /\ t = "hello" /\ "accepted" \notin seen => "early" \in seen'
  BY <1>1, NotesFacts DEF Tls
<1>4. /\ seen \cap Excuses # {} => seen' \cap Excuses # {}
      /\ "early" \in seen' => seen' \cap Excuses # {}
  BY <1>1 DEF Excuses
<1>5. CASE obs' = obs
  <2>1. OutcomeInv'
    BY <1>1, <1>3, <1>4, <1>5 DEF Knows, OutcomeInv
  <2>2. HelloInv'
    BY <1>1, <1>3, <1>5 DEF Knows, HelloInv, On, Watching
  <2> QED BY <2>1, <2>2 DEF Knows
<1>6. ASSUME On PROVE ~obs.disabled /\ ~obs.fingerprinted /\ ~obs.tlsArmed /\ "accepted" \notin seen
  BY <1>6 DEF On, Watching, Knows, OutcomeInv
<1>7. CASE On /\ obs'.disabled /\ obs'.premature /\ t = "hello"
  <2>1. "early" \in seen'
    BY <1>3, <1>6, <1>7
  <2>2. OutcomeInv'
    BY <1>1, <1>2, <1>3, <1>4, <1>7, <2>1 DEF Knows, OutcomeInv, Unmoved
  <2>3. HelloInv'
    BY <1>1, <1>2, <1>3, <1>6, <1>7 DEF Knows, HelloInv, On, Watching, Unmoved
  <2> QED BY <2>2, <2>3 DEF Knows
<1>8. CASE On /\ ~obs'.disabled /\ obs'.premature = obs.premature /\ obs'.clientPart
  <2>1. OutcomeInv'
    BY <1>1, <1>2, <1>3, <1>4, <1>6, <1>8 DEF Knows, OutcomeInv, Unmoved
  <2>2. HelloInv'
    BY <1>1, <1>2, <1>3, <1>6, <1>8 DEF Knows, HelloInv, Unmoved
  <2> QED BY <2>1, <2>2 DEF Knows
<1> QED BY <1>1, <1>5, <1>7, <1>8, PartSeen

LEMMA KnowsRead ==
  ASSUME TypeOK, Protocol, Recorded, Knows, ReadReply
  PROVE  Knows'
<1> USE Types
<1> DEFINE r == down.sent[1]
<1>1. /\ client' = client /\ backend' = backend /\ ObserveReply(r) /\ seen' = seen \cup Facts(r)
  BY DEF ReadReply
<1>2. r \in Replies
  BY DEF ReadReply
<1> HIDE DEF r
<1>3. /\ "hello" \in seen' <=> "hello" \in seen
      /\ "early" \in seen => "early" \in seen'
      /\ "accepted" \in seen => "accepted" \in seen'
      /\ "refused" \in seen => "refused" \in seen'
      /\ seen \cap Excuses # {} => seen' \cap Excuses # {}
  BY <1>1 DEF Facts
<1>4. ASSUME r.code # "long", r.to # "STARTTLS" PROVE seen' = seen
  BY <1>1, <1>4 DEF Facts
<1>5. CASE ~On
  <2>1. obs' = obs /\ ~On'
    BY <1>1, <1>5 DEF ObserveReply, On, Watching
  <2>2. OutcomeInv'
    BY <1>1, <1>3, <1>5, <2>1 DEF Knows, OutcomeInv, HelloInv, On, Watching
  <2>3. HelloInv'
    BY <1>1, <1>3, <2>1 DEF Knows, HelloInv
  <2> QED BY <2>2, <2>3 DEF Knows
<1>6. CASE On
  <2>1. ~obs.disabled /\ ~obs.fingerprinted /\ ~obs.tlsArmed /\ "accepted" \notin seen
    BY <1>6 DEF On, Watching, Knows, OutcomeInv
  <2>2. /\ ReplyOK(r)
        /\ Upgrades(r) => backend = "tls"
        /\ ~obs.greeted => (Final(r) => r.to = "greeting")
        /\ obs.greeted => (Final(r) => obs.commands # <<>> /\ Head(obs.commands) = r.to)
    BY <1>6, ReadAs DEF r
  <2>3. /\ obs'.fingerprinted = obs.fingerprinted /\ obs'.premature = obs.premature
        /\ ~obs'.tlsArmed => obs'.clientPart = obs.clientPart
    BY <1>1, <1>2, <1>6, ReplySeen
  <2>4. CASE r.code = "long" /\ obs'.disabled /\ obs'.tlsArmed = obs.tlsArmed
               /\ obs'.refused = obs.refused /\ obs'.outcome = obs.outcome
    <3>1. seen' \cap Excuses # {}
      BY <1>1, <2>4 DEF Facts, Excuses
    <3>2. OutcomeInv'
      BY <1>1, <1>3, <2>1, <2>3, <2>4, <3>1 DEF Knows, OutcomeInv
    <3>3. HelloInv'
      BY <1>1, <1>3, <2>1, <2>3, <2>4 DEF Knows, HelloInv, On, Watching
    <3> QED BY <3>2, <3>3 DEF Knows
  <2>5. ASSUME seen' = seen, ~obs'.disabled, obs'.tlsArmed = obs.tlsArmed,
               obs'.refused = obs.refused, obs'.outcome = obs.outcome
        PROVE  Knows'
    <3>1. OutcomeInv'
      BY <1>1, <2>1, <2>3, <2>5 DEF Knows, OutcomeInv
    <3>2. HelloInv'
      BY <1>1, <1>6, <2>1, <2>3, <2>5 DEF Knows, HelloInv
    <3> QED BY <3>1, <3>2 DEF Knows
  <2>6. CASE /\ r.code = "more" /\ ~obs'.disabled /\ obs'.tlsArmed = obs.tlsArmed
             /\ obs'.refused = obs.refused /\ obs'.outcome = obs.outcome
    <3>1. r.code # "long" /\ r.to # "STARTTLS"
      BY <2>2, <2>6 DEF ReplyOK
    <3> QED BY <1>4, <2>5, <2>6, <3>1
  <2>7. CASE Final(r) /\ ~obs'.disabled /\ GreetingSeen
    <3>1. r.to = "greeting" /\ r.code # "long"
      BY <2>2, <2>7 DEF GreetingSeen, Final
    <3> QED BY <1>4, <2>5, <2>7, <3>1 DEF GreetingSeen
  <2>8. CASE Final(r) /\ ~obs'.disabled /\ obs.greeted /\ Accepts(r)
    <3>1. r.to = "STARTTLS" /\ r.code = "220"
      BY <2>2, <2>8 DEF Accepts
    <3>2. "accepted" \in seen' /\ backend = "tls" /\ ("refused" \in seen' <=> "refused" \in seen)
      BY <1>1, <2>2, <3>1 DEF Facts, Upgrades
    <3>3. OutcomeInv'
      BY <1>1, <1>3, <2>1, <2>3, <2>8, <3>2 DEF Knows, OutcomeInv, Accepts
    <3>4. HelloInv'
      BY <1>1, <1>3, <2>1, <2>3, <2>8, <3>2 DEF Knows, HelloInv, Accepts, On, Watching
    <3> QED BY <3>3, <3>4 DEF Knows
  <2>9. CASE Final(r) /\ ~obs'.disabled /\ obs.greeted /\ Refuses(r)
    <3>1. r.to = "STARTTLS" /\ r.code # "220" /\ r.code # "long"
      BY <2>2, <2>9 DEF Refuses, Final
    <3>2. "refused" \in seen' /\ "accepted" \notin seen'
      BY <1>1, <2>1, <3>1 DEF Facts
    <3>3. OutcomeInv'
      BY <1>1, <1>3, <2>1, <2>3, <2>9, <3>2 DEF Knows, OutcomeInv, Refuses
    <3>4. HelloInv'
      BY <1>1, <1>3, <1>6, <2>1, <2>3, <2>9 DEF Knows, HelloInv, Refuses
    <3> QED BY <3>3, <3>4 DEF Knows
  <2>10. CASE Final(r) /\ ~obs'.disabled /\ obs.greeted /\ AnswerSeen(r)
    <3>1. r.to # "STARTTLS" /\ r.code # "long"
      BY <2>2, <2>10 DEF AnswerSeen, Final
    <3>2. obs'.tlsArmed = FALSE /\ obs.tlsArmed = FALSE
      <4>1. obs'.tlsArmed \in BOOLEAN /\ obs.tlsArmed \in BOOLEAN
        BY <1>1, <1>2, <1>6, ReplySeen DEF Observers
      <4> QED BY <2>1, <2>10, <4>1 DEF AnswerSeen
    <3> QED BY <1>4, <2>5, <2>10, <3>1, <3>2 DEF AnswerSeen
  <2> QED BY <1>1, <1>2, <1>6, <2>4, <2>6, <2>7, <2>8, <2>9, <2>10, ReplySeen
<1> QED BY <1>5, <1>6

-----------------------------------------------------------------------------
(* The invariant.                                                           *)

\* A report is the snapshot that the end of the connection takes.
Reports ==
  \/ report = NoReport
  \/ report = [state |-> "observer_incomplete", outcome |-> None]
  \/ phase = "ended" /\ report = [state |-> State, outcome |-> Outcome]

IInv == TypeOK /\ Protocol /\ Recorded /\ Knows /\ Reports

LEMMA Start == Init => IInv
<1> SUFFICES ASSUME Init PROVE IInv
  OBVIOUS
<1>1. TypeOK
  <2>1. <<>> \in Seq(Lines) /\ <<>> \in Seq(Replies) /\ <<>> \in Seq(Commands \cup {"."})
    OBVIOUS
  <2>2. obs \in Observers
    BY <2>1 DEF Init, Observers
  <2>3. lines \in 0 .. MaxLines
    <3>1. lines = 0
      BY DEF Init
    <3>2. MaxLines \in Nat
      BY SessionAssumption DEF SessionAssumption
    <3> QED BY <3>1, <3>2
  <2>4. up \in [held : Lines \cup {None}, sent : Seq(Lines)]
    BY <2>1 DEF Init
  <2>5. down \in [held : Replies \cup {NoReply}, begun : BOOLEAN, sent : Seq(Replies)]
    BY <2>1 DEF Init
  <2>6. /\ phase \in {"dialing", "relaying", "ended"} /\ begun \in Lines \cup {None}
        /\ client \in [mode : {"command", "wait", "data", "bdat", "tls"}, owed : Nat]
        /\ backend \in {"silent", "command", "data", "bdat", "tls"}
        /\ seen \subseteq Excuses \cup {"accepted", "refused", "hello"}
    BY DEF Init
  <2>7. report \in [state : States \cup {None}, outcome : {None, "unknown", "not_seen", "refused", "accepted"}]
    BY DEF Init, NoReport
  <2> QED BY <2>2, <2>3, <2>4, <2>5, <2>6, <2>7 DEF TypeOK, Observers
<1>2. Under = <<>> /\ down.sent = <<>> /\ backend = "silent" /\ client.mode = "command"
      /\ client.owed = 1 /\ down.held = NoReply
  BY DEF Init, Under
<1>3. AnsweredIn(<<>>, "silent") = {} /\ Finals(<<>>) = {}
  <2>1. Len(<<>>) = 0 /\ 1 .. 0 = {} /\ DOMAIN <<>> = {}
    OBVIOUS
  <2> QED BY <2>1 DEF AnsweredIn, Finals
<1>4. /\ Cardinality(Finals(<<>>)) = 0 /\ Cardinality(AnsweredIn(<<>>, "silent")) = 0
      /\ Due("silent") = 1 /\ Count(<<>>, "silent", <<>>) = 1
  <2>1. Cardinality(Finals(<<>>)) = 0 /\ Cardinality(AnsweredIn(<<>>, "silent")) = 0
    BY <1>3, RankNone, Zenon
  <2>2. Due("silent") = 1
    BY DEF Due
  <2> QED BY <2>1, <2>2 DEF Count
<1>5. LinesInv
  <2>1. Shape(<<>>, "silent")
    BY DEF Shape
  <2>2. Ahead(<<>>, "silent", "command")
    BY <1>3 DEF Ahead
  <2> QED BY <1>2, <2>1, <2>2 DEF LinesInv
<1>6. Owes
  <2>1. Held = 0
    BY <1>2 DEF Held
  <2> QED BY <1>2, <1>4, <2>1 DEF Owes
<1>7. WaitInv
  BY <1>2 DEF WaitInv
<1>8. DownInv
  <2>1. Latest = NoReply /\ \A k \in 1 .. Len(down.sent) : FALSE
    BY <1>2 DEF Latest
  <2> QED BY <1>2, <2>1, NoReplyFacts DEF DownInv, None
<1>9. /\ obs.greeted = FALSE /\ obs.commands = <<>> /\ obs.inData = FALSE /\ obs.bdat = FALSE
      /\ obs.tlsArmed = FALSE /\ obs.fingerprinted = FALSE /\ obs.disabled = FALSE
      /\ obs.premature = FALSE /\ obs.refused = FALSE /\ obs.outcome = "" /\ seen = {}
  BY DEF Init
<1>10. PairInv
  <2>1. Expected = <<"greeting">>
    <3>1. <<"greeting">> \o <<>> = <<"greeting">>
      OBVIOUS
    <3> QED BY <1>9, <3>1 DEF Expected
  <2>2. Matches(<<"greeting">>, <<>>, "silent", <<>>)
    <3>1. Len(<<"greeting">>) = 1 /\ <<"greeting">>[1] = "greeting" /\ 0 + 1 = 1
      OBVIOUS
    <3>2. (\A k \in Finals(<<>>) : FALSE) /\ (\A k \in AnsweredIn(<<>>, "silent") : FALSE)
      BY <1>3, Zenon
    <3> QED BY <1>4, <3>1, <3>2 DEF Matches
  <2> QED BY <1>2, <2>1, <2>2 DEF PairInv
<1>11. FlagInv
  BY <1>2, <1>9 DEF FlagInv
<1>12. Knows
  BY <1>9 DEF Knows, OutcomeInv, HelloInv
<1>13. Reports
  BY DEF Init, Reports
<1> QED BY <1>1, <1>5, <1>6, <1>7, <1>8, <1>10, <1>11, <1>12, <1>13 DEF IInv, Protocol, Recorded

\* Every step but the end keeps the report, and only an open connection takes one.
LEMMA ReportsStay ==
  ASSUME Reports, phase # "ended", report' = report
  PROVE  Reports'
BY DEF Reports

\* A step that changes nothing that the pumps and the observer know.
Quiet == UNCHANGED <<client, begun, up, backend, down, obs, seen, lines>>

LEMMA QuietStays ==
  ASSUME IInv, Quiet
  PROVE  Protocol' /\ Recorded' /\ Knows'
<1>1. Under' = Under /\ (On' <=> On)
  BY DEF Quiet, Under, On, Watching
<1>2. Protocol'
  BY <1>1, ProtocolStays DEF IInv, Quiet
<1>3. Recorded'
  BY <1>1, RecordedStays DEF IInv, Quiet
<1>4. Knows'
  BY KnowsStays DEF IInv, Quiet
<1> QED BY <1>2, <1>3, <1>4

LEMMA HandlerStep ==
  ASSUME IInv, Refuse \/ SetupFails \/ Connect \/ Finish
  PROVE  IInv'
<1> USE DEF IInv
<1>1. Quiet /\ phase # "ended" /\ phase' \in {"relaying", "ended"}
  BY DEF Refuse, SetupFails, Connect, Finish, Ends, Quiet
<1>2. Protocol' /\ Recorded' /\ Knows'
  BY <1>1, QuietStays
<1>3. State \in States /\ Outcome \in {"unknown", "not_seen", "refused", "accepted"}
  <2>1. State \in States
    BY DEF State, States
  <2>2. obs.outcome \in {"", "accepted", "refused"}
    BY DEF TypeOK
  <2> QED BY <2>1, <2>2 DEF Outcome
<1>4. /\ Reports'
      /\ report' \in [state : States \cup {None},
                      outcome : {None, "unknown", "not_seen", "refused", "accepted"}]
  <2>1. CASE Refuse \/ Connect
    <3>1. report' = report
      BY <2>1 DEF Refuse, Connect
    <3> QED BY <1>1, <3>1, ReportsStay DEF TypeOK
  <2>2. CASE SetupFails
    <3>1. report' = [state |-> "observer_incomplete", outcome |-> None]
      BY <2>2 DEF SetupFails, Ends
    <3> QED BY <3>1 DEF Reports, States
  <2>3. CASE Finish
    <3>1. report' = [state |-> State, outcome |-> Outcome] /\ phase' = "ended"
      BY <2>3 DEF Finish, Ends
    <3>2. State' = State /\ Outcome' = Outcome
      BY <1>1 DEF Quiet, State, Outcome
    <3> QED BY <1>3, <3>1, <3>2 DEF Reports
  <2> QED BY <2>1, <2>2, <2>3
<1>5. TypeOK'
  <2>1. /\ client' = client /\ begun' = begun /\ up' = up /\ backend' = backend /\ down' = down
        /\ obs' = obs /\ seen' = seen /\ lines' = lines
    BY <1>1 DEF Quiet
  <2>2. phase' \in {"dialing", "relaying", "ended"}
    BY <1>1
  <2>3. obs' \in Observers
    BY <2>1, Types
  <2>9. Places'
    BY <1>4, <2>1, <2>2, <2>3, PlacesFact DEF Places
  <2> QED BY <1>4, <2>1, <2>2, <2>3, <2>9, TypesNext
<1> QED BY <1>2, <1>4, <1>5

LEMMA ReadPartStep ==
  ASSUME IInv, NEW t \in Lines, NEW first \in BOOLEAN, ReadPart(t, first)
  PROVE  IInv'
<1> USE Types DEF IInv
<1>1. /\ phase = "relaying" /\ phase' = phase /\ client' = client /\ up' = up /\ backend' = backend
      /\ down' = down /\ report' = report /\ lines' = lines /\ begun' = t
      /\ ObservePart(t, first) /\ seen' = seen \cup (Notes(t) \cap {"early"})
  BY DEF ReadPart, ClientReads
<1>2. /\ obs' \in Observers /\ Unmoved
      /\ obs'.commands = obs.commands /\ obs'.inData = obs.inData /\ obs'.bdat = obs.bdat
      /\ obs' = obs \/ On
  BY <1>1, PartSeen
<1>3. TypeOK'
  <2>1. seen' \subseteq Excuses \cup {"accepted", "refused", "hello"}
    BY <1>1 DEF TypeOK, Excuses
  <2>9. Places'
    BY <1>1, <1>2, <2>1, PlacesFact DEF Places
  <2> QED BY <1>1, <1>2, <2>1, <2>9, TypesNext
<1>4. Under' = Under
  BY <1>1 DEF Under
<1>5. Protocol'
  BY <1>1, <1>4, ProtocolStays
<1>6. On' => On
  BY <1>2 DEF On, Watching
<1>7. Recorded'
  BY <1>1, <1>2, <1>4, <1>6, RecordedStays DEF Unmoved
<1>8. Knows'
  BY KnowsPart
<1>9. Reports'
  BY <1>1, ReportsStay
<1> QED BY <1>3, <1>5, <1>7, <1>8, <1>9

LEMMA ReadLineStep ==
  ASSUME IInv, NEW t \in Lines, NEW first \in BOOLEAN, ReadLine(t, first)
  PROVE  IInv'
<1> USE Types DEF IInv
<1>1. /\ phase = "relaying" /\ phase' = phase /\ backend' = backend /\ down' = down
      /\ report' = report /\ lines < MaxLines /\ lines' = lines + 1 /\ begun' = None
      /\ ObserveLine(t, first) /\ seen' = seen \cup NewNotes(t)
      /\ up' = [up EXCEPT !.held = t] /\ ClientSends(t)
  BY DEF ReadLine, ClientReads, NewNotes
<1>2. Sent(t)
  BY SentFacts
<1>3. Protocol'
  BY <1>2, ProtocolSent
<1>4. obs' \in Observers /\ (~On => ~On')
  <2>1. CASE On
    BY <1>1, <2>1, LineSeen
  <2>2. CASE ~Watching
    BY <1>1, <2>2 DEF ObserveLine, On, Watching
  <2>3. CASE Watching /\ obs.tlsArmed
    <3>1. \/ obs' = [obs EXCEPT !.fingerprinted = TRUE]
          \/ obs' = [obs EXCEPT !.disabled = TRUE]
      BY <1>1, <2>3 DEF ObserveLine, ObserveTls
    <3> QED BY <2>3, <3>1 DEF Observers, On
  <2> QED BY <2>1, <2>2, <2>3 DEF On
<1>5. Recorded'
  <2>1. CASE On
    BY <1>1, <1>2, <2>1, RecordedSent
  <2>2. CASE ~On
    BY <1>4, <2>2 DEF Recorded, PairInv, FlagInv
  <2> QED BY <2>1, <2>2
<1>6. Knows'
  BY <1>1, <1>2, KnowsSent
<1>7. Reports'
  BY <1>1, ReportsStay
<1>8. TypeOK'
  <2>1. client' \in [mode : {"command", "wait", "data", "bdat", "tls"}, owed : Nat]
    <3>1. client'.mode \in Modes /\ client'.owed \in Nat
      BY <1>2 DEF Sent, ModeAfter, Modes
    <3>2. client' = [mode |-> client'.mode, owed |-> client'.owed]
      BY <1>1 DEF ClientSends
    <3> QED BY <3>1, <3>2 DEF Modes
  <2>2. seen' \subseteq Excuses \cup {"accepted", "refused", "hello"}
    <3>1. NewNotes(t) \subseteq Excuses \cup {"hello"}
      BY NotesFacts DEF NewNotes
    <3> QED BY <1>1, <3>1 DEF TypeOK
  <2>3. lines' \in 0 .. MaxLines
    <3>1. lines \in 0 .. MaxLines
      BY DEF TypeOK
    <3>2. lines \in Nat /\ MaxLines \in Nat
      BY <3>1, SessionAssumption DEF SessionAssumption
    <3> QED BY <1>1, <3>2
  <2>4. up' \in [held : Lines \cup {None}, sent : Seq(Lines)]
    BY <1>1 DEF TypeOK
  <2>9. Places'
    BY <1>1, <1>4, <2>1, <2>2, <2>3, <2>4, PlacesFact DEF Places
  <2> QED BY <1>1, <1>4, <2>1, <2>2, <2>3, <2>4, <2>9, TypesNext
<1> QED BY <1>3, <1>5, <1>6, <1>7, <1>8

LEMMA WriteLineStep ==
  ASSUME IInv, WriteLine
  PROVE  IInv'
<1> USE Types DEF IInv
<1>1. /\ phase = "relaying" /\ phase' = phase /\ client' = client /\ begun' = begun
      /\ backend' = backend /\ down' = down /\ obs' = obs /\ report' = report /\ seen' = seen
      /\ lines' = lines /\ up.held # None
      /\ up' = [held |-> None, sent |-> Append(up.sent, up.held)]
  BY DEF WriteLine
<1>2. up.held \in Lines /\ up.sent \in Seq(Lines)
  BY <1>1 DEF TypeOK
<1>3. Under' = Under
  BY <1>1 DEF Under
<1>4. TypeOK'
  <2>1. up' \in [held : Lines \cup {None}, sent : Seq(Lines)]
    BY <1>1, <1>2
  <2>2. obs' \in Observers
    BY <1>1
  <2>9. Places'
    BY <1>1, <2>1, <2>2, PlacesFact DEF Places
  <2> QED BY <1>1, <2>1, <2>2, <2>9, TypesNext
<1>5. Protocol'
  BY <1>1, <1>3, ProtocolStays
<1>6. On' <=> On
  BY <1>1 DEF On, Watching
<1>7. Recorded'
  BY <1>1, <1>3, <1>6, RecordedStays
<1>8. Knows'
  BY <1>1, KnowsStays
<1>9. Reports'
  BY <1>1, ReportsStay
<1> QED BY <1>4, <1>5, <1>7, <1>8, <1>9

LEMMA GreetStep ==
  ASSUME IInv, Greet
  PROVE  IInv'
<1> USE Types DEF IInv
<1> DEFINE rs == <<Reply("220", "greeting")>>
<1>1. /\ phase = "relaying" /\ phase' = phase /\ client' = client /\ begun' = begun /\ up' = up
      /\ backend = "silent" /\ backend' = "command" /\ obs' = obs /\ report' = report
      /\ seen' = seen /\ lines' = lines /\ down' = [down EXCEPT !.sent = @ \o rs]
  BY DEF Greet, Answers
<1>2. down' \in [held : Replies \cup {NoReply}, begun : BOOLEAN, sent : Seq(Replies)]
  <2>1. Reply("220", "greeting") \in Replies
    BY DEF Reply, Replies, Codes
  <2>2. down.sent \o rs \in Seq(Replies)
    BY <2>1
  <2> HIDE DEF rs
  <2> QED BY <1>1, <2>2 DEF TypeOK
<1>3. TypeOK'
  <2>1. obs' \in Observers
    BY <1>1
  <2>9. Places'
    BY <1>1, <1>2, <2>1, PlacesFact DEF Places
  <2> QED BY <1>1, <1>2, <2>1, <2>9, TypesNext
<1>4. Protocol' /\ Recorded'
  BY ProtocolGreeted, RecordedGreeted
<1>5. Knows'
  BY <1>1, KnowsStays
<1>6. Reports'
  BY <1>1, ReportsStay
<1> QED BY <1>3, <1>4, <1>5, <1>6

LEMMA ServeStep ==
  ASSUME IInv, Serve
  PROVE  IInv'
<1> USE Types DEF IInv
<1>1. PICK c, rs : Served(c, rs)
  <2>1. Shape(Under, backend)
    BY DEF Protocol, LinesInv
  <2> QED BY <2>1, ServedFacts
<1>2. /\ phase = "relaying" /\ begun' = begun /\ lines' = lines
      /\ up.sent # <<>> /\ up' = [up EXCEPT !.sent = Tail(@)]
  BY DEF Serve, Answer, Answers
<1>3. /\ phase' = phase /\ client' = client /\ obs' = obs /\ seen' = seen /\ report' = report
      /\ c \in Backends /\ backend' = c /\ Serves(backend, Under[1], c)
      /\ down' \in [held : Replies \cup {NoReply}, begun : BOOLEAN, sent : Seq(Replies)]
  BY <1>1 DEF Served
<1>4. TypeOK'
  <2>1. obs' \in Observers
    BY <1>3
  <2>2. up' \in [held : Lines \cup {None}, sent : Seq(Lines)]
    <3>1. up.sent \in Seq(Lines) /\ up \in [held : Lines \cup {None}, sent : Seq(Lines)]
      BY DEF TypeOK
    <3>2. Tail(up.sent) \in Seq(Lines)
      BY <1>2, <3>1
    <3> QED BY <1>2, <3>1, <3>2
  <2>9. Places'
    BY <1>2, <1>3, <2>1, <2>2, PlacesFact DEF Places, Backends
  <2> QED BY <1>2, <1>3, <2>1, <2>2, <2>9, TypesNext
<1>5. Protocol'
  BY <1>1, ProtocolServed
<1>6. Recorded'
  BY <1>1, RecordedServed
<1>7. Knows'
  <2>1. backend = "tls" => backend' = "tls"
    BY <1>3 DEF Serves
  <2> QED BY <1>3, <2>1, KnowsStays
<1>8. Reports'
  BY <1>2, <1>3, ReportsStay
<1> QED BY <1>4, <1>5, <1>6, <1>7, <1>8

LEMMA ReadReplyPartStep ==
  ASSUME IInv, ReadReplyPart
  PROVE  IInv'
<1> USE Types DEF IInv
<1>1. /\ phase = "relaying" /\ phase' = phase /\ client' = client /\ begun' = begun /\ up' = up
      /\ backend' = backend /\ report' = report /\ seen' = seen /\ lines' = lines
      /\ down' = [down EXCEPT !.begun = TRUE]
      /\ obs' = obs \/ obs' = [obs EXCEPT !.serverPart = TRUE]
  BY DEF ReadReplyPart
<1>2. /\ down'.sent = down.sent /\ down'.held = down.held
      /\ down' \in [held : Replies \cup {NoReply}, begun : BOOLEAN, sent : Seq(Replies)]
  BY <1>1 DEF TypeOK
<1>3. /\ obs' \in Observers
      /\ obs'.greeted = obs.greeted /\ obs'.commands = obs.commands /\ obs'.inData = obs.inData
      /\ obs'.bdat = obs.bdat /\ obs'.clientPart = obs.clientPart
      /\ obs'.tlsArmed = obs.tlsArmed /\ obs'.fingerprinted = obs.fingerprinted
      /\ obs'.disabled = obs.disabled /\ obs'.premature = obs.premature
      /\ obs'.refused = obs.refused /\ obs'.outcome = obs.outcome
  <2>1. CASE obs' = obs
    BY <2>1
  <2>2. CASE obs' = [obs EXCEPT !.serverPart = TRUE]
    BY <2>2 DEF Observers
  <2> QED BY <1>1, <2>1, <2>2
<1>4. Under' = Under /\ (On' <=> On)
  BY <1>1, <1>3 DEF Under, On, Watching
<1>5. TypeOK'
  <2>1. Places'
    BY <1>1, <1>2, <1>3, PlacesFact DEF Places
  <2> QED BY <1>1, <1>2, <1>3, <2>1, TypesNext
<1>6. Protocol'
  BY <1>1, <1>2, <1>4, ProtocolStays
<1>7. Recorded'
  BY <1>1, <1>2, <1>3, <1>4, RecordedStays
<1>8. Knows'
  BY <1>1, <1>3, KnowsStays
<1>9. Reports'
  BY <1>1, ReportsStay
<1> QED BY <1>5, <1>6, <1>7, <1>8, <1>9

LEMMA ReadReplyStep ==
  ASSUME IInv, ReadReply
  PROVE  IInv'
<1> USE Types DEF IInv
<1> DEFINE r == down.sent[1]
<1>1. /\ phase = "relaying" /\ phase' = phase /\ client' = client /\ begun' = begun /\ up' = up
      /\ backend' = backend /\ report' = report /\ lines' = lines
      /\ down' = [held |-> r, begun |-> FALSE, sent |-> Tail(down.sent)]
      /\ ObserveReply(r) /\ seen' = seen \cup Facts(r)
  BY DEF ReadReply
<1>2. r \in Replies /\ Tail(down.sent) \in Seq(Replies)
  BY DEF ReadReply
<1> HIDE DEF r
<1>3. obs' \in Observers /\ (~On => ~On')
  <2>1. CASE On
    BY <1>1, <1>2, <2>1, ReplySeen
  <2>2. CASE ~On
    BY <1>1, <2>2 DEF ObserveReply, On, Watching
  <2> QED BY <2>1, <2>2
<1>4. TypeOK'
  <2>1. Facts(r) \subseteq Excuses \cup {"accepted", "refused", "hello"}
    BY DEF Facts, Excuses
  <2>2. seen' \subseteq Excuses \cup {"accepted", "refused", "hello"}
    BY <1>1, <2>1 DEF TypeOK
  <2>3. down' \in [held : Replies \cup {NoReply}, begun : BOOLEAN, sent : Seq(Replies)]
    BY <1>1, <1>2
  <2>9. Places'
    BY <1>1, <1>3, <2>2, <2>3, PlacesFact DEF Places
  <2> QED BY <1>1, <1>3, <2>2, <2>3, <2>9, TypesNext
<1>5. Protocol'
  BY ProtocolRead
<1>6. Recorded'
  <2>1. CASE On
    BY <2>1, RecordedRead
  <2>2. CASE ~On
    BY <1>3, <2>2 DEF Recorded, PairInv, FlagInv
  <2> QED BY <2>1, <2>2
<1>7. Knows'
  BY KnowsRead
<1>8. Reports'
  BY <1>1, ReportsStay
<1> QED BY <1>4, <1>5, <1>6, <1>7, <1>8

LEMMA WriteReplyStep ==
  ASSUME IInv, WriteReply
  PROVE  IInv'
<1> USE Types DEF IInv
<1>1. /\ phase = "relaying" /\ phase' = phase /\ begun' = begun /\ up' = up /\ backend' = backend
      /\ obs' = obs /\ report' = report /\ seen' = seen /\ lines' = lines
      /\ down' = [down EXCEPT !.held = NoReply] /\ client' = Receives(down.held)
  BY DEF WriteReply
<1>2. Protocol' /\ client'.owed \in Nat
  BY ProtocolReceived
<1>3. client'.mode \in Modes /\ (client.mode = "tls" => client'.mode = "tls")
  BY ReceivedFacts DEF Became, Modes
<1>4. TypeOK'
  <2>1. client' \in [mode : {"command", "wait", "data", "bdat", "tls"}, owed : Nat]
    <3>1. client' = client \/ client' = [mode |-> client'.mode, owed |-> client'.owed]
      BY <1>1 DEF Receives
    <3>2. CASE client' = client
      BY <3>2 DEF TypeOK
    <3>3. CASE client' = [mode |-> client'.mode, owed |-> client'.owed]
      BY <1>2, <1>3, <3>3 DEF Modes
    <3> QED BY <3>1, <3>2, <3>3
  <2>2. obs' \in Observers
    BY <1>1
  <2>3. down' \in [held : Replies \cup {NoReply}, begun : BOOLEAN, sent : Seq(Replies)]
    BY <1>1 DEF TypeOK
  <2>9. Places'
    BY <1>1, <2>1, <2>2, <2>3, PlacesFact DEF Places
  <2> QED BY <1>1, <2>1, <2>2, <2>3, <2>9, TypesNext
<1>5. Recorded'
  BY RecordedReceived
<1>6. Knows'
  BY <1>1, <1>3, KnowsStays
<1>7. Reports'
  BY <1>1, ReportsStay
<1> QED BY <1>2, <1>4, <1>5, <1>6, <1>7

\* Every state that a run of the program reaches satisfies the invariant.
THEOREM Invariance == Spec => []IInv
<1>1. Init => IInv
  BY Start
<1>2. IInv /\ [Next]_vars => IInv'
  <2> SUFFICES ASSUME IInv, [Next]_vars PROVE IInv'
    OBVIOUS
  <2>1. ASSUME NEW t \in Lines, NEW first \in BOOLEAN, ReadPart(t, first) PROVE IInv'
    BY <2>1, ReadPartStep
  <2>2. ASSUME NEW t \in Lines, NEW first \in BOOLEAN, ReadLine(t, first) PROVE IInv'
    BY <2>2, ReadLineStep
  <2>3. CASE WriteLine
    BY <2>3, WriteLineStep
  <2>4. CASE Greet
    BY <2>4, GreetStep
  <2>5. CASE Serve
    BY <2>5, ServeStep
  <2>6. CASE ReadReplyPart
    BY <2>6, ReadReplyPartStep
  <2>7. CASE ReadReply
    BY <2>7, ReadReplyStep
  <2>8. CASE WriteReply
    BY <2>8, WriteReplyStep
  <2>9. CASE Refuse \/ SetupFails \/ Connect \/ Finish
    BY <2>9, HandlerStep
  <2>10. CASE UNCHANGED vars
    <3>1. /\ Under' = Under /\ (On' <=> On) /\ Expected' = Expected
          /\ State' = State /\ Outcome' = Outcome
      BY <2>10 DEF vars, Under, On, Watching, Expected, State, Outcome
    <3>2. Quiet /\ phase' = phase /\ report' = report
      BY <2>10 DEF vars, Quiet
    <3>3. Protocol' /\ Recorded' /\ Knows'
      BY <3>2, QuietStays
    <3>4. Reports'
      BY <3>1, <3>2 DEF IInv, Reports
    <3>5. TypeOK'
      <4>1. /\ client' = client /\ begun' = begun /\ up' = up /\ backend' = backend
            /\ down' = down /\ obs' = obs /\ seen' = seen /\ lines' = lines
        BY <3>2 DEF Quiet
      <4>2. TypeOK /\ obs' \in Observers
        BY <4>1, Types DEF IInv
      <4>3. /\ phase' \in {"dialing", "relaying", "ended"}
            /\ report' \in [state : States \cup {None},
                            outcome : {None, "unknown", "not_seen", "refused", "accepted"}]
        BY <3>2, <4>2 DEF TypeOK
      <4>9. Places'
        BY <4>1, <4>2, <4>3, PlacesFact DEF Places
      <4> QED BY <4>1, <4>2, <4>3, <4>9, TypesNext
    <3> QED BY <3>3, <3>4, <3>5 DEF IInv
  <2> QED BY <2>1, <2>2, <2>3, <2>4, <2>5, <2>6, <2>7, <2>8, <2>9, <2>10 DEF Next
<1> QED BY <1>1, <1>2, PTL DEF Spec

\* The client, the pumps, the backend and the observer keep to the values they are
\* declared with: no client is owed less than nothing.
THEOREM TypeCorrect == Spec => []TypeOK
<1>1. IInv => TypeOK
  BY DEF IInv
<1> QED BY <1>1, Invariance, PTL

\* Each reply that smtpObserver.server is about to be shown answers the command it will
\* be paired with, and none is left over.
THEOREM PairedAlways == Spec => []RepliesPaired
<1>1. IInv => RepliesPaired
  <2> SUFFICES ASSUME IInv, Watching, ~obs.tlsArmed
               PROVE  /\ \A k \in Finals(down.sent) :
                           /\ Rank(Finals(down.sent), k) <= Len(Expected)
                           /\ down.sent[k].to = Expected[Rank(Finals(down.sent), k)]
                      /\ up.held = None /\ up.sent = <<>> /\ backend = "command" =>
                           Cardinality(Finals(down.sent)) = Len(Expected)
    BY DEF RepliesPaired
  <2> USE Types DEF IInv
  <2>1. Matches(Expected, down.sent, backend, Under)
    BY DEF Recorded, PairInv, On
  <2> DEFINE D == Cardinality(Finals(down.sent))
             I == AnsweredIn(Under, backend)
  <2>2. /\ D \in Nat /\ Due(backend) \in {0, 1} /\ Cardinality(I) \in Nat
        /\ Len(Expected) = D + Due(backend) + Cardinality(I)
        /\ \A k \in Finals(down.sent) : Rank(Finals(down.sent), k) \in 1 .. D
    BY <2>1, CountFacts DEF Matches
  <2>3. \A k \in Finals(down.sent) : down.sent[k].to = Expected[Rank(Finals(down.sent), k)]
    BY <2>1 DEF Matches
  <2>4. up.held = None /\ up.sent = <<>> => I = {}
    BY DEF Under, AnsweredIn
  <2>5. I = {} => Cardinality(I) = 0
    BY RankNone
  <2>6. backend = "command" => Due(backend) = 0
    BY DEF Due
  <2> HIDE DEF D, I
  <2>7. up.held = None /\ up.sent = <<>> /\ backend = "command" => D = Len(Expected)
    BY <2>2, <2>4, <2>5, <2>6
  <2>8. \A k \in Finals(down.sent) : Rank(Finals(down.sent), k) <= Len(Expected)
    BY <2>2
  <2> QED BY <2>3, <2>7, <2>8 DEF D
<1> QED BY <1>1, Invariance, PTL

\* What snapshot reports of STARTTLS, of TLS before it and of a fingerprint is what the
\* pumps have read.
THEOREM ReportTrue == Spec => []ReportIsTrue
<1>1. IInv => ReportIsTrue
  <2> SUFFICES ASSUME IInv PROVE ReportIsTrue
    OBVIOUS
  <2>1. OutcomeInv /\ HelloInv
    BY DEF IInv, Knows
  <2>2. CASE report = NoReport
    BY <2>2 DEF ReportIsTrue, NoReport, None
  <2>3. CASE report = [state |-> "observer_incomplete", outcome |-> None]
    BY <2>3 DEF ReportIsTrue, None
  <2>4. CASE report = [state |-> State, outcome |-> Outcome]
    <3>1. report.state = State /\ report.outcome = Outcome
      BY <2>4
    <3>2. obs.outcome \in {"", "accepted", "refused"}
      BY DEF IInv, TypeOK
    <3>3. State = "fingerprinted" => {"accepted", "hello"} \subseteq seen
      BY <2>1 DEF State, OutcomeInv, HelloInv
    <3>4. State = "starttls_accepted_no_fingerprint" => "accepted" \in seen
      BY <2>1 DEF State, OutcomeInv
    <3>5. State = "premature_tls" => "early" \in seen
      BY <2>1 DEF State, OutcomeInv
    <3>6. State = "starttls_refused" => "refused" \in seen /\ "accepted" \notin seen
      BY <2>1 DEF State, OutcomeInv
    <3>7. State = "no_observed_upgrade" => seen \cap {"accepted", "refused", "hello"} = {}
      <4> SUFFICES ASSUME State = "no_observed_upgrade"
                   PROVE  "accepted" \notin seen /\ "refused" \notin seen /\ "hello" \notin seen
        OBVIOUS
      <4>1. ~obs.fingerprinted /\ ~obs.tlsArmed /\ ~obs.disabled /\ ~obs.refused /\ ~obs.clientPart
        BY DEF State
      <4> QED BY <2>1, <3>2, <4>1 DEF OutcomeInv, HelloInv, On, Watching
    <3>8. Outcome = "accepted" => "accepted" \in seen
      BY <2>1, <3>2 DEF Outcome, OutcomeInv
    <3>9. Outcome = "refused" => "refused" \in seen /\ ("accepted" \in seen => obs.disabled)
      BY <2>1, <3>2 DEF Outcome, OutcomeInv
    <3>10. Outcome = "not_seen" => seen \cap {"accepted", "refused"} = {}
      <4> SUFFICES ASSUME Outcome = "not_seen" PROVE "accepted" \notin seen /\ "refused" \notin seen
        OBVIOUS
      <4>1. obs.outcome = "" /\ ~obs.disabled
        BY <3>2 DEF Outcome
      <4> QED BY <2>1, <4>1 DEF OutcomeInv
    <3> QED BY <3>1, <3>3, <3>4, <3>5, <3>6, <3>7, <3>8, <3>9, <3>10 DEF ReportIsTrue
  <2> QED BY <2>2, <2>3, <2>4 DEF IInv, Reports
<1> QED BY <1>1, Invariance, PTL

\* The observer fingerprints the ClientHello of every upgrade, unless the client speaks
\* TLS early or malformed or meets one of the observer's bounds.
THEOREM UpgradeSeen == Spec => []UpgradeIsSeen
<1>1. IInv => UpgradeIsSeen
  <2> SUFFICES ASSUME IInv, "hello" \in seen, seen \cap Excuses = {} PROVE obs.fingerprinted
    BY DEF UpgradeIsSeen
  <2>1. OutcomeInv /\ HelloInv
    BY DEF IInv, Knows
  <2>2. "early" \notin seen
    BY DEF Excuses
  <2> QED BY <2>1, <2>2 DEF OutcomeInv, HelloInv
<1> QED BY <1>1, Invariance, PTL

-----------------------------------------------------------------------------
(* The collector, which runs when the connections it reports have ended.    *)

InTurn  == {"sending", "waiting", "erring", "accepted", "refused", "publishing", "pairing"}
Working == {"reading", "choosing"} \cup InTurn

RunType == [at : {"idle", "done", "failed"} \cup Working, listeners : SUBSET Listeners,
            todo : SUBSET Listeners, gen : Nat, retries : Nat,
            published : SUBSET Listeners, failed : SUBSET Listeners]

RunsTypeOK ==
  /\ run \in [Runs -> RunType] /\ lock \subseteq Runs /\ clock \in Nat
  /\ wire \subseteq [listener : Listeners, gen : Nat]
  /\ hub \in [Listeners -> Nat] /\ local \in [Listeners -> Nat] /\ campaign \in [Listeners -> Nat]
  /\ manifest \in [gen : Nat, listeners : SUBSET Listeners, reported : SUBSET Listeners]

\* A run at work holds the lock alone, so that its generation is the last.
Alone(r) ==
  /\ run[r].at \in Working => lock = {r}
  /\ run[r].at \in Working \ {"reading"} => run[r].gen = clock
  /\ run[r].gen <= clock

\* What a run is done with is published; the listener whose turn it is is one to do.
Published(r) ==
  /\ run[r].at \in InTurn => run[r].todo # {}
  /\ run[r].at \in {"idle", "reading"} =>
       run[r].listeners = {} /\ run[r].todo = {} /\ run[r].published = {} /\ run[r].failed = {}
  /\ run[r].todo \cup run[r].published \cup run[r].failed \subseteq run[r].listeners
  /\ \A l \in run[r].listeners \ run[r].todo :
       local[l] >= run[r].gen /\ campaign[l] >= run[r].gen
  /\ run[r].at = "pairing" => local[Current(r)] >= run[r].gen

\* What a run takes for reported is at Gatehub.
Stored(r) ==
  /\ run[r].at = "accepted" => hub[Current(r)] >= run[r].gen
  /\ \A l \in run[r].published : hub[l] >= run[r].gen

\* Nothing is published that is newer than the clock.
NothingNewer == \A l \in Listeners : local[l] <= clock /\ campaign[l] <= clock

CInv ==
  /\ RunsTypeOK /\ NothingNewer /\ ReportedMeansStored /\ ManifestIsBacked
  /\ \A r \in Runs : Alone(r) /\ Published(r) /\ Stored(r)

-----------------------------------------------------------------------------
LEMMA InitCInv ==
  ASSUME RunsInit PROVE CInv
BY DEF RunsInit, CInv, RunsTypeOK, RunType, NoRun, Working, InTurn, NothingNewer, ReportedMeansStored,
       ManifestIsBacked, Alone, Published, Stored

LEMMA TurnIsOneToDo ==
  ASSUME NEW todo, todo # {} PROVE Turn(todo) \in todo
BY DEF Turn

LEMMA CurrentIsListener ==
  ASSUME CInv, NEW r \in Runs, run[r].at \in InTurn
  PROVE  Current(r) \in run[r].todo /\ Current(r) \in Listeners
BY TurnIsOneToDo DEF CInv, RunsTypeOK, RunType, Published, Current

\* What others do, as long as generations only grow, disturbs no run that they do not touch.
LEMMA Untouched ==
  ASSUME CInv, NEW q \in Runs, run'[q] = run[q],
         hub' \in [Listeners -> Nat], local' \in [Listeners -> Nat], campaign' \in [Listeners -> Nat],
         \A l \in Listeners : hub'[l] >= hub[l] /\ local'[l] >= local[l] /\ campaign'[l] >= campaign[l]
  PROVE  Published(q)' /\ Stored(q)'
<1> USE DEF CInv, RunsTypeOK, RunType
<1>1. run[q] \in RunType
  OBVIOUS
<1>2. Current(q)' = Current(q)
  BY DEF Current
<1>3. ASSUME run[q].at \in {"pairing", "accepted"} PROVE Current(q) \in Listeners
  BY <1>3, CurrentIsListener DEF InTurn
<1>4. Published(q)'
  BY <1>1, <1>2, <1>3 DEF Published
<1>5. Stored(q)'
  BY <1>1, <1>2, <1>3 DEF Stored
<1> QED BY <1>4, <1>5

\* And the manifest stays true.
LEMMA ManifestStays ==
  ASSUME CInv, manifest' = manifest,
         hub' \in [Listeners -> Nat], local' \in [Listeners -> Nat], campaign' \in [Listeners -> Nat],
         \A l \in Listeners : hub'[l] >= hub[l] /\ local'[l] >= local[l] /\ campaign'[l] >= campaign[l]
  PROVE  ReportedMeansStored' /\ ManifestIsBacked'
BY DEF CInv, RunsTypeOK, ReportedMeansStored, ManifestIsBacked

\* A step of one run at work, or of one that begins, that changes nothing outside.
LEMMA OwnStep ==
  ASSUME CInv, RunsTypeOK', NEW r \in Runs, NEW new \in RunType, Go(r, new),
         UNCHANGED <<hub, local, campaign, manifest>>,
         clock' >= clock,
         (run[r].at \in Working /\ lock' \in {lock, lock \ {r}}) \/ (lock' = {r} /\ lock = {})
           \/ (lock' = lock /\ new.at \notin Working),
         clock' = clock \/ run[r].at \in Working,
         Alone(r)', Published(r)', Stored(r)'
  PROVE  CInv'
<1>1. NothingNewer'
  BY DEF CInv, RunsTypeOK, NothingNewer
<1>2. ReportedMeansStored' /\ ManifestIsBacked'
  BY ManifestStays DEF CInv, RunsTypeOK
<1>3. ASSUME NEW q \in Runs, q # r PROVE Alone(q)' /\ Published(q)' /\ Stored(q)'
  <2>1. run'[q] = run[q] /\ run[q] \in RunType /\ run[r] \in RunType
    BY <1>3 DEF CInv, RunsTypeOK, Go
  <2>2. Published(q)' /\ Stored(q)'
    BY <2>1, Untouched DEF CInv, RunsTypeOK
  <2>3. Alone(q) /\ Alone(r)
    BY DEF CInv
  <2>4. lock \subseteq Runs /\ clock \in Nat /\ clock' \in Nat
    BY DEF CInv, RunsTypeOK
  <2>5. run[q].gen <= clock'
    BY <2>1, <2>3, <2>4 DEF Alone, RunType
  <2>6. ASSUME run[q].at \in Working PROVE lock = {q} /\ clock' = clock /\ lock' = lock
    BY <1>3, <2>3, <2>6, <2>1 DEF Alone
  <2>7. Alone(q)'
    BY <2>1, <2>3, <2>5, <2>6 DEF Alone
  <2> QED BY <2>2, <2>7
<1>4. \A q \in Runs : Alone(q)' /\ Published(q)' /\ Stored(q)'
  BY <1>3
<1> QED BY <1>1, <1>2, <1>4 DEF CInv

-----------------------------------------------------------------------------
(* The steps of a run.                                                      *)

LEMMA BeginStep ==
  ASSUME CInv, NEW r \in Runs, Begin(r) PROVE CInv'
<1>1. run[r] \in RunType /\ Alone(r) /\ Published(r) /\ Stored(r)
  BY DEF CInv, RunsTypeOK
<1>2. PICK new : /\ new \in {[run[r] EXCEPT !.at = "reading"], [run[r] EXCEPT !.at = "failed"]}
                 /\ Go(r, new)
                 /\ \/ lock = {} /\ lock' = {r}
                    \/ lock' = lock /\ new.at \notin Working
  BY <1>1 DEF Begin, At, RunType, Working, InTurn
<1>3. new \in RunType
  BY <1>1, <1>2 DEF RunType, Working
<1>4. run'[r] = new /\ run' \in [Runs -> RunType]
  BY <1>2, <1>3 DEF Go, CInv, RunsTypeOK
<1>5. UNCHANGED <<clock, wire, hub, local, campaign, manifest>>
  BY DEF Begin, Outside
<1>6. RunsTypeOK' /\ clock' >= clock
  BY <1>2, <1>4, <1>5 DEF CInv, RunsTypeOK
<1>7. Alone(r)' /\ Published(r)' /\ Stored(r)'
  BY <1>1, <1>2, <1>4, <1>5 DEF Begin, At, Alone, Published, Stored, RunType, Working, InTurn
<1> QED BY <1>2, <1>3, <1>5, <1>6, <1>7, OwnStep

\* A run that fails, or is killed, lets go of the lock.
LEMMA FailStep ==
  ASSUME CInv, NEW r \in Runs, Fails(r), run[r].at \in Working, UNCHANGED clock, Outside
  PROVE  CInv'
<1> DEFINE new == [run[r] EXCEPT !.at = "failed"]
<1>1. run[r] \in RunType /\ Alone(r) /\ Published(r) /\ Stored(r)
  BY DEF CInv, RunsTypeOK
<1>2. new \in RunType /\ Go(r, new) /\ lock' = lock \ {r}
  BY <1>1 DEF RunType, Working, Fails
<1>3. run'[r] = new /\ run' \in [Runs -> RunType]
  BY <1>2 DEF Go, CInv, RunsTypeOK
<1>4. RunsTypeOK' /\ clock' >= clock
  BY <1>2, <1>3 DEF CInv, RunsTypeOK, Outside
<1>5. Alone(r)' /\ Published(r)' /\ Stored(r)'
  BY <1>1, <1>3 DEF Alone, Published, Stored, RunType, Working, InTurn, Outside
<1> QED BY <1>2, <1>4, <1>5, OwnStep DEF Outside

LEMMA PlanStep ==
  ASSUME CInv, NEW r \in Runs, Plan(r) PROVE CInv'
<1>1. run[r].at = "reading"
  BY DEF Plan, At
<1>2. CASE Fails(r) /\ UNCHANGED clock
  BY <1>1, <1>2, FailStep DEF Plan, Working
<1>3. ASSUME NEW ls \in SUBSET Listeners,
             Go(r, [run[r] EXCEPT !.at = "choosing", !.gen = clock + 1, !.listeners = ls, !.todo = ls]),
             clock' = clock + 1, UNCHANGED lock
      PROVE  CInv'
  <2> DEFINE new == [run[r] EXCEPT !.at = "choosing", !.gen = clock + 1, !.listeners = ls, !.todo = ls]
  <2>1. run[r] \in RunType /\ Alone(r) /\ Published(r) /\ Stored(r) /\ clock \in Nat
    BY DEF CInv, RunsTypeOK
  <2>2. new \in RunType
    <3>1. [run[r] EXCEPT !.at = "choosing"] \in RunType
      BY <2>1 DEF RunType, Working
    <3>2. [run[r] EXCEPT !.at = "choosing", !.gen = clock + 1] \in RunType
      <4>1. clock + 1 \in Nat
        BY <2>1
      <4> QED BY <3>1, <4>1 DEF RunType
    <3>3. [run[r] EXCEPT !.at = "choosing", !.gen = clock + 1, !.listeners = ls] \in RunType
      BY <3>2 DEF RunType
    <3> QED BY <3>3 DEF RunType
  <2>3. run'[r] = new /\ run' \in [Runs -> RunType]
    BY <2>2, <1>3 DEF Go, CInv, RunsTypeOK
  <2>4. RunsTypeOK' /\ clock' >= clock
    <3>1. clock' \in Nat /\ clock' >= clock
      BY <2>1, <1>3
    <3> QED BY <2>3, <1>3, <3>1 DEF CInv, RunsTypeOK, Plan, Outside
  <2>5. Alone(r)' /\ Published(r)' /\ Stored(r)'
    BY <2>1, <2>3, <1>1, <1>3 DEF Alone, Published, Stored, RunType, Working, InTurn
  <2> QED BY <1>1, <1>3, <2>2, <2>4, <2>5, OwnStep DEF Plan, Outside, Working
<1> QED BY <1>2, <1>3 DEF Plan

\* The steps within one listener's turn that change nothing but how far the run is.
LEMMA TurnStep ==
  ASSUME CInv, NEW r \in Runs, NEW new \in RunType, Go(r, new),
         run[r].at \in Working \ {"reading"}, run[r].todo # {},
         new.at \in {"sending", "waiting", "erring", "refused"},
         new.gen = run[r].gen, new.listeners = run[r].listeners, new.todo = run[r].todo,
         new.published = run[r].published, new.failed = run[r].failed,
         wire' \subseteq [listener : Listeners, gen : Nat],
         UNCHANGED <<lock, clock, hub, local, campaign, manifest>>
  PROVE  CInv'
<1>1. run[r] \in RunType /\ Alone(r) /\ Published(r) /\ Stored(r)
  BY DEF CInv, RunsTypeOK
<1>2. run'[r] = new /\ run' \in [Runs -> RunType]
  BY DEF Go, CInv, RunsTypeOK
<1>3. RunsTypeOK' /\ clock' >= clock
  BY <1>2 DEF CInv, RunsTypeOK
<1>4. new.at \in InTurn /\ new.at \in Working \ {"reading"}
  BY DEF InTurn, Working
<1>5. Alone(r)'
  BY <1>1, <1>2, <1>4 DEF Alone
<1>6. Published(r)'
  BY <1>1, <1>2 DEF Published
<1>7. Stored(r)'
  BY <1>1, <1>2 DEF Stored
<1> QED BY <1>3, <1>5, <1>6, <1>7, OwnStep

LEMMA BuildStep ==
  ASSUME CInv, NEW r \in Runs, Build(r) PROVE CInv'
<1> DEFINE new == [run[r] EXCEPT !.at = "sending", !.retries = 0]
<1>1. run[r] \in RunType /\ run[r].at = "choosing" /\ run[r].todo # {} /\ Go(r, new)
  BY DEF CInv, RunsTypeOK, Build, At
<1>2. new \in RunType
  BY <1>1 DEF RunType, Working, InTurn
<1>3. UNCHANGED <<lock, clock, wire, hub, local, campaign, manifest>>
  BY DEF Build, Outside
<1>4. wire' \subseteq [listener : Listeners, gen : Nat]
  BY <1>3 DEF CInv, RunsTypeOK
<1>5. /\ new.at = "sending" /\ new.gen = run[r].gen /\ new.listeners = run[r].listeners
      /\ new.todo = run[r].todo /\ new.published = run[r].published /\ new.failed = run[r].failed
  BY <1>1 DEF RunType
<1>6. run[r].at \in Working \ {"reading"}
  BY <1>1 DEF Working
<1> HIDE DEF new
<1> QED BY <1>1, <1>2, <1>3, <1>4, <1>5, <1>6, TurnStep

LEMMA WaitStep ==
  ASSUME CInv, NEW r \in Runs, Withhold(r) \/ Post(r) \/ TimeOut(r) PROVE CInv'
<1>1. run[r] \in RunType /\ run[r].at \in InTurn
  BY DEF CInv, RunsTypeOK, Withhold, Post, TimeOut, At, InTurn
<1>2. run[r].todo # {} /\ run[r].at \in Working \ {"reading"}
  BY <1>1 DEF CInv, Published, Working, InTurn
<1>3. PICK at \in {"waiting", "erring", "refused"} : Go(r, [run[r] EXCEPT !.at = at])
  BY DEF Withhold, Post, TimeOut
<1> DEFINE new == [run[r] EXCEPT !.at = at]
<1>4. new \in RunType
  BY <1>1 DEF RunType, Working, InTurn
<1>5. UNCHANGED <<lock, clock, hub, local, campaign, manifest>>
  BY DEF Withhold, Post, TimeOut, Outside
<1>6. wire' \subseteq [listener : Listeners, gen : Nat]
  <2>1. CASE Post(r)
    BY <2>1, <1>1, CurrentIsListener DEF CInv, RunsTypeOK, RunType, Post
  <2>2. CASE Withhold(r) \/ TimeOut(r)
    BY <2>2 DEF CInv, RunsTypeOK, Withhold, TimeOut, Outside
  <2> QED BY <2>1, <2>2
<1>7. /\ new.at = at /\ new.gen = run[r].gen /\ new.listeners = run[r].listeners
      /\ new.todo = run[r].todo /\ new.published = run[r].published /\ new.failed = run[r].failed
  BY <1>1 DEF RunType
<1>8. Go(r, new)
  BY <1>3
<1> HIDE DEF new
<1> QED BY <1>2, <1>4, <1>5, <1>6, <1>7, <1>8, TurnStep

LEMMA RetryStep ==
  ASSUME CInv, NEW r \in Runs, Retry(r) PROVE CInv'
<1>1. run[r] \in RunType /\ run[r].at = "erring"
  BY DEF CInv, RunsTypeOK, Retry, At
<1>2. run[r].todo # {} /\ run[r].at \in Working \ {"reading"}
  BY <1>1 DEF CInv, Published, Working, InTurn
<1> DEFINE new == IF run[r].retries < MaxRetries
                  THEN [run[r] EXCEPT !.at = "sending", !.retries = @ + 1]
                  ELSE [run[r] EXCEPT !.at = "refused"]
<1>3. new \in RunType
  <2>1. /\ [run[r] EXCEPT !.at = "sending"] \in RunType
        /\ [run[r] EXCEPT !.at = "refused"] \in RunType
    BY <1>1 DEF RunType, Working, InTurn
  <2>2. run[r].retries + 1 \in Nat
    BY <1>1 DEF RunType
  <2> QED BY <2>1, <2>2 DEF RunType
<1>4. UNCHANGED <<lock, clock, wire, hub, local, campaign, manifest>> /\ Go(r, new)
  BY DEF Retry, Outside
<1>5. wire' \subseteq [listener : Listeners, gen : Nat]
  BY <1>4 DEF CInv, RunsTypeOK
<1>6. /\ new.at \in {"sending", "refused"}
      /\ new.gen = run[r].gen /\ new.listeners = run[r].listeners
      /\ new.todo = run[r].todo /\ new.published = run[r].published /\ new.failed = run[r].failed
  BY <1>1 DEF RunType
<1> HIDE DEF new
<1> QED BY <1>2, <1>3, <1>4, <1>5, <1>6, TurnStep

\* What a step that leaves the lock and the clock alone has to show of the run that takes it.
LEMMA PlainStep ==
  ASSUME CInv, NEW r \in Runs, NEW new \in RunType, Go(r, new),
         UNCHANGED <<lock, clock, wire, manifest>>,
         hub' \in [Listeners -> Nat], local' \in [Listeners -> Nat], campaign' \in [Listeners -> Nat],
         \A l \in Listeners : hub'[l] >= hub[l] /\ local'[l] >= local[l] /\ campaign'[l] >= campaign[l],
         NothingNewer', run[r].at \in Working \ {"reading"}, new.at \in Working \ {"reading"},
         new.gen = run[r].gen, Published(r)', Stored(r)'
  PROVE  CInv'
<1>1. run'[r] = new /\ run' \in [Runs -> RunType] /\ \A q \in Runs \ {r} : run'[q] = run[q]
  BY DEF Go, CInv, RunsTypeOK
<1>2. RunsTypeOK'
  BY <1>1 DEF CInv, RunsTypeOK
<1>3. ReportedMeansStored' /\ ManifestIsBacked'
  BY ManifestStays
<1>4. \A q \in Runs : Published(q)' /\ Stored(q)'
  BY <1>1, Untouched
<1>5. ASSUME NEW q \in Runs PROVE Alone(q)'
  <2>1. Alone(q) /\ Alone(r)
    BY DEF CInv
  <2> QED BY <1>1, <2>1 DEF Alone
<1> QED BY <1>2, <1>3, <1>4, <1>5 DEF CInv

LEMMA NoteStep ==
  ASSUME CInv, NEW r \in Runs, Note(r) PROVE CInv'
<1> DEFINE new == [run[r] EXCEPT !.at = "publishing",
                     !.published = IF run[r].at = "accepted" THEN @ \cup {Current(r)} ELSE @,
                     !.failed = IF run[r].at = "refused" THEN @ \cup {Current(r)} ELSE @]
           pub == IF run[r].at = "accepted" THEN run[r].published \cup {Current(r)}
                  ELSE run[r].published
           bad == IF run[r].at = "refused" THEN run[r].failed \cup {Current(r)}
                  ELSE run[r].failed
<1>1. run[r] \in RunType /\ run[r].at \in {"accepted", "refused"} /\ Published(r) /\ Stored(r)
  BY DEF CInv, RunsTypeOK, Note
<1>2. Current(r) \in run[r].todo /\ Current(r) \in Listeners
  BY <1>1, CurrentIsListener DEF InTurn
<1>3. pub \in SUBSET Listeners /\ bad \in SUBSET Listeners
  BY <1>1, <1>2 DEF RunType
<1>4. /\ new \in RunType /\ new.at = "publishing" /\ new.gen = run[r].gen
      /\ new.listeners = run[r].listeners /\ new.todo = run[r].todo
      /\ new.published = pub /\ new.failed = bad
  <2> DEFINE e == [run[r] EXCEPT !.at = "publishing"]
             f == [e EXCEPT !.published = pub]
             g == [f EXCEPT !.failed = bad]
  <2>1. new = g
    BY <1>1 DEF RunType
  <2>2. /\ e \in RunType /\ e.at = "publishing" /\ e.gen = run[r].gen
        /\ e.listeners = run[r].listeners /\ e.todo = run[r].todo
    BY <1>1 DEF RunType, Working, InTurn
  <2> HIDE DEF e, pub, bad
  <2>3. /\ f \in RunType /\ f.at = "publishing" /\ f.gen = run[r].gen
        /\ f.listeners = run[r].listeners /\ f.todo = run[r].todo /\ f.published = pub
    BY <1>3, <2>2 DEF RunType
  <2> HIDE DEF f
  <2>4. /\ g \in RunType /\ g.at = "publishing" /\ g.gen = run[r].gen
        /\ g.listeners = run[r].listeners /\ g.todo = run[r].todo
        /\ g.published = pub /\ g.failed = bad
    BY <1>3, <2>3 DEF RunType
  <2> HIDE DEF g, new
  <2> QED BY <2>1, <2>4
<1>5. Go(r, new) /\ UNCHANGED <<lock, clock, wire, hub, local, campaign, manifest>>
  BY DEF Note, Outside
<1> HIDE DEF new
<1>6. run'[r] = new
  BY <1>5 DEF Go, CInv, RunsTypeOK
<1>7. Published(r)'
  BY <1>1, <1>2, <1>4, <1>5, <1>6 DEF Published, InTurn
<1>8. Stored(r)'
  BY <1>1, <1>2, <1>4, <1>5, <1>6 DEF Stored
<1>9. NothingNewer' /\ RunsTypeOK
  BY <1>5 DEF CInv, NothingNewer
<1>10. run[r].at \in Working \ {"reading"} /\ new.at \in Working \ {"reading"}
  BY <1>1, <1>4 DEF Working, InTurn
<1> HIDE DEF pub, bad
<1>11. \A l \in Listeners : hub'[l] >= hub[l] /\ local'[l] >= local[l] /\ campaign'[l] >= campaign[l]
  BY <1>5, <1>9 DEF RunsTypeOK
<1>12. hub' \in [Listeners -> Nat] /\ local' \in [Listeners -> Nat] /\ campaign' \in [Listeners -> Nat]
  BY <1>5, <1>9 DEF RunsTypeOK
<1> QED BY <1>4, <1>5, <1>7, <1>8, <1>9, <1>10, <1>11, <1>12, PlainStep

\* A report replaces an older one: a run that publishes has the last generation.
LEMMA PublishStep ==
  ASSUME CInv, NEW r \in Runs, Publish(r) PROVE CInv'
<1> DEFINE new == [run[r] EXCEPT !.at = "pairing"]
<1>1. run[r] \in RunType /\ run[r].at = "publishing" /\ Published(r) /\ Stored(r) /\ Alone(r) /\ RunsTypeOK
  BY DEF CInv, RunsTypeOK, Publish, At
<1>2. Current(r) \in run[r].todo /\ Current(r) \in Listeners
  BY <1>1, CurrentIsListener DEF InTurn
<1>3. /\ new \in RunType /\ new.at = "pairing" /\ new.gen = run[r].gen
      /\ new.listeners = run[r].listeners /\ new.todo = run[r].todo
      /\ new.published = run[r].published /\ new.failed = run[r].failed
  BY <1>1 DEF RunType, Working, InTurn
<1>4. Go(r, new) /\ UNCHANGED <<lock, clock, wire, hub, campaign, manifest>>
      /\ local' = [local EXCEPT ![Current(r)] = run[r].gen]
  BY DEF Publish
<1> HIDE DEF new
<1>5. run[r].at \in Working \ {"reading"} /\ new.at \in Working \ {"reading"}
  BY <1>1, <1>3 DEF Working, InTurn
<1>6. run[r].gen = clock /\ clock \in Nat /\ run[r].gen \in Nat
  BY <1>1, <1>5 DEF Alone, RunsTypeOK, RunType
<1>7. local' \in [Listeners -> Nat] /\ hub' \in [Listeners -> Nat] /\ campaign' \in [Listeners -> Nat]
  BY <1>1, <1>2, <1>4, <1>6 DEF RunsTypeOK
<1>8. NothingNewer'
  BY <1>1, <1>4, <1>6, <1>2 DEF CInv, NothingNewer, RunsTypeOK
<1>9. \A l \in Listeners : hub'[l] >= hub[l] /\ local'[l] >= local[l] /\ campaign'[l] >= campaign[l]
  BY <1>1, <1>2, <1>4, <1>6 DEF CInv, NothingNewer, RunsTypeOK
<1>10. run'[r] = new /\ Current(r)' = Current(r)
  BY <1>1, <1>3, <1>4 DEF Go, RunsTypeOK, Current
<1>11. local'[Current(r)] >= run[r].gen
  BY <1>1, <1>2, <1>4, <1>6 DEF RunsTypeOK
<1>12. \A l \in run[r].listeners \ run[r].todo : local'[l] = local[l] /\ l \in Listeners
  BY <1>1, <1>2, <1>4 DEF RunsTypeOK, RunType
<1>13. Published(r)'
  BY <1>1, <1>3, <1>4, <1>10, <1>11, <1>12 DEF Published, InTurn
<1>14. Stored(r)'
  BY <1>1, <1>3, <1>4, <1>10 DEF Stored
<1> QED BY <1>3, <1>4, <1>5, <1>7, <1>8, <1>9, <1>13, <1>14, PlainStep

LEMMA PublishCampaignStep ==
  ASSUME CInv, NEW r \in Runs, PublishCampaign(r) PROVE CInv'
<1> DEFINE new == [run[r] EXCEPT !.at = "choosing", !.todo = run[r].todo \ {Current(r)}]
<1>1. run[r] \in RunType /\ run[r].at = "pairing" /\ Published(r) /\ Stored(r) /\ Alone(r) /\ RunsTypeOK
  BY DEF CInv, RunsTypeOK, PublishCampaign, At
<1>2. Current(r) \in run[r].todo /\ Current(r) \in Listeners
  BY <1>1, CurrentIsListener DEF InTurn
<1>3. /\ new \in RunType /\ new.at = "choosing" /\ new.gen = run[r].gen
      /\ new.listeners = run[r].listeners /\ new.todo = run[r].todo \ {Current(r)}
      /\ new.published = run[r].published /\ new.failed = run[r].failed
  <2> DEFINE e == [run[r] EXCEPT !.at = "choosing"]
  <2>1. /\ e \in RunType /\ e.at = "choosing" /\ e.gen = run[r].gen
        /\ e.listeners = run[r].listeners /\ e.todo = run[r].todo
        /\ e.published = run[r].published /\ e.failed = run[r].failed
    BY <1>1 DEF RunType, Working, InTurn
  <2>2. new = [e EXCEPT !.todo = run[r].todo \ {Current(r)}]
    OBVIOUS
  <2>3. run[r].todo \ {Current(r)} \in SUBSET Listeners
    BY <1>1 DEF RunType
  <2> HIDE DEF e, new
  <2> QED BY <2>1, <2>2, <2>3 DEF RunType
<1>4. Go(r, new) /\ UNCHANGED <<lock, clock, wire, hub, local, manifest>>
      /\ campaign' = [campaign EXCEPT ![Current(r)] = run[r].gen]
  BY DEF PublishCampaign
<1> HIDE DEF new
<1>5. run[r].at \in Working \ {"reading"} /\ new.at \in Working \ {"reading"}
  BY <1>1, <1>3 DEF Working, InTurn
<1>6. run[r].gen = clock /\ clock \in Nat /\ run[r].gen \in Nat
  BY <1>1, <1>5 DEF Alone, RunsTypeOK, RunType
<1>7. local' \in [Listeners -> Nat] /\ hub' \in [Listeners -> Nat] /\ campaign' \in [Listeners -> Nat]
  BY <1>1, <1>2, <1>4, <1>6 DEF RunsTypeOK
<1>8. NothingNewer'
  BY <1>1, <1>4, <1>6, <1>2 DEF CInv, NothingNewer, RunsTypeOK
<1>9. \A l \in Listeners : hub'[l] >= hub[l] /\ local'[l] >= local[l] /\ campaign'[l] >= campaign[l]
  BY <1>1, <1>2, <1>4, <1>6 DEF CInv, NothingNewer, RunsTypeOK
<1>10. run'[r] = new
  BY <1>1, <1>4 DEF Go, RunsTypeOK
<1>11. local[Current(r)] >= run[r].gen /\ campaign'[Current(r)] >= run[r].gen
  BY <1>1, <1>2, <1>4, <1>6 DEF RunsTypeOK, Published
<1>12. \A l \in run[r].listeners \ run[r].todo :
         l \in Listeners /\ local[l] >= run[r].gen /\ campaign[l] >= run[r].gen
  BY <1>1 DEF RunType, Published
<1>13. \A l \in new.listeners \ new.todo : local'[l] >= new.gen /\ campaign'[l] >= new.gen
  BY <1>1, <1>2, <1>3, <1>4, <1>6, <1>11, <1>12 DEF RunsTypeOK
<1>14. Published(r)'
  BY <1>1, <1>3, <1>10, <1>13 DEF Published, InTurn
<1>15. Stored(r)'
  BY <1>1, <1>3, <1>4, <1>10 DEF Stored
<1> QED BY <1>3, <1>4, <1>5, <1>7, <1>8, <1>9, <1>14, <1>15, PlainStep

\* The manifest that a run publishes at its end is backed by what it has done.
LEMMA FinishStep ==
  ASSUME CInv, NEW r \in Runs, FinishRun(r) PROVE CInv'
<1> DEFINE at  == IF run[r].failed = {} THEN "done" ELSE "failed"
           new == [run[r] EXCEPT !.at = at]
<1>1. run[r] \in RunType /\ run[r].at = "choosing" /\ run[r].todo = {} /\ RunsTypeOK
      /\ Published(r) /\ Stored(r) /\ Alone(r)
  BY DEF CInv, RunsTypeOK, FinishRun, At
<1>2. /\ new \in RunType /\ new.at \in {"done", "failed"} /\ new.gen = run[r].gen
      /\ new.listeners = run[r].listeners /\ new.todo = run[r].todo
      /\ new.published = run[r].published /\ new.failed = run[r].failed
  BY <1>1 DEF RunType
<1>3. /\ Go(r, new) /\ lock' = lock \ {r} /\ UNCHANGED <<clock, wire, hub, local, campaign>>
      /\ manifest' = [gen |-> run[r].gen, listeners |-> run[r].listeners,
                      reported |-> run[r].published]
  BY DEF FinishRun
<1> HIDE DEF new, at
<1>4. run'[r] = new /\ run' \in [Runs -> RunType] /\ \A q \in Runs \ {r} : run'[q] = run[q]
  BY <1>1, <1>2, <1>3 DEF Go, RunsTypeOK
<1>5. manifest' \in [gen : Nat, listeners : SUBSET Listeners, reported : SUBSET Listeners]
  BY <1>1, <1>3 DEF RunType
<1>6. RunsTypeOK'
  BY <1>1, <1>3, <1>4, <1>5 DEF RunsTypeOK
<1>7. NothingNewer'
  BY <1>3 DEF CInv, NothingNewer
<1>8. ReportedMeansStored'
  BY <1>1, <1>3 DEF ReportedMeansStored, Stored
<1>9. ManifestIsBacked'
  BY <1>1, <1>3 DEF ManifestIsBacked, Published
<1>10. Alone(r)'
  BY <1>1, <1>2, <1>3, <1>4 DEF Alone, Working, InTurn
<1>11. Published(r)' /\ Stored(r)'
  BY <1>1, <1>2, <1>3, <1>4 DEF Published, Stored, InTurn
<1>12. ASSUME NEW q \in Runs \ {r} PROVE Alone(q)' /\ Published(q)' /\ Stored(q)'
  <2>1. \A l \in Listeners : hub'[l] >= hub[l] /\ local'[l] >= local[l] /\ campaign'[l] >= campaign[l]
    BY <1>1, <1>3 DEF RunsTypeOK
  <2>2. hub' \in [Listeners -> Nat] /\ local' \in [Listeners -> Nat] /\ campaign' \in [Listeners -> Nat]
    BY <1>1, <1>3 DEF RunsTypeOK
  <2>3. Published(q)' /\ Stored(q)'
    BY <1>4, <2>1, <2>2, Untouched
  <2>4. run[q].at \notin Working
    BY <1>1, <1>12 DEF CInv, Alone, Working
  <2>5. Alone(q)'
    BY <1>3, <1>4, <2>4 DEF CInv, Alone
  <2> QED BY <2>3, <2>5
<1> QED BY <1>6, <1>7, <1>8, <1>9, <1>10, <1>11, <1>12 DEF CInv

-----------------------------------------------------------------------------
(* The steps of Gatehub.                                                    *)

\* An answer moves only who waits for it, and to "accepted" only if the report is stored.
LEMMA AnswerStep ==
  ASSUME CInv, NEW m \in wire, NEW outcome \in {"accepted", "refused", "erring"},
         UNCHANGED run \/ HubAnswers(m, outcome), wire' = wire \ {m},
         UNCHANGED <<lock, clock, local, campaign, manifest>>,
         hub' \in [Listeners -> Nat], \A l \in Listeners : hub'[l] >= hub[l],
         outcome = "accepted" => hub'[m.listener] >= m.gen
  PROVE  CInv'
<1>1. RunsTypeOK /\ m.listener \in Listeners /\ m.gen \in Nat
  BY DEF CInv, RunsTypeOK
<1>2. ASSUME NEW q \in Runs
      PROVE  \/ run'[q] = run[q]
             \/ Awaits(q, m) /\ run'[q] = [run[q] EXCEPT !.at = outcome]
  BY DEF HubAnswers
<1>3. \A q \in Runs : run[q] \in RunType
  BY <1>1 DEF RunsTypeOK
<1>4. ASSUME NEW q \in Runs PROVE [run[q] EXCEPT !.at = outcome] \in RunType
  BY <1>3 DEF RunType, Working, InTurn
<1>5. run' \in [Runs -> RunType]
  <2>1. CASE UNCHANGED run
    BY <2>1, <1>1 DEF RunsTypeOK
  <2>2. CASE HubAnswers(m, outcome)
    BY <2>2, <1>3, <1>4 DEF HubAnswers
  <2> QED BY <2>1, <2>2
<1>6. RunsTypeOK' /\ NothingNewer'
  BY <1>1, <1>5 DEF CInv, RunsTypeOK, NothingNewer
<1>7. \A l \in Listeners : local'[l] >= local[l] /\ campaign'[l] >= campaign[l]
  BY <1>1 DEF RunsTypeOK
<1>8. ReportedMeansStored' /\ ManifestIsBacked'
  BY <1>1, <1>7, ManifestStays DEF RunsTypeOK
<1>9. ASSUME NEW q \in Runs PROVE Alone(q)' /\ Published(q)' /\ Stored(q)'
  <2>1. Alone(q) /\ Published(q) /\ Stored(q)
    BY DEF CInv
  <2>2. CASE run'[q] = run[q]
    <3>1. Alone(q)'
      BY <2>1, <2>2 DEF Alone
    <3> QED BY <1>1, <1>7, <2>2, <3>1, Untouched DEF RunsTypeOK
  <2>3. CASE Awaits(q, m) /\ run'[q] = [run[q] EXCEPT !.at = outcome]
    <3> DEFINE new == [run[q] EXCEPT !.at = outcome]
    <3>1. /\ new.at = outcome /\ new.gen = run[q].gen
          /\ new.listeners = run[q].listeners /\ new.todo = run[q].todo
          /\ new.published = run[q].published /\ new.failed = run[q].failed
      BY <1>3 DEF RunType
    <3> HIDE DEF new
    <3>2. run'[q] = new /\ run[q].at = "waiting" /\ run[q].gen = m.gen /\ Current(q) = m.listener
      BY <2>3 DEF new, Awaits
    <3>3. Current(q)' = Current(q)
      BY <3>1, <3>2 DEF Current
    <3>4. Alone(q)'
      BY <2>1, <3>1, <3>2 DEF Alone, Working, InTurn
    <3>5. Published(q)'
      BY <2>1, <3>1, <3>2 DEF Published, InTurn
    <3>6. \A l \in run[q].published : l \in Listeners /\ hub'[l] >= run[q].gen
      <4>1. run[q].published \subseteq Listeners /\ run[q].gen \in Nat
        BY <1>3 DEF RunType
      <4> QED BY <4>1, <1>1, <2>1 DEF Stored, RunsTypeOK
    <3>7. Stored(q)'
      BY <3>1, <3>2, <3>3, <3>6 DEF Stored
    <3> QED BY <3>4, <3>5, <3>7
  <2> QED BY <1>2, <2>2, <2>3
<1> QED BY <1>6, <1>8, <1>9 DEF CInv

LEMMA TakeStep ==
  ASSUME CInv, NEW m \in wire, Take(m) PROVE CInv'
<1>1. hub \in [Listeners -> Nat] /\ m.listener \in Listeners /\ m.gen \in Nat
  BY DEF CInv, RunsTypeOK
<1>2. CASE m.gen >= hub[m.listener]
  <2>1. hub' = [hub EXCEPT ![m.listener] = m.gen] /\ (UNCHANGED run \/ HubAnswers(m, "accepted"))
    BY <1>2 DEF Take
  <2>2. hub' \in [Listeners -> Nat] /\ (\A l \in Listeners : hub'[l] >= hub[l])
        /\ hub'[m.listener] >= m.gen
    BY <1>1, <1>2, <2>1
  <2> QED BY <2>1, <2>2, AnswerStep DEF Take
<1>3. CASE ~(m.gen >= hub[m.listener])
  <2>1. UNCHANGED hub /\ (UNCHANGED run \/ HubAnswers(m, "refused"))
    BY <1>3 DEF Take
  <2>2. hub' \in [Listeners -> Nat] /\ \A l \in Listeners : hub'[l] >= hub[l]
    BY <1>1, <2>1
  <2> QED BY <2>1, <2>2, AnswerStep DEF Take
<1> QED BY <1>2, <1>3

LEMMA RefuseStep ==
  ASSUME CInv, NEW m \in wire, HubRefuses(m) PROVE CInv'
<1>1. hub' \in [Listeners -> Nat] /\ \A l \in Listeners : hub'[l] >= hub[l]
  BY DEF CInv, RunsTypeOK, HubRefuses
<1> QED BY <1>1, AnswerStep DEF HubRefuses

-----------------------------------------------------------------------------
LEMMA StutterStep ==
  ASSUME CInv, UNCHANGED runsVars PROVE CInv'
<1> USE DEF runsVars
<1>1. RunsTypeOK' /\ NothingNewer' /\ ReportedMeansStored' /\ ManifestIsBacked'
  BY DEF CInv, RunsTypeOK, NothingNewer, ReportedMeansStored, ManifestIsBacked
<1>2. \A r \in Runs : Alone(r)' /\ Published(r)' /\ Stored(r)'
  BY DEF CInv, Alone, Published, Stored, Current
<1> QED BY <1>1, <1>2 DEF CInv

LEMMA RunSteps ==
  ASSUME CInv, NEW r \in Runs, RunStep(r) \/ Killed(r) PROVE CInv'
<1>1. CASE Begin(r)
  BY <1>1, BeginStep
<1>2. CASE Plan(r)
  BY <1>2, PlanStep
<1>3. CASE Build(r)
  BY <1>3, BuildStep
<1>4. CASE BuildFails(r)
  <2>1. Fails(r) /\ run[r].at \in Working /\ UNCHANGED clock /\ Outside
    BY <1>4 DEF BuildFails, At, Working
  <2> QED BY <2>1, FailStep
<1>5. CASE Withhold(r) \/ Post(r) \/ TimeOut(r)
  BY <1>5, WaitStep
<1>6. CASE Retry(r)
  BY <1>6, RetryStep
<1>7. CASE Note(r)
  BY <1>7, NoteStep
<1>8. CASE Publish(r)
  BY <1>8, PublishStep
<1>9. CASE PublishCampaign(r)
  BY <1>9, PublishCampaignStep
<1>10. CASE FinishRun(r)
  BY <1>10, FinishStep
<1>11. CASE Killed(r)
  <2>1. run[r].at \in Working
    BY <1>11 DEF CInv, RunsTypeOK, RunType, Killed, Ended
  <2> QED BY <1>11, <2>1, FailStep DEF Killed
<1> QED BY <1>1, <1>2, <1>3, <1>4, <1>5, <1>6, <1>7, <1>8, <1>9, <1>10, <1>11 DEF RunStep

\* The inductive invariant holds throughout, however Gatehub and the network behave.
THEOREM CollectorInvariance == RunsSpec => []CInv
<1>1. RunsInit => CInv
  BY InitCInv
<1>2. CInv /\ [RunsNext]_runsVars => CInv'
  <2> SUFFICES ASSUME CInv, [RunsNext]_runsVars PROVE CInv'
    OBVIOUS
  <2>1. CASE \E r \in Runs : RunStep(r) \/ Killed(r)
    BY <2>1, RunSteps
  <2>2. CASE \E m \in wire : Take(m) \/ HubRefuses(m)
    BY <2>2, TakeStep, RefuseStep
  <2>3. CASE UNCHANGED runsVars
    BY <2>3, StutterStep
  <2> QED BY <2>1, <2>2, <2>3 DEF RunsNext
<1> QED BY <1>1, <1>2, PTL DEF RunsSpec

\* What the manifest lists as reported Gatehub has, in that generation or a newer one:
\* for any number of attempts, and whatever answers are lost or late.
THEOREM ReportedIsStored == RunsSpec => []ReportedMeansStored
<1>1. CInv => ReportedMeansStored
  BY DEF CInv
<1> QED BY <1>1, CollectorInvariance, PTL

\* The manifest names no report or campaign file that is older than itself, though runs
\* may be killed between the replacements of two files.
THEOREM BackedManifest == RunsSpec => []ManifestIsBacked
<1>1. CInv => ManifestIsBacked
  BY DEF CInv
<1> QED BY <1>1, CollectorInvariance, PTL

\* A listener that a run is done with is published, whatever became of its upload.
THEOREM NothingWithheld == RunsSpec => []UploadWithholdsNothing
<1>1. CInv => UploadWithholdsNothing
  BY DEF CInv, Published, UploadWithholdsNothing
<1> QED BY <1>1, CollectorInvariance, PTL
=============================================================================
