------------------------ MODULE GameplayWorkerProofs ------------------------
(***************************************************************************)
(* GameplayWorker for any bound on the pending requests, any mailbox at    *)
(* least as large, any number of lease slots and any largest id: the types *)
(* hold, every pending request has one request or reply on its way and all *)
(* are on their way in order, and model output stays leased while it is    *)
(* read.                                                                   *)
(*                                                                         *)
(* TransitIsPending says where each pending id is.  Together with          *)
(* DistinctIds it tells the client's tables what a message can be about;   *)
(* ChannelsOK places the change from postMessage to the mailbox, ReadsOK   *)
(* and LeasesOK follow the model reads until shutdown.                     *)
(***************************************************************************)
EXTENDS GameplayWorker, FiniteSetTheorems, SequenceTheorems,
        WellFoundedInduction, TLAPS

\* No id is reserved twice.
DistinctIds == IsInjective(pending)

Of(messages, kind) == {m \in ToSet(messages) : m.kind = kind}

\* One initialize request is made at most, and none is behind a deferral.
InitializeOK ==
  /\ initialize_id = None =>
       initializing = None /\ ~replies_on /\ Of(requests, "initialize") = {}
  /\ Of(requests, "initialize") # {} => initializing = None /\ ~replies_on
  /\ \A i, j \in DOMAIN requests :
       requests[i].kind = "initialize" /\ requests[j].kind = "initialize" => i = j
  /\ Of(deferred, "initialize") = {}
  /\ replies_on => initializing = None

\* Replies change to the mailbox behind the reply that opens it, once.
ChannelsOK ==
  /\ ~replies_on => mailbox = << >> /\ ~reader_open
  /\ reader_open => plain = << >>
  /\ replies_on /\ ~reader_open => plain # << >>
  /\ \A i \in DOMAIN plain :
       plain[i].kind = "initialized" <=> i = Len(plain) /\ replies_on
  /\ Of(plain, "models") = {} /\ Of(mailbox, "initialized") = {}

\* Only models requests have a companion, whose answer is no model output.
CompanionsOK ==
  /\ \A m \in ToSet(requests) \cup ToSet(deferred) :
       m.kind # "models" => m.companion = None
  /\ \A i \in DOMAIN answers : i > 1 => answers[i].kind = "request"

\* A model read is registered until its reply is received, and shutdown is
\* sent when none is left.
ReadsOK ==
  /\ queued_models # None => queued_models \in model_reads
  /\ \A m \in Of(requests, "models") \cup Of(deferred, "models")
              \cup Of(answers, "models") \cup Of(mailbox, "models") :
       m.id \in model_reads
  /\ shutdown_requested => queued_models = None
  /\ shutdown_id # None =>
       shutdown_requested /\ model_reads = {} /\ decoding = NotDecoding
  /\ Of(requests, "shutdown") \cup Of(deferred, "shutdown")
     \cup Of(answers, "shutdown") # {} => shutdown_id # None
  /\ Of(answers, "shutdown") # {} => leases = {}

\* The lease in the page's hands, or on its way to it.
LeaseOf(m) == [id |-> m.id, slot |-> m.slot]

\* A word is set exactly while its model output is on its way or read.
LeasesOK ==
  /\ \A l, m \in leases : l.slot = m.slot => l = m
  /\ \A s \in LeaseSlots : ownership[s] # None =>
       \/ decoding # NotDecoding /\ decoding.slot = s
       \/ \E m \in Of(mailbox, "models") : m.slot = s
  /\ decoding # NotDecoding =>
       LeaseOf(decoding) \in leases /\ ownership[decoding.slot] = decoding.id
  /\ \A m \in Of(mailbox, "models") :
       /\ m.slot \in LeaseSlots
       /\ LeaseOf(m) \in leases /\ ownership[m.slot] = m.id
       /\ decoding # NotDecoding => m.slot # decoding.slot
  /\ \A i, j \in DOMAIN mailbox :
       /\ mailbox[i].kind = "models" /\ mailbox[j].kind = "models"
       /\ mailbox[i].slot = mailbox[j].slot
       => i = j

IInv ==
  /\ TypeOK /\ TransitIsPending /\ RepliesRecognised
  /\ DistinctIds /\ InitializeOK /\ ChannelsOK /\ CompanionsOK
  /\ ReadsOK /\ LeasesOK

-----------------------------------------------------------------------------
(* Natural numbers.                                                         *)

\* A nonempty set of natural numbers has a least element.
LEMMA LeastExists ==
  ASSUME NEW S, S \subseteq Nat, S # {}
  PROVE  \E x \in S : \A y \in S : x <= y
<1>1. PICK x \in S : \A y \in S : <<y, x>> \notin OpToRel(<, Nat)
  BY NatLessThanWellFounded, WFMin
<1>2. \A y \in S : ~(y < x)
  BY <1>1 DEF OpToRel
<1>3. QED
  BY <1>2

\* Induction over the natural numbers, for sets.
LEMMA SetInduction ==
  ASSUME NEW P, 0 \in P, \A n \in Nat : n \in P => n + 1 \in P
  PROVE  Nat \subseteq P
<1>1. SUFFICES ASSUME Nat \ P # {} PROVE FALSE
  OBVIOUS
<1>2. PICK x \in Nat \ P : \A y \in Nat \ P : x <= y
  BY <1>1, LeastExists
<1>3. x - 1 \in Nat /\ x - 1 \notin Nat \ P
  BY <1>2
<1>4. QED
  BY <1>2, <1>3

-----------------------------------------------------------------------------
(* FlattenSeq.                                                              *)

\* What FlattenSeq tabulates: the concatenation of each prefix.
IsFlat(f, seqs, n) ==
  f = [i \in 1..n |-> IF i = 1 THEN seqs[i] ELSE f[i - 1] \o seqs[i]]
Flat(seqs) == CHOOSE f : IsFlat(f, seqs, Len(seqs))

\* FlattenSeq is the last value of that function.
LEMMA FlattenIsFlat ==
  ASSUME NEW seqs, Len(seqs) # 0
  PROVE  FlattenSeq(seqs) = Flat(seqs)[Len(seqs)]
BY DEF FlattenSeq, Flat, IsFlat

\* Its values, one by one.
LEMMA FlatAt ==
  ASSUME NEW f, NEW seqs, NEW n \in Nat, IsFlat(f, seqs, n), NEW i \in 1..n
  PROVE  f[i] = IF i = 1 THEN seqs[i] ELSE f[i - 1] \o seqs[i]
<1> DEFINE step(j) == IF j = 1 THEN seqs[j] ELSE f[j - 1] \o seqs[j]
           h == [j \in 1..n |-> step(j)]
<1>1. f = h
  BY DEF IsFlat
<1> HIDE DEF step
<1>2. h[i] = step(i)
  OBVIOUS
<1> HIDE DEF h
<1>3. f[i] = step(i)
  BY <1>1, <1>2
<1>4. QED
  BY <1>3 DEF step

\* There is such a function for every length.
LEMMA FlatExists ==
  ASSUME NEW seqs, NEW n \in Nat
  PROVE  \E f : IsFlat(f, seqs, n)
<1> DEFINE P == {m \in Nat : \E f : IsFlat(f, seqs, m)}
<1>1. 0 \in P
  <2>1. IsFlat([i \in 1..0 |-> 0], seqs, 0)
    BY DEF IsFlat
  <2>2. QED
    BY <2>1
<1>2. ASSUME NEW m \in Nat, m \in P PROVE m + 1 \in P
  <2>1. PICK g : IsFlat(g, seqs, m)
    BY <1>2
  <2> DEFINE last == IF m = 0 THEN seqs[1] ELSE g[m] \o seqs[m + 1]
             f == [i \in 1..(m + 1) |-> IF i <= m THEN g[i] ELSE last]
  <2>2. \A i \in 1..(m + 1) :
          f[i] = IF i = 1 THEN seqs[i] ELSE f[i - 1] \o seqs[i]
    <3>1. TAKE i \in 1..(m + 1)
    <3>2. CASE i <= m
      <4>1. g[i] = IF i = 1 THEN seqs[i] ELSE g[i - 1] \o seqs[i]
        BY <2>1, <3>2, FlatAt
      <4>2. i # 1 => i - 1 \in 1..(m + 1) /\ i - 1 <= m
        BY <3>2
      <4>3. QED
        BY <3>2, <4>1, <4>2
    <3>3. CASE i = m + 1
      <4>1. CASE m = 0
        BY <3>3, <4>1
      <4>2. CASE m # 0
        <5>1. i # 1 /\ i - 1 = m /\ m \in 1..(m + 1) /\ ~(i <= m)
          BY <3>3, <4>2
        <5>2. f[m] = g[m] /\ f[i] = last
          BY <3>3, <5>1
        <5>3. last = g[m] \o seqs[m + 1]
          BY <4>2
        <5> HIDE DEF f, last
        <5>4. QED
          BY <3>3, <5>1, <5>2, <5>3
      <4>3. QED
        BY <4>1, <4>2
    <3>4. QED
      BY <3>2, <3>3
  <2> DEFINE h == [i \in 1..(m + 1) |-> IF i = 1 THEN seqs[i] ELSE f[i - 1] \o seqs[i]]
  <2>3. f = h
    BY <2>2
  <2>4. IsFlat(f, seqs, m + 1)
    BY <2>3 DEF IsFlat
  <2>5. QED
    BY <2>4
<1>3. QED
  <2> HIDE DEF P
  <2>1. Nat \subseteq P
    BY <1>1, <1>2, SetInduction
  <2>2. QED
    BY <2>1 DEF P

Alike(s, t, n) == \A i \in 1..n : s[i] = t[i]

\* The table of a prefix is the prefix of the table.
LEMMA FlatUnique ==
  ASSUME NEW f, NEW g, NEW seqs, NEW some, NEW n \in Nat, NEW m \in Nat, m <= n,
         IsFlat(f, seqs, n), IsFlat(g, some, m),
         Alike(seqs, some, m)
  PROVE  Alike(f, g, m)
<1> DEFINE P == {k \in Nat : k \in 1..m => f[k] = g[k]}
<1>1. 0 \in P
  OBVIOUS
<1>2. ASSUME NEW k \in Nat, k \in P PROVE k + 1 \in P
  <2>1. ASSUME k + 1 \in 1..m PROVE f[k + 1] = g[k + 1]
    <3>1. PICK i \in 1..m : i = k + 1
      BY <2>1
    <3>2. i \in 1..n
      BY <3>1
    <3>3. f[i] = IF i = 1 THEN seqs[i] ELSE f[i - 1] \o seqs[i]
      BY <3>2, FlatAt
    <3>4. g[i] = IF i = 1 THEN some[i] ELSE g[i - 1] \o some[i]
      BY FlatAt
    <3>5. i # 1 => f[i - 1] = g[i - 1]
      BY <1>2, <3>1
    <3>6. seqs[i] = some[i]
      BY DEF Alike
    <3>7. QED
      BY <3>1, <3>3, <3>4, <3>5, <3>6
  <2>2. QED
    BY <2>1
<1>3. QED
  <2> HIDE DEF P
  <2>1. Nat \subseteq P
    BY <1>1, <1>2, SetInduction
  <2>2. QED
    BY <2>1 DEF P, Alike

\* The table that FlattenSeq reads.
LEMMA FlatIsFlat ==
  ASSUME NEW S, NEW seqs \in Seq(S)
  PROVE  IsFlat(Flat(seqs), seqs, Len(seqs))
<1>1. Len(seqs) \in Nat
  BY LenProperties
<1>2. \E f : IsFlat(f, seqs, Len(seqs))
  BY <1>1, FlatExists
<1>3. QED
  BY <1>2 DEF Flat

\* Every prefix is a sequence.
LEMMA FlatType ==
  ASSUME NEW S, NEW seqs \in Seq(Seq(S)), NEW n \in Nat, n <= Len(seqs),
         NEW f, IsFlat(f, seqs, n)
  PROVE  \A i \in 1..n : f[i] \in Seq(S)
<1> DEFINE P == {k \in Nat : k \in 1..n => f[k] \in Seq(S)}
<1>1. 0 \in P
  OBVIOUS
<1>2. ASSUME NEW k \in Nat, k \in P PROVE k + 1 \in P
  <2>1. ASSUME k + 1 \in 1..n PROVE f[k + 1] \in Seq(S)
    <3>1. PICK i \in 1..n : i = k + 1
      BY <2>1
    <3>2. i \in 1..Len(seqs)
      BY <3>1, LenProperties
    <3>3. f[i] = IF i = 1 THEN seqs[i] ELSE f[i - 1] \o seqs[i]
      BY FlatAt
    <3>4. seqs[i] \in Seq(S)
      BY <3>2, ElementOfSeq
    <3>5. i # 1 => f[i - 1] \in Seq(S)
      BY <1>2, <3>1
    <3>6. i # 1 => f[i - 1] \o seqs[i] \in Seq(S)
      BY <3>4, <3>5, ConcatProperties
    <3>7. QED
      BY <3>1, <3>3, <3>4, <3>6
  <2>2. QED
    BY <2>1
<1>3. QED
  <2> HIDE DEF P
  <2>1. Nat \subseteq P
    BY <1>1, <1>2, SetInduction
  <2>2. QED
    BY <2>1 DEF P

\* Nothing flattens to nothing.
LEMMA FlattenEmpty ==
  FlattenSeq(<< >>) = << >>
BY DEF FlattenSeq

\* One more sequence at the end is one more piece at the end.
LEMMA FlattenAppend ==
  ASSUME NEW S, NEW seqs \in Seq(Seq(S)), NEW x \in Seq(S)
  PROVE  /\ FlattenSeq(seqs) \in Seq(S)
         /\ FlattenSeq(Append(seqs, x)) = FlattenSeq(seqs) \o x
<1> DEFINE more == Append(seqs, x)
<1>1. PICK n \in Nat : n = Len(seqs)
  BY LenProperties
<1>2. /\ more \in Seq(Seq(S)) /\ Len(more) = n + 1 /\ more[n + 1] = x
      /\ \A i \in 1..n : more[i] = seqs[i]
  BY <1>1, AppendProperties
<1> HIDE DEF more
<1>3. IsFlat(Flat(more), more, n + 1) /\ IsFlat(Flat(seqs), seqs, n)
  BY <1>1, <1>2, FlatIsFlat
<1>4. FlattenSeq(more) = Flat(more)[n + 1]
  BY <1>2, FlattenIsFlat
<1>5. Flat(more)[n + 1] = IF n + 1 = 1 THEN more[n + 1]
                          ELSE Flat(more)[n] \o more[n + 1]
  <2>1. PICK i \in 1..(n + 1) : i = n + 1
    OBVIOUS
  <2>2. n + 1 \in Nat /\ i - 1 = n
    BY <2>1
  <2>3. QED
    BY <1>3, <2>1, <2>2, FlatAt
<1>6. CASE n = 0
  <2>1. seqs = << >>
    BY <1>1, <1>6, EmptySeq
  <2>2. FlattenSeq(seqs) = << >> /\ << >> \in Seq(S)
    BY <2>1, FlattenEmpty, EmptySeq
  <2>3. << >> \o x = x
    BY ConcatEmptySeq
  <2>4. QED
    BY <1>2, <1>4, <1>5, <1>6, <2>2, <2>3 DEF more
<1>7. CASE n # 0
  <2>1. FlattenSeq(seqs) = Flat(seqs)[n]
    BY <1>1, <1>7, FlattenIsFlat
  <2>2. Flat(seqs)[n] \in Seq(S)
    <3>1. n \in 1..n
      BY <1>7
    <3>2. QED
      BY <1>1, <1>3, <3>1, FlatType
  <2>3. Flat(more)[n] = Flat(seqs)[n]
    <3>1. n \in 1..n /\ n + 1 \in Nat /\ n <= n + 1
      BY <1>7
    <3>2. PICK k \in Nat : k = n + 1
      BY <3>1
    <3>3. Alike(more, seqs, n)
      BY <1>2 DEF Alike
    <3>4. IsFlat(Flat(more), more, k) /\ n <= k
      BY <1>3, <3>2
    <3>5. Alike(Flat(more), Flat(seqs), n)
      BY <1>3, <3>3, <3>4, FlatUnique
    <3>6. QED
      BY <3>1, <3>5 DEF Alike
  <2>4. QED
    BY <1>2, <1>4, <1>5, <1>7, <2>1, <2>2, <2>3 DEF more
<1>8. QED
  BY <1>6, <1>7

\* The first sequence is the first piece.
LEMMA FlattenHead ==
  ASSUME NEW S, NEW seqs \in Seq(Seq(S)), seqs # << >>
  PROVE  FlattenSeq(seqs) = Head(seqs) \o FlattenSeq(Tail(seqs))
<1> DEFINE rest == Tail(seqs)
<1>1. PICK n \in Nat : n = Len(seqs)
  BY LenProperties
<1>2. /\ n # 0 /\ Head(seqs) = seqs[1] /\ seqs[1] \in Seq(S)
      /\ rest \in Seq(Seq(S)) /\ Len(rest) = n - 1
      /\ \A i \in 1..(n - 1) : rest[i] = seqs[i + 1]
  <2>1. n # 0
    BY <1>1, EmptySeq
  <2>2. seqs[1] \in Seq(S)
    BY <1>1, <2>1, ElementOfSeq
  <2>3. QED
    BY <1>1, <2>1, <2>2, HeadTailProperties
<1> HIDE DEF rest
<1> DEFINE f == Flat(seqs)
           g == Flat(rest)
<1>3. IsFlat(f, seqs, n) /\ IsFlat(g, rest, n - 1) /\ n - 1 \in Nat
  BY <1>1, <1>2, FlatIsFlat
<1>4. FlattenSeq(seqs) = f[n]
  BY <1>1, <1>2, FlattenIsFlat
<1> HIDE DEF f, g
<1>5. f[1] = seqs[1]
  <2>1. PICK i \in 1..n : i = 1
    BY <1>2
  <2>2. QED
    BY <1>3, <2>1, FlatAt
<1> DEFINE Shifted(k) == k \in 1..(n - 1) => f[k + 1] = seqs[1] \o g[k]
           P == {k \in Nat : Shifted(k)}
<1>6. 0 \in P
  OBVIOUS
<1>7. ASSUME NEW k \in Nat, k \in P PROVE k + 1 \in P
  <2>1. ASSUME k + 1 \in 1..(n - 1) PROVE f[(k + 1) + 1] = seqs[1] \o g[k + 1]
    <3>1. PICK i \in 1..(n - 1) : i = k + 1
      BY <2>1
    <3>2. PICK j \in 1..n : j = i + 1
      BY <1>2, <3>1
    <3>3. f[j] = f[i] \o seqs[j]
      <4>1. j # 1 /\ j - 1 = i
        BY <3>1, <3>2
      <4>2. f[j] = IF j = 1 THEN seqs[j] ELSE f[j - 1] \o seqs[j]
        BY <1>3, FlatAt
      <4>3. QED
        BY <4>1, <4>2
    <3>4. g[i] = IF i = 1 THEN rest[i] ELSE g[i - 1] \o rest[i]
      BY <1>3, FlatAt
    <3>5. rest[i] = seqs[j] /\ rest[i] \in Seq(S)
      <4>1. rest[i] = seqs[j]
        BY <1>2, <3>2
      <4>2. i \in 1..Len(rest)
        BY <1>2
      <4>3. QED
        BY <1>2, <4>1, <4>2, ElementOfSeq
    <3>6. CASE i = 1
      BY <1>5, <3>1, <3>2, <3>3, <3>4, <3>5, <3>6
    <3>7. CASE i # 1
      <4>1. k \in 1..(n - 1) /\ i - 1 = k
        BY <3>1, <3>7
      <4>2. f[i] = seqs[1] \o g[k]
        BY <1>7, <3>1, <4>1
      <4>3. g[k] \in Seq(S)
        <5>1. n - 1 <= Len(rest)
          BY <1>2
        <5>2. QED
          BY <1>2, <1>3, <4>1, <5>1, FlatType
      <4>4. (seqs[1] \o g[k]) \o rest[i] = seqs[1] \o (g[k] \o rest[i])
        <5>1. seqs[1] \in Seq(S) /\ g[k] \in Seq(S) /\ rest[i] \in Seq(S)
          BY <1>2, <3>5, <4>3
        <5> HIDE DEF Shifted
        <5>2. \A s, t, u \in Seq(S) : (s \o t) \o u = s \o (t \o u)
          BY ConcatAssociative, SMTT(30)
        <5>3. QED
          BY <5>1, <5>2, Zenon
      <4>5. QED
        BY <3>1, <3>2, <3>3, <3>4, <3>5, <3>7, <4>1, <4>2, <4>4
    <3>8. QED
      BY <3>6, <3>7
  <2>2. Shifted(k + 1)
    BY <2>1
  <2> HIDE DEF Shifted
  <2>3. QED
    BY <2>2
<1>8. Nat \subseteq P
  <2> HIDE DEF P
  <2>1. QED
    BY <1>6, <1>7, SetInduction
<1>9. CASE n = 1
  <2>1. rest = << >>
    BY <1>2, <1>9, EmptySeq
  <2>2. FlattenSeq(rest) = << >> /\ seqs[1] \o << >> = seqs[1]
    BY <1>2, <2>1, FlattenEmpty, ConcatEmptySeq
  <2>3. QED
    BY <1>2, <1>4, <1>5, <1>9, <2>2 DEF rest
<1>10. CASE n # 1
  <2>1. FlattenSeq(rest) = g[n - 1]
    <3>1. Len(rest) # 0
      BY <1>1, <1>2, <1>10
    <3>2. QED
      BY <1>2, <3>1, FlattenIsFlat DEF g
  <2>2. PICK k \in Nat : k = n - 1
    BY <1>3
  <2>3. k \in 1..(n - 1) /\ k + 1 = n
    BY <1>2, <1>10, <2>2
  <2>4. f[n] = seqs[1] \o g[n - 1]
    BY <1>8, <2>2, <2>3
  <2>5. QED
    BY <1>2, <1>4, <2>1, <2>4 DEF rest
<1>11. QED
  BY <1>9, <1>10

-----------------------------------------------------------------------------
(* Sequences of ids.                                                        *)

\* What ToSet makes of a longer, a shorter and a joined sequence.
LEMMA ToSetEmpty ==
  ToSet(<< >>) = {}
BY DEF ToSet

\* The set of a sequence is made of its elements.
LEMMA ToSetMember ==
  ASSUME NEW S, NEW s \in Seq(S)
  PROVE  /\ ToSet(s) \subseteq S
         /\ \A i \in 1..Len(s) : s[i] \in ToSet(s)
         /\ \A x \in ToSet(s) : \E i \in 1..Len(s) : s[i] = x
BY LenProperties, ElementOfSeq DEF ToSet

\* Joined sequences join their sets.
LEMMA ToSetConcat ==
  ASSUME NEW S, NEW s \in Seq(S), NEW t \in Seq(S)
  PROVE  ToSet(s \o t) = ToSet(s) \cup ToSet(t)
<1> DEFINE st == s \o t
<1>1. PICK n \in Nat, m \in Nat : n = Len(s) /\ m = Len(t)
  BY LenProperties
<1>2. /\ st \in Seq(S) /\ Len(st) = n + m
      /\ \A i \in 1..(n + m) : st[i] = IF i <= n THEN s[i] ELSE t[i - n]
  BY <1>1, ConcatProperties
<1> HIDE DEF st
<1>3. ASSUME NEW x \in ToSet(st) PROVE x \in ToSet(s) \cup ToSet(t)
  <2>1. PICK i \in 1..(n + m) : st[i] = x
    BY <1>2, ToSetMember
  <2>2. CASE i <= n
    BY <1>1, <1>2, <2>1, <2>2, ToSetMember
  <2>3. CASE ~(i <= n)
    <3>1. i - n \in 1..m /\ t[i - n] = x
      BY <1>2, <2>1, <2>3
    <3>2. QED
      BY <1>1, <3>1, ToSetMember
  <2>4. QED
    BY <2>2, <2>3
<1>4. ASSUME NEW x \in ToSet(s) PROVE x \in ToSet(st)
  <2>1. PICK i \in 1..n : s[i] = x
    BY <1>1, ToSetMember
  <2>2. i \in 1..(n + m) /\ st[i] = x
    BY <1>2, <2>1
  <2>3. QED
    BY <1>2, <2>2, ToSetMember
<1>5. ASSUME NEW x \in ToSet(t) PROVE x \in ToSet(st)
  <2>1. PICK i \in 1..m : t[i] = x
    BY <1>1, ToSetMember
  <2>2. PICK j \in 1..(n + m) : j = n + i
    BY <2>1
  <2>3. st[j] = x
    BY <1>2, <2>1, <2>2
  <2>4. QED
    BY <1>2, <2>3, ToSetMember
<1>6. QED
  BY <1>3, <1>4, <1>5 DEF st

\* The set of one element.
LEMMA ToSetOne ==
  ASSUME NEW x
  PROVE  ToSet(<< x >>) = {x}
BY DEF ToSet

\* An appended element joins the set.
LEMMA ToSetAppend ==
  ASSUME NEW S, NEW s \in Seq(S), NEW x \in S
  PROVE  ToSet(Append(s, x)) = ToSet(s) \cup {x}
<1>1. Append(s, x) = s \o << x >> /\ << x >> \in Seq(S)
  BY AppendIsConcat
<1>2. ToSet(s \o << x >>) = ToSet(s) \cup ToSet(<< x >>)
  BY <1>1, ToSetConcat, ZenonT(30)
<1>3. QED
  BY <1>1, <1>2, ToSetOne

\* A sequence is its head before its tail.
LEMMA HeadIsFirst ==
  ASSUME NEW S, NEW s \in Seq(S), s # << >>
  PROVE  s = << Head(s) >> \o Tail(s) /\ << Head(s) >> \in Seq(S)
<1> DEFINE h == << Head(s) >>
           t == Tail(s)
<1>1. PICK n \in Nat : n = Len(s)
  BY LenProperties
<1>2. /\ n # 0 /\ Head(s) = s[1] /\ Head(s) \in S /\ t \in Seq(S)
      /\ Len(t) = n - 1 /\ \A i \in 1..(n - 1) : t[i] = s[i + 1]
  BY <1>1, EmptySeq, HeadTailProperties
<1>3. h \in Seq(S) /\ Len(h) = 1 /\ h[1] = s[1]
  BY <1>2
<1> HIDE DEF h, t
<1>4. /\ h \o t \in Seq(S) /\ Len(h \o t) = n
      /\ \A i \in 1..n : (h \o t)[i] = IF i <= 1 THEN h[i] ELSE t[i - 1]
  <2>1. /\ h \o t \in Seq(S) /\ Len(h \o t) = Len(h) + Len(t)
        /\ \A i \in 1..(Len(h) + Len(t)) : (h \o t)[i] =
              IF i <= Len(h) THEN h[i] ELSE t[i - Len(h)]
    <3>1. h \in Seq(S) /\ t \in Seq(S)
      BY <1>2, <1>3
    <3>2. QED
      BY <3>1, ConcatProperties
  <2>2. Len(h) + Len(t) = n
    BY <1>2, <1>3
  <2>3. QED
    BY <1>3, <2>1, <2>2
<1>5. \A i \in 1..n : (h \o t)[i] = s[i]
  BY <1>2, <1>3, <1>4
<1>6. s = h \o t
  BY <1>1, <1>4, <1>5, SeqEqual
<1>7. QED
  BY <1>3, <1>6 DEF h, t

\* The set of a sequence is its head with the set of its tail.
LEMMA ToSetHeadTail ==
  ASSUME NEW S, NEW s \in Seq(S), s # << >>
  PROVE  ToSet(s) = {Head(s)} \cup ToSet(Tail(s))
<1>1. s = << Head(s) >> \o Tail(s) /\ << Head(s) >> \in Seq(S) /\ Tail(s) \in Seq(S)
  BY HeadIsFirst, HeadTailProperties
<1>2. ToSet(<< Head(s) >> \o Tail(s)) = ToSet(<< Head(s) >>) \cup ToSet(Tail(s))
  BY <1>1, ToSetConcat, ZenonT(30)
<1>3. QED
  BY <1>1, <1>2, ToSetOne

\* Sequences without repetition, and the parts of one.
LEMMA InjectiveConcat ==
  ASSUME NEW S, NEW s \in Seq(S), NEW t \in Seq(S), IsInjective(s \o t)
  PROVE  IsInjective(s) /\ IsInjective(t) /\ ToSet(s) \cap ToSet(t) = {}
<1> DEFINE st == s \o t
<1>1. PICK n \in Nat, m \in Nat : n = Len(s) /\ m = Len(t)
  BY LenProperties
<1>2. /\ st \in Seq(S) /\ Len(st) = n + m
      /\ \A i \in 1..(n + m) : st[i] = IF i <= n THEN s[i] ELSE t[i - n]
  BY <1>1, ConcatProperties
<1>3. DOMAIN st = 1..(n + m) /\ DOMAIN s = 1..n /\ DOMAIN t = 1..m
  BY <1>1, <1>2, LenProperties
<1>4. IsInjective(st)
  OBVIOUS
<1> HIDE DEF st
<1>5. \A i, j \in 1..(n + m) : st[i] = st[j] => i = j
  BY <1>3, <1>4 DEF IsInjective
<1>6. IsInjective(s)
  <2>1. ASSUME NEW i \in 1..n, NEW j \in 1..n, s[i] = s[j] PROVE i = j
    <3>1. i \in 1..(n + m) /\ j \in 1..(n + m) /\ st[i] = st[j]
      BY <1>2, <2>1
    <3>2. QED
      BY <1>5, <3>1
  <2>2. QED
    BY <1>3, <2>1 DEF IsInjective
<1>7. IsInjective(t)
  <2>1. ASSUME NEW i \in 1..m, NEW j \in 1..m, t[i] = t[j] PROVE i = j
    <3>1. PICK a \in 1..(n + m), b \in 1..(n + m) : a = n + i /\ b = n + j
      OBVIOUS
    <3>2. st[a] = st[b]
      BY <1>2, <2>1, <3>1
    <3>3. QED
      BY <1>5, <3>1, <3>2
  <2>2. QED
    BY <1>3, <2>1 DEF IsInjective
<1>8. ASSUME NEW x \in ToSet(s), x \in ToSet(t) PROVE FALSE
  <2>1. PICK i \in 1..n, j \in 1..m : s[i] = x /\ t[j] = x
    BY <1>1, <1>8, ToSetMember
  <2>2. PICK b \in 1..(n + m) : b = n + j
    OBVIOUS
  <2>3. i \in 1..(n + m) /\ st[i] = st[b] /\ i # b
    BY <1>2, <2>1, <2>2
  <2>4. QED
    BY <1>5, <2>3
<1>9. QED
  BY <1>6, <1>7, <1>8

\* A new element repeats nothing.
LEMMA InjectiveAppend ==
  ASSUME NEW S, NEW s \in Seq(S), NEW x \in S, IsInjective(s), x \notin ToSet(s)
  PROVE  IsInjective(Append(s, x))
<1> DEFINE t == Append(s, x)
<1>1. PICK n \in Nat : n = Len(s)
  BY LenProperties
<1>2. /\ t \in Seq(S) /\ Len(t) = n + 1 /\ t[n + 1] = x
      /\ \A i \in 1..n : t[i] = s[i]
  BY <1>1, AppendProperties
<1>3. DOMAIN t = 1..(n + 1) /\ DOMAIN s = 1..n
  BY <1>1, <1>2, LenProperties
<1> HIDE DEF t
<1>4. \A i \in 1..n : s[i] # x
  BY <1>1, ToSetMember
<1>5. ASSUME NEW i \in 1..(n + 1), NEW j \in 1..(n + 1), t[i] = t[j] PROVE i = j
  BY <1>2, <1>3, <1>4, <1>5 DEF IsInjective
<1>6. IsInjective(t)
  BY <1>3, <1>5 DEF IsInjective
<1>7. QED
  BY <1>6 DEF t

\* Without takes out the first, the last, or nothing.
LEMMA WithoutHead ==
  ASSUME NEW S, NEW s \in Seq(S), s # << >>, IsInjective(s)
  PROVE  Without(s, Head(s)) = Tail(s)
<1>1. PICK n \in Nat : n = Len(s) /\ n # 0
  BY LenProperties, EmptySeq
<1>2. DOMAIN s = 1..n /\ Head(s) = s[1] /\ Head(s) \in ToSet(s) /\ 1 \in 1..n
  BY <1>1, LenProperties, ToSetMember
<1>3. (CHOOSE i \in DOMAIN s : s[i] = Head(s)) = 1
  BY <1>2 DEF IsInjective
<1>4. SubSeq(s, 1, 1 - 1) = << >>
  BY SubSeqEmpty
<1>5. SubSeq(s, 1 + 1, Len(s)) = Tail(s) /\ Tail(s) \in Seq(S)
  BY TailIsSubSeq, HeadTailProperties
<1>6. RemoveAt(s, 1) = Tail(s)
  BY <1>4, <1>5, ConcatEmptySeq DEF RemoveAt
<1>7. QED
  BY <1>2, <1>3, <1>6 DEF Without

\* Taking out the last of distinct ids leaves those before it.
LEMMA WithoutLast ==
  ASSUME NEW S, NEW s \in Seq(S), NEW x \in S, IsInjective(s \o << x >>)
  PROVE  Without(s \o << x >>, x) = s
<1> DEFINE t == s \o << x >>
<1>1. PICK n \in Nat : n = Len(s)
  BY LenProperties
<1>2. << x >> \in Seq(S) /\ Len(<< x >>) = 1 /\ << x >>[1] = x
  OBVIOUS
<1>3. t \in Seq(S) /\ Len(t) = n + 1 /\ t[n + 1] = x
  <2>1. /\ t \in Seq(S) /\ Len(t) = n + 1
        /\ \A i \in 1..(n + 1) : t[i] = IF i <= n THEN s[i] ELSE << x >>[i - n]
    BY <1>1, <1>2, ConcatProperties
  <2>2. PICK k \in 1..(n + 1) : k = n + 1
    OBVIOUS
  <2>3. ~(k <= n) /\ k - n = 1
    BY <2>2
  <2> HIDE DEF t
  <2>4. t[k] = x
    BY <1>2, <2>1, <2>3
  <2>5. QED
    BY <2>1, <2>2, <2>4
<1>4. DOMAIN t = 1..(n + 1) /\ n + 1 \in 1..(n + 1) /\ x \in ToSet(t)
  <2> HIDE DEF t
  <2>1. DOMAIN t = 1..(n + 1) /\ n + 1 \in 1..(n + 1)
    BY <1>3, LenProperties
  <2>2. \A i \in 1..(n + 1) : t[i] \in ToSet(t)
    BY <1>3, ToSetMember
  <2>3. QED
    BY <1>3, <2>1, <2>2
<1>5. SubSeq(t, 1, n) = s
  <2>1. CASE n = 0
    <3>1. s = << >>
      BY <1>1, <2>1, EmptySeq
    <3>2. SubSeq(t, 1, 0) = << >>
      BY SubSeqEmpty
    <3>3. QED
      BY <2>1, <3>1, <3>2
  <2>2. CASE n # 0
    <3>1. 1 \in 1..n /\ n \in 1..n
      BY <2>2
    <3>2. SubSeq(t, 1, n) = SubSeq(s, 1, n)
      <4>1. 1 \in 1..Len(s) /\ n \in 1..Len(s)
        BY <1>1, <3>1
      <4>2. QED
        BY <1>2, <4>1, SubSeqOfConcat1
    <3>3. QED
      BY <1>1, <3>2, SubSeqFull
  <2>3. QED
    BY <2>1, <2>2
<1>6. IsInjective(t)
  OBVIOUS
<1> HIDE DEF t
<1>7. (CHOOSE i \in DOMAIN t : t[i] = x) = n + 1
  BY <1>3, <1>4, <1>6 DEF IsInjective
<1>8. SubSeq(t, (n + 1) + 1, Len(t)) = << >>
  BY <1>3, SubSeqEmpty
<1>9. (n + 1) - 1 = n
  OBVIOUS
<1>10. RemoveAt(t, n + 1) = s
  BY <1>5, <1>8, <1>9, ConcatEmptySeq DEF RemoveAt
<1>11. Without(t, x) = s
  BY <1>4, <1>7, <1>10 DEF Without
<1>12. QED
  BY <1>11 DEF t

\* Taking out what is not there changes nothing.
LEMMA WithoutAbsent ==
  ASSUME NEW s, NEW x, x \notin ToSet(s)
  PROVE  Without(s, x) = s
BY DEF Without

\* The reservation finds an id, and one that is not pending.
LEMMA FreeIdIsFree ==
  ASSUME NEW held \in Seq(Ids), Len(held) < MaxPending
  PROVE  FreeId(held) \in Ids /\ FreeId(held) \notin ToSet(held)
<1> DEFINE free == Ids \ ToSet(held)
           later == {id \in free : id >= next_id}
<1>1. PICK n \in Nat : n = Len(held)
  BY LenProperties
<1>2. free # {}
  <2>1. SUFFICES ASSUME Ids \subseteq ToSet(held) PROVE FALSE
    OBVIOUS
  <2> DEFINE f == [id \in Ids |-> CHOOSE i \in 1..n : held[i] = id]
  <2>2. \A id \in Ids : f[id] \in 1..n /\ held[f[id]] = id
    BY <1>1, <2>1, ToSetMember
  <2>3. f \in [Ids -> 1..n]
    BY <2>2
  <2>4. IsFiniteSet(Ids) /\ Cardinality(Ids) = LastId
    BY BoundAssumption, FS_Interval DEF Ids
  <2>5. IsFiniteSet(1..n) /\ Cardinality(1..n) = n
    BY FS_Interval
  <2>6. n < LastId
    BY <1>1, BoundAssumption
  <2> HIDE DEF f
  <2>7. \E x, y \in Ids : x # y /\ f[x] = f[y]
    BY <2>3, <2>4, <2>5, <2>6, FS_PigeonHole
  <2>8. QED
    BY <2>2, <2>7
<1>3. ASSUME NEW S, S \subseteq free, S # {} PROVE Min(S) \in free
  <2>1. S \subseteq Nat
    BY <1>3, BoundAssumption DEF Ids
  <2>2. \E x \in S : \A y \in S : x <= y
    BY <1>3, <2>1, LeastExists
  <2>3. Min(S) \in S
    BY <2>2 DEF Min
  <2>4. QED
    BY <1>3, <2>3
<1>4. FreeId(held) = IF later # {} THEN Min(later) ELSE Min(free)
  BY DEF FreeId
<1>5. later \subseteq free
  OBVIOUS
<1> HIDE DEF later
<1>6. FreeId(held) \in free
  BY <1>2, <1>3, <1>4, <1>5
<1>7. QED
  BY <1>6

-----------------------------------------------------------------------------
(* The ids that messages carry.                                             *)

\* Optional is a sequence of at most one id.
LEMMA OptionalType ==
  ASSUME NEW id \in Ids \cup {None}
  PROVE  /\ Optional(id) \in Seq(Ids)
         /\ id = None => Optional(id) = << >>
         /\ id # None => Optional(id) = << id >>
<1>1. CASE id = None
  BY <1>1, EmptySeq DEF Optional
<1>2. CASE id # None
  <2>1. Optional(id) = << id >> /\ id \in Ids
    BY <1>2 DEF Optional
  <2>2. << id >> \in Seq(Ids)
    BY <2>1
  <2>3. QED
    BY <1>2, <2>1, <2>2
<1>3. QED
  BY <1>1, <1>2

\* No messages carry no ids.
LEMMA IdsOfEmpty ==
  IdsOf(<< >>) = << >>
BY DEF IdsOf

\* The ids of messages, one for each, in their order.
LEMMA IdsOfType ==
  ASSUME NEW S, \A m \in S : m.id \in Ids, NEW ms \in Seq(S)
  PROVE  /\ IdsOf(ms) \in Seq(Ids) /\ Len(IdsOf(ms)) = Len(ms)
         /\ \A i \in 1..Len(ms) : IdsOf(ms)[i] = ms[i].id
         /\ \A m \in ToSet(ms) : m.id \in ToSet(IdsOf(ms))
<1>1. PICK n \in Nat : n = Len(ms)
  BY LenProperties
<1>2. DOMAIN ms = 1..n /\ \A i \in 1..n : ms[i] \in S
  BY <1>1, LenProperties, ElementOfSeq
<1>3. IdsOf(ms) = [i \in 1..n |-> ms[i].id]
  BY <1>2 DEF IdsOf
<1>4. IdsOf(ms) \in [1..n -> Ids]
  BY <1>2, <1>3
<1>5. IdsOf(ms) \in Seq(Ids) /\ Len(IdsOf(ms)) = n
  BY <1>4, <1>3
<1>6. ASSUME NEW m \in ToSet(ms) PROVE m.id \in ToSet(IdsOf(ms))
  <2>1. PICK i \in 1..n : ms[i] = m
    BY <1>1, ToSetMember
  <2>2. IdsOf(ms)[i] = m.id
    BY <1>3, <2>1
  <2>3. QED
    BY <1>5, <2>2, ToSetMember
<1>7. QED
  BY <1>1, <1>3, <1>5, <1>6

\* A message more carries its id behind the others.
LEMMA IdsOfAppend ==
  ASSUME NEW S, \A m \in S : m.id \in Ids, NEW ms \in Seq(S), NEW m \in S
  PROVE  IdsOf(Append(ms, m)) = IdsOf(ms) \o << m.id >>
<1> DEFINE more == Append(ms, m)
           u == IdsOf(more)
           v == IdsOf(ms) \o << m.id >>
<1>1. PICK n \in Nat : n = Len(ms)
  BY LenProperties
<1>2. /\ more \in Seq(S) /\ Len(more) = n + 1 /\ more[n + 1] = m
      /\ \A i \in 1..n : more[i] = ms[i]
  BY <1>1, AppendProperties
<1> HIDE DEF more
<1>3. /\ u \in Seq(Ids) /\ Len(u) = n + 1
      /\ \A i \in 1..(n + 1) : u[i] = more[i].id
  BY <1>2, IdsOfType
<1>4. /\ IdsOf(ms) \in Seq(Ids) /\ Len(IdsOf(ms)) = n
      /\ \A i \in 1..n : IdsOf(ms)[i] = ms[i].id
  BY <1>1, IdsOfType
<1>5. v = Append(IdsOf(ms), m.id)
  BY <1>4, AppendIsConcat
<1>6. /\ v \in Seq(Ids) /\ Len(v) = n + 1 /\ v[n + 1] = m.id
      /\ \A i \in 1..n : v[i] = IdsOf(ms)[i]
  <2> HIDE DEF v
  <2>1. QED
    BY <1>4, <1>5, AppendProperties
<1> HIDE DEF u, v
<1>7. \A i \in 1..(n + 1) : u[i] = v[i]
  <2>1. TAKE i \in 1..(n + 1)
  <2>2. CASE i = n + 1
    BY <1>2, <1>3, <1>6, <2>2
  <2>3. CASE i # n + 1
    <3>1. i \in 1..n
      BY <2>3
    <3>2. u[i] = more[i].id
      BY <1>3
    <3>3. more[i] = ms[i]
      BY <1>2, <3>1
    <3>4. v[i] = IdsOf(ms)[i] /\ IdsOf(ms)[i] = ms[i].id
      BY <1>4, <1>6, <3>1
    <3>5. QED
      BY <3>2, <3>3, <3>4, Zenon
  <2>4. QED
    BY <2>2, <2>3
<1>8. u = v
  BY <1>3, <1>6, <1>7, SeqEqual
<1>9. QED
  BY <1>8 DEF u, v, more

\* The oldest message carries the first id.
LEMMA IdsOfHead ==
  ASSUME NEW S, \A m \in S : m.id \in Ids, NEW ms \in Seq(S), ms # << >>
  PROVE  IdsOf(ms) = << Head(ms).id >> \o IdsOf(Tail(ms))
<1> DEFINE rest == Tail(ms)
           u == IdsOf(ms)
<1>1. PICK n \in Nat : n = Len(ms) /\ n # 0
  BY LenProperties, EmptySeq
<1>2. /\ rest \in Seq(S) /\ Len(rest) = n - 1 /\ Head(ms) = ms[1]
      /\ \A i \in 1..(n - 1) : rest[i] = ms[i + 1]
  BY <1>1, HeadTailProperties
<1> HIDE DEF rest
<1>3. /\ u \in Seq(Ids) /\ Len(u) = n /\ \A i \in 1..n : u[i] = ms[i].id
  BY <1>1, IdsOfType
<1>4. /\ IdsOf(rest) \in Seq(Ids) /\ Len(IdsOf(rest)) = n - 1
      /\ \A i \in 1..(n - 1) : IdsOf(rest)[i] = rest[i].id
  BY <1>2, IdsOfType
<1> HIDE DEF u
<1>5. u # << >> /\ Head(u) = ms[1].id
  BY <1>1, <1>3
<1>6. /\ Tail(u) \in Seq(Ids) /\ Len(Tail(u)) = n - 1
      /\ \A i \in 1..(n - 1) : Tail(u)[i] = u[i + 1]
  BY <1>3, <1>5, HeadTailProperties
<1>7. Tail(u) = IdsOf(rest)
  <2>1. \A i \in 1..(n - 1) : Tail(u)[i] = IdsOf(rest)[i]
    <3>1. TAKE i \in 1..(n - 1)
    <3>2. PICK j \in 1..n : j = i + 1
      OBVIOUS
    <3>3. QED
      BY <1>2, <1>3, <1>4, <1>6, <3>2
  <2>2. QED
    BY <1>4, <1>6, <2>1, SeqEqual
<1>8. u = << Head(u) >> \o Tail(u)
  BY <1>3, <1>5, HeadIsFirst
<1>9. QED
  BY <1>2, <1>5, <1>7, <1>8 DEF u, rest

\* What one request adds: its id and its companion's.
Piece(m) == << m.id >> \o Optional(m.companion)
Pieces(ms) == [i \in DOMAIN ms |-> Piece(ms[i])]

\* Two sequences of one make a pair.
LEMMA ConcatOnes ==
  ASSUME NEW S, NEW a \in S, NEW b \in S
  PROVE  << a >> \o << b >> = << a, b >>
<1> DEFINE p == << a >>
           q == << b >>
           u == p \o q
           v == << a, b >>
<1>1. p \in Seq(S) /\ Len(p) = 1 /\ p[1] = a
  OBVIOUS
<1>2. q \in Seq(S) /\ Len(q) = 1 /\ q[1] = b
  OBVIOUS
<1>3. v \in Seq(S) /\ Len(v) = 2 /\ v[1] = a /\ v[2] = b
  OBVIOUS
<1> HIDE DEF p, q, v
<1>4. /\ u \in Seq(S) /\ Len(u) = Len(p) + Len(q)
      /\ \A i \in 1..(Len(p) + Len(q)) :
           u[i] = IF i <= Len(p) THEN p[i] ELSE q[i - Len(p)]
  BY <1>1, <1>2, ConcatProperties
<1> HIDE DEF u
<1>5. Len(u) = 2 /\ \A i \in 1..2 : u[i] = v[i]
  BY <1>1, <1>2, <1>3, <1>4
<1>6. u = v
  BY <1>3, <1>4, <1>5, SeqEqual
<1>7. QED
  BY <1>6 DEF p, q, u, v

\* A request adds its id, and its companion's behind it.
LEMMA PieceType ==
  ASSUME NEW m \in Requests
  PROVE  /\ Piece(m) \in Seq(Ids) /\ m.id \in ToSet(Piece(m))
         /\ m.companion = None => Piece(m) = << m.id >>
         /\ m.companion # None => Piece(m) = << m.id, m.companion >>
<1>1. m.id \in Ids /\ m.companion \in Ids \cup {None}
  BY DEF Requests
<1>2. << m.id >> \in Seq(Ids)
  BY <1>1
<1>3. Optional(m.companion) \in Seq(Ids)
  BY <1>1, OptionalType
<1>4. Piece(m) \in Seq(Ids)
  BY <1>2, <1>3, ConcatProperties DEF Piece
<1>5. m.id \in ToSet(Piece(m))
  <2>1. ToSet(Piece(m)) = ToSet(<< m.id >>) \cup ToSet(Optional(m.companion))
    BY <1>2, <1>3, ToSetConcat, ZenonT(30) DEF Piece
  <2>2. QED
    BY <2>1, ToSetOne
<1>6. ASSUME m.companion = None PROVE Piece(m) = << m.id >>
  <2>1. Optional(m.companion) = << >>
    BY <1>6 DEF Optional
  <2>2. QED
    BY <1>2, <2>1, ConcatEmptySeq DEF Piece
<1>7. ASSUME m.companion # None PROVE Piece(m) = << m.id, m.companion >>
  <2>1. Optional(m.companion) = << m.companion >>
    BY <1>7 DEF Optional
  <2>2. << m.id >> \o << m.companion >> = << m.id, m.companion >>
    BY <1>1, <1>7, ConcatOnes
  <2>3. QED
    BY <2>1, <2>2 DEF Piece
<1>8. QED
  BY <1>4, <1>5, <1>6, <1>7

\* The pieces of a sequence of requests, one for each.
LEMMA PiecesType ==
  ASSUME NEW ms \in Seq(Requests)
  PROVE  /\ Pieces(ms) \in Seq(Seq(Ids)) /\ Len(Pieces(ms)) = Len(ms)
         /\ \A i \in 1..Len(ms) : Pieces(ms)[i] = Piece(ms[i])
<1>1. PICK n \in Nat : n = Len(ms)
  BY LenProperties
<1>2. DOMAIN ms = 1..n /\ \A i \in 1..n : ms[i] \in Requests
  BY <1>1, LenProperties, ElementOfSeq
<1>3. Pieces(ms) = [i \in 1..n |-> Piece(ms[i])]
  BY <1>2 DEF Pieces
<1>4. Pieces(ms) \in [1..n -> Seq(Ids)]
  BY <1>2, <1>3, PieceType
<1>5. QED
  BY <1>1, <1>3, <1>4

\* WithCompanions flattens the pieces.
LEMMA CompanionsFlatten ==
  ASSUME NEW ms
  PROVE  WithCompanions(ms) = FlattenSeq(Pieces(ms))
BY DEF WithCompanions, Pieces, Piece

\* No requests carry no ids.
LEMMA CompanionsEmpty ==
  WithCompanions(<< >>) = << >>
<1>1. Pieces(<< >>) = << >>
  BY DEF Pieces
<1>2. QED
  BY <1>1, CompanionsFlatten, FlattenEmpty

\* A request more adds its piece behind the others.
LEMMA CompanionsAppend ==
  ASSUME NEW ms \in Seq(Requests), NEW m \in Requests
  PROVE  /\ WithCompanions(ms) \in Seq(Ids)
         /\ WithCompanions(Append(ms, m)) = WithCompanions(ms) \o Piece(m)
<1> DEFINE more == Append(ms, m)
           u == Pieces(more)
           v == Append(Pieces(ms), Piece(m))
<1>1. PICK n \in Nat : n = Len(ms)
  BY LenProperties
<1>2. /\ more \in Seq(Requests) /\ Len(more) = n + 1 /\ more[n + 1] = m
      /\ \A i \in 1..n : more[i] = ms[i]
  BY <1>1, AppendProperties
<1> HIDE DEF more
<1>3. /\ u \in Seq(Seq(Ids)) /\ Len(u) = n + 1
      /\ \A i \in 1..(n + 1) : u[i] = Piece(more[i])
  BY <1>2, PiecesType
<1>4. /\ Pieces(ms) \in Seq(Seq(Ids)) /\ Len(Pieces(ms)) = n
      /\ \A i \in 1..n : Pieces(ms)[i] = Piece(ms[i])
  BY <1>1, PiecesType
<1>5. Piece(m) \in Seq(Ids)
  BY PieceType
<1>6. /\ v \in Seq(Seq(Ids)) /\ Len(v) = n + 1 /\ v[n + 1] = Piece(m)
      /\ \A i \in 1..n : v[i] = Pieces(ms)[i]
  <2> DEFINE p == Pieces(ms)
             q == Piece(m)
  <2>1. p \in Seq(Seq(Ids)) /\ q \in Seq(Ids) /\ Len(p) = n
    BY <1>4, <1>5
  <2> HIDE DEF p, q
  <2>2. /\ Append(p, q) \in Seq(Seq(Ids)) /\ Len(Append(p, q)) = Len(p) + 1
        /\ \A i \in 1..Len(p) : Append(p, q)[i] = p[i]
        /\ Append(p, q)[Len(p) + 1] = q
    BY <2>1, AppendProperties
  <2>3. QED
    BY <2>1, <2>2 DEF p, q
<1> HIDE DEF u, v
<1>7. \A i \in 1..(n + 1) : u[i] = v[i]
  <2>1. TAKE i \in 1..(n + 1)
  <2>2. CASE i = n + 1
    BY <1>2, <1>3, <1>6, <2>2
  <2>3. CASE i # n + 1
    <3>1. i \in 1..n
      BY <2>3
    <3>2. QED
      BY <1>2, <1>3, <1>4, <1>6, <3>1
  <2>4. QED
    BY <2>2, <2>3
<1>8. u = v
  BY <1>3, <1>6, <1>7, SeqEqual
<1>9. /\ FlattenSeq(Pieces(ms)) \in Seq(Ids)
      /\ FlattenSeq(v) = FlattenSeq(Pieces(ms)) \o Piece(m)
  BY <1>4, <1>5, FlattenAppend DEF v
<1>10. QED
  BY <1>8, <1>9, CompanionsFlatten DEF u, more

\* The oldest request carries the first piece.
LEMMA CompanionsHead ==
  ASSUME NEW ms \in Seq(Requests), ms # << >>
  PROVE  WithCompanions(ms) = Piece(Head(ms)) \o WithCompanions(Tail(ms))
<1> DEFINE rest == Tail(ms)
           u == Pieces(ms)
<1>1. PICK n \in Nat : n = Len(ms) /\ n # 0
  BY LenProperties, EmptySeq
<1>2. /\ rest \in Seq(Requests) /\ Len(rest) = n - 1 /\ Head(ms) = ms[1]
      /\ \A i \in 1..(n - 1) : rest[i] = ms[i + 1]
  BY <1>1, HeadTailProperties
<1> HIDE DEF rest
<1>3. /\ u \in Seq(Seq(Ids)) /\ Len(u) = n /\ \A i \in 1..n : u[i] = Piece(ms[i])
  BY <1>1, PiecesType
<1>4. /\ Pieces(rest) \in Seq(Seq(Ids)) /\ Len(Pieces(rest)) = n - 1
      /\ \A i \in 1..(n - 1) : Pieces(rest)[i] = Piece(rest[i])
  BY <1>2, PiecesType
<1>5. u = Pieces(ms)
  OBVIOUS
<1> HIDE DEF u
<1>6. u # << >> /\ Head(u) = Piece(ms[1])
  BY <1>1, <1>3
<1>7. /\ Tail(u) \in Seq(Seq(Ids)) /\ Len(Tail(u)) = n - 1
      /\ \A i \in 1..(n - 1) : Tail(u)[i] = u[i + 1]
  BY <1>3, <1>6, HeadTailProperties
<1>8. Tail(u) = Pieces(rest)
  <2>1. \A i \in 1..(n - 1) : Tail(u)[i] = Pieces(rest)[i]
    <3>1. TAKE i \in 1..(n - 1)
    <3>2. PICK j \in 1..n : j = i + 1
      OBVIOUS
    <3>3. QED
      BY <1>2, <1>3, <1>4, <1>7, <3>2
  <2>2. QED
    BY <1>4, <1>7, <2>1, SeqEqual
<1>9. FlattenSeq(u) = Head(u) \o FlattenSeq(Tail(u))
  BY <1>3, <1>6, FlattenHead
<1>10. QED
  BY <1>2, <1>5, <1>6, <1>8, <1>9, CompanionsFlatten DEF rest

\* Each request's own id is among them.
LEMMA CompanionsCarry ==
  ASSUME NEW ms \in Seq(Requests), NEW m \in ToSet(ms)
  PROVE  m.id \in ToSet(WithCompanions(ms))
<1> DEFINE Carried(s) == \A r \in ToSet(s) : r.id \in ToSet(WithCompanions(s))
           P == {n \in Nat : \A s \in Seq(Requests) : Len(s) = n => Carried(s)}
<1>1. 0 \in P
  <2>1. ASSUME NEW s \in Seq(Requests), Len(s) = 0 PROVE Carried(s)
    BY <2>1, EmptySeq, ToSetEmpty
  <2>2. QED
    BY <2>1
<1>2. ASSUME NEW n \in Nat, n \in P PROVE n + 1 \in P
  <2>1. ASSUME NEW s \in Seq(Requests), Len(s) = n + 1 PROVE Carried(s)
    <3>1. s # << >> /\ n + 1 # 0
      BY <2>1, EmptySeq
    <3>2. /\ Head(s) \in Requests /\ Tail(s) \in Seq(Requests)
          /\ Len(Tail(s)) = n
      BY <2>1, <3>1, HeadTailProperties
    <3>3. Carried(Tail(s))
      BY <1>2, <3>2
    <3>4. ToSet(s) = {Head(s)} \cup ToSet(Tail(s))
      BY <3>1, ToSetHeadTail
    <3>5. /\ Piece(Head(s)) \in Seq(Ids) /\ Head(s).id \in ToSet(Piece(Head(s)))
          /\ WithCompanions(Tail(s)) \in Seq(Ids)
      BY <3>2, PieceType, CompanionsAppend
    <3>6. ToSet(WithCompanions(s)) =
            ToSet(Piece(Head(s))) \cup ToSet(WithCompanions(Tail(s)))
      <4>1. WithCompanions(s) = Piece(Head(s)) \o WithCompanions(Tail(s))
        BY <3>1, CompanionsHead
      <4>2. QED
        BY <3>5, <4>1, ToSetConcat
    <3>7. QED
      BY <3>3, <3>4, <3>5, <3>6
  <2> HIDE DEF Carried
  <2>2. QED
    BY <2>1
<1>3. Nat \subseteq P
  <2> HIDE DEF P
  <2>1. QED
    BY <1>1, <1>2, SetInduction
<1>4. Len(ms) \in P
  BY <1>3, LenProperties
<1>5. QED
  BY <1>4

-----------------------------------------------------------------------------
(* What the channels hold.                                                  *)

Owings == [id : Ids, kind : {"models", "request", "shutdown"}]

\* The ids that the worker or the page's event queue still has to deal with.
Sent == IdsOf(plain) \o IdsOf(mailbox) \o IdsOf(answers)
        \o Optional(initializing) \o WithCompanions(deferred)

\* The types of the channels.
LEMMA ChannelTypes ==
  ASSUME TypeOK
  PROVE  /\ plain \in Seq(Replies) /\ mailbox \in Seq(Replies)
         /\ answers \in Seq(Owings)
         /\ requests \in Seq(Requests) /\ deferred \in Seq(Requests)
         /\ pending \in Seq(Ids)
         /\ initializing \in Ids \cup {None} /\ queued_models \in Ids \cup {None}
BY DEF TypeOK, Owings

\* The types of the parts of TransitIsPending.
LEMMA PartTypes ==
  ASSUME TypeOK
  PROVE  /\ IdsOf(plain) \in Seq(Ids) /\ IdsOf(mailbox) \in Seq(Ids)
         /\ IdsOf(answers) \in Seq(Ids)
         /\ Optional(initializing) \in Seq(Ids)
         /\ WithCompanions(deferred) \in Seq(Ids)
         /\ WithCompanions(requests) \in Seq(Ids)
         /\ Optional(queued_models) \in Seq(Ids)
<1>1. \A m \in Replies : m.id \in Ids
  BY DEF Replies
<1>2. \A m \in Owings : m.id \in Ids
  BY DEF Owings
<1>3. IdsOf(plain) \in Seq(Ids) /\ IdsOf(mailbox) \in Seq(Ids)
  BY <1>1, ChannelTypes, IdsOfType
<1>4. IdsOf(answers) \in Seq(Ids)
  BY <1>2, ChannelTypes, IdsOfType
<1>5. \A ms \in Seq(Requests) : WithCompanions(ms) \in Seq(Ids)
  <2>1. TAKE ms \in Seq(Requests)
  <2>2. PICK r \in Requests : TRUE
    <3>1. [id |-> 1, kind |-> "request", companion |-> None] \in Requests
      BY BoundAssumption DEF Requests, Ids
    <3>2. QED
      BY <3>1
  <2>3. QED
    BY <2>2, CompanionsAppend
<1>6. QED
  BY <1>3, <1>4, <1>5, ChannelTypes, OptionalType

\* The ids beyond the requests' channel are ids.
LEMMA SentType ==
  ASSUME TypeOK
  PROVE  Sent \in Seq(Ids)
BY PartTypes, ConcatProperties DEF Sent

\* TransitIsPending in terms of them.
LEMMA TransitIsSent ==
  TransitIsPending <=>
    pending = Sent \o WithCompanions(requests) \o Optional(queued_models)
BY DEF TransitIsPending, Sent

\* Every message on its way is about an id on its way.
LEMMA SentCarries ==
  ASSUME TypeOK
  PROVE  \A m \in ToSet(plain) \cup ToSet(mailbox) \cup ToSet(answers)
                  \cup ToSet(deferred) :
           m.id \in ToSet(Sent)
<1> DEFINE a == IdsOf(plain)
           b == IdsOf(mailbox)
           c == IdsOf(answers)
           d == Optional(initializing)
           e == WithCompanions(deferred)
<1>1. /\ a \in Seq(Ids) /\ b \in Seq(Ids) /\ c \in Seq(Ids)
      /\ d \in Seq(Ids) /\ e \in Seq(Ids)
  BY PartTypes
<1>2. /\ \A m \in ToSet(plain) : m.id \in ToSet(a)
      /\ \A m \in ToSet(mailbox) : m.id \in ToSet(b)
  <2>1. \A m \in Replies : m.id \in Ids
    BY DEF Replies
  <2>2. QED
    BY <2>1, ChannelTypes, IdsOfType
<1>3. \A m \in ToSet(answers) : m.id \in ToSet(c)
  <2>1. \A m \in Owings : m.id \in Ids
    BY DEF Owings
  <2>2. QED
    BY <2>1, ChannelTypes, IdsOfType
<1>4. \A m \in ToSet(deferred) : m.id \in ToSet(e)
  BY ChannelTypes, CompanionsCarry
<1>5. Sent = a \o b \o c \o d \o e
  BY DEF Sent
<1> HIDE DEF a, b, c, d, e
<1>6. /\ a \o b \in Seq(Ids) /\ a \o b \o c \in Seq(Ids)
      /\ a \o b \o c \o d \in Seq(Ids)
  BY <1>1, ConcatProperties
<1>7. \A s, t \in Seq(Ids) : ToSet(s \o t) = ToSet(s) \cup ToSet(t)
  BY ToSetConcat
<1>8. ToSet(Sent) = ToSet(a \o b \o c \o d) \cup ToSet(e)
  <2>1. ToSet((a \o b \o c \o d) \o e) =
          ToSet(a \o b \o c \o d) \cup ToSet(e)
    BY <1>1, <1>6, <1>7, Zenon
  <2>2. QED
    BY <1>5, <2>1, Zenon
<1>9. ToSet(a \o b \o c \o d) = ToSet(a \o b \o c) \cup ToSet(d)
  BY <1>1, <1>6, <1>7, Zenon
<1>10. ToSet(a \o b \o c) = ToSet(a) \cup ToSet(b) \cup ToSet(c)
  <2>1. /\ ToSet((a \o b) \o c) = ToSet(a \o b) \cup ToSet(c)
        /\ ToSet(a \o b) = ToSet(a) \cup ToSet(b)
    BY <1>1, <1>6, <1>7, Zenon
  <2>2. QED
    BY <2>1, Zenon
<1>11. QED
  BY <1>2, <1>3, <1>4, <1>8, <1>9, <1>10

\* The requests of one kind, when a channel grows or is served.
LEMMA OfEmpty ==
  ASSUME NEW kind
  PROVE  Of(<< >>, kind) = {}
BY ToSetEmpty DEF Of

\* A message more is among those of its kind only.
LEMMA OfAppend ==
  ASSUME NEW S, NEW ms \in Seq(S), NEW m \in S, NEW kind
  PROVE  /\ m.kind = kind => Of(Append(ms, m), kind) = Of(ms, kind) \cup {m}
         /\ m.kind # kind => Of(Append(ms, m), kind) = Of(ms, kind)
BY ToSetAppend DEF Of

\* Joined channels join the messages of a kind.
LEMMA OfConcat ==
  ASSUME NEW S, NEW ms \in Seq(S), NEW more \in Seq(S), NEW kind
  PROVE  Of(ms \o more, kind) = Of(ms, kind) \cup Of(more, kind)
BY ToSetConcat DEF Of

\* Serving a channel leaves no new message of a kind.
LEMMA OfTail ==
  ASSUME NEW S, NEW ms \in Seq(S), ms # << >>, NEW kind
  PROVE  /\ Of(Tail(ms), kind) \subseteq Of(ms, kind)
         /\ Head(ms).kind = kind => Head(ms) \in Of(ms, kind)
BY ToSetHeadTail DEF Of

\* The messages of a kind are of that kind.
LEMMA OfIsKind ==
  ASSUME NEW ms, NEW kind, NEW m \in Of(ms, kind)
  PROVE  m.kind = kind /\ m \in ToSet(ms)
BY DEF Of

-----------------------------------------------------------------------------
(* The client's side.                                                       *)

\* What #flushModels leaves: the requests on their way with the queued one, or
\* without it and its reservation.
LEMMA FlushFacts ==
  ASSUME IInv, NEW f \in BOOLEAN
  PROVE  /\ Flushed(f) \in Seq(Requests)
         /\ \A m \in ToSet(Flushed(f)) :
              /\ m.kind = "models" /\ m.companion = None
              /\ m.id \in Reads(f)
         /\ requests \o Flushed(f) \in Seq(Requests)
         /\ Held(f) \in Seq(Ids) /\ Len(Held(f)) <= Len(pending)
         /\ IsInjective(Held(f))
         /\ Held(f) = Sent \o WithCompanions(requests \o Flushed(f))
         /\ Reads(f) \subseteq Ids
         /\ \A m \in Of(requests, "models") \cup Of(deferred, "models")
                     \cup Of(answers, "models") \cup Of(mailbox, "models") :
              m.id \in Reads(f)
<1> DEFINE q == queued_models
           w == WithCompanions(requests)
<1>1. /\ TypeOK /\ TransitIsPending /\ DistinctIds /\ ReadsOK
      /\ q \in Ids \cup {None} /\ requests \in Seq(Requests)
      /\ model_reads \subseteq Ids /\ pending \in Seq(Ids)
  BY DEF IInv, TypeOK
<1>2. Sent \in Seq(Ids) /\ w \in Seq(Ids) /\ Sent \o w \in Seq(Ids)
  BY <1>1, SentType, PartTypes, ConcatProperties
<1>3. pending = (Sent \o w) \o Optional(q)
  BY <1>1, TransitIsSent
<1>4. \A m \in Of(requests, "models") \cup Of(deferred, "models")
               \cup Of(answers, "models") \cup Of(mailbox, "models") :
        m.id \in ToSet(Sent \o w) /\ m.id \in model_reads
  <2>1. ToSet(Sent \o w) = ToSet(Sent) \cup ToSet(w)
    BY <1>2, ToSetConcat
  <2>2. \A m \in ToSet(requests) : m.id \in ToSet(w)
    BY <1>1, CompanionsCarry
  <2>3. QED
    BY <1>1, <2>1, <2>2, SentCarries, OfIsKind DEF ReadsOK
<1>5. CASE q = None
  <2>1. Flushed(f) = << >> /\ << >> \in Seq(Requests)
    BY <1>5, EmptySeq DEF Flushed
  <2>2. requests \o Flushed(f) = requests
    BY <1>1, <2>1, ConcatEmptySeq
  <2>3. pending = Sent \o w
    BY <1>2, <1>3, <1>5, OptionalType, ConcatEmptySeq
  <2>4. q \notin Ids
    BY <1>5 DEF Ids, None
  <2>5. Held(f) = pending
    <3>1. q \notin ToSet(pending)
      BY <1>1, <2>4, ToSetMember
    <3>2. QED
      BY <3>1, WithoutAbsent DEF Held
  <2>6. Reads(f) = model_reads
    BY <1>1, <2>4 DEF Reads
  <2>7. Len(pending) <= Len(pending)
    BY <1>1, LenProperties
  <2>8. QED
    BY <1>1, <1>4, <2>1, <2>2, <2>3, <2>5, <2>6, <2>7, ToSetEmpty DEF DistinctIds
<1>6. CASE q # None
  <2> DEFINE r == [id |-> q, kind |-> "models", companion |-> None]
  <2>1. q \in Ids /\ r \in Requests /\ Piece(r) = << q >> /\ << q >> \in Seq(Ids)
    <3>1. q \in Ids /\ r \in Requests
      BY <1>1, <1>6 DEF Requests
    <3>2. QED
      BY <3>1, PieceType
  <2>2. pending = (Sent \o w) \o << q >>
    BY <1>3, <1>6 DEF Optional
  <2>3. IsInjective(Sent \o w) /\ q \notin ToSet(Sent \o w)
    <3>1. IsInjective((Sent \o w) \o << q >>)
      BY <1>1, <2>2 DEF DistinctIds
    <3>2. QED
      BY <1>2, <2>1, <3>1, InjectiveConcat, ToSetOne
  <2>4. q \in model_reads
    BY <1>1, <1>6 DEF ReadsOK
  <2>5. CASE f
    <3>1. Flushed(f) = << r >> /\ << r >> \in Seq(Requests)
      BY <1>6, <2>1, <2>5 DEF Flushed
    <3>2. requests \o << r >> = Append(requests, r)
      BY <1>1, <2>1, AppendIsConcat
    <3>3. WithCompanions(Append(requests, r)) = w \o << q >>
      BY <1>1, <2>1, CompanionsAppend
    <3>4. pending = Sent \o (w \o << q >>)
      BY <1>2, <2>1, <2>2, ConcatAssociative
    <3>5. Held(f) = pending /\ Reads(f) = model_reads
      BY <2>5 DEF Held, Reads
    <3>6. \A m \in ToSet(Flushed(f)) :
            m.kind = "models" /\ m.companion = None /\ m.id \in Reads(f)
      <4>1. \A m \in ToSet(Flushed(f)) : m = r
        BY <3>1, ToSetOne
      <4>2. r.kind = "models" /\ r.companion = None /\ r.id \in Reads(f)
        BY <2>4, <3>5
      <4> HIDE DEF r
      <4>3. QED
        BY <4>1, <4>2
    <3>7. requests \o Flushed(f) \in Seq(Requests)
      BY <1>1, <3>1, ConcatProperties
    <3>8. Len(pending) <= Len(pending)
      BY <1>1, LenProperties
    <3>9. Held(f) = Sent \o WithCompanions(requests \o Flushed(f))
      BY <3>1, <3>2, <3>3, <3>4, <3>5
    <3> HIDE DEF r
    <3>10. QED
      BY <1>1, <1>4, <3>1, <3>5, <3>6, <3>7, <3>8, <3>9 DEF DistinctIds
  <2>6. CASE ~f
    <3>1. Flushed(f) = << >> /\ << >> \in Seq(Requests)
      BY <2>6, EmptySeq DEF Flushed
    <3>2. requests \o Flushed(f) = requests
      BY <1>1, <3>1, ConcatEmptySeq
    <3>3. IsInjective((Sent \o w) \o << q >>)
      BY <1>1, <2>2 DEF DistinctIds
    <3>4. Held(f) = Sent \o w
      BY <1>2, <2>1, <2>2, <2>6, <3>3, WithoutLast DEF Held
    <3>5. Reads(f) = model_reads \ {q}
      BY <2>6 DEF Reads
    <3>6. Len(Sent \o w) <= Len(pending)
      <4>1. Len(pending) = Len(Sent \o w) + Len(<< q >>)
        BY <1>2, <2>1, <2>2, ConcatProperties
      <4>2. Len(<< q >>) = 1 /\ Len(Sent \o w) \in Nat
        BY <1>2, LenProperties
      <4>3. QED
        BY <4>1, <4>2
    <3>7. QED
      BY <1>1, <1>2, <1>4, <2>3, <3>1, <3>2, <3>4, <3>5, <3>6, ToSetEmpty
  <2>7. QED
    BY <2>5, <2>6
<1>7. QED
  BY <1>5, <1>6

\* A client step that puts some requests on their way.
Submits(new) ==
  /\ new \in Seq(Requests) /\ requests' = requests \o new
  /\ pending' = Sent \o WithCompanions(requests \o new) \o Optional(queued_models')
  /\ pending' \in Seq(Ids) /\ Len(pending') <= MaxPending /\ IsInjective(pending')
  /\ next_id' \in Ids /\ model_reads' \subseteq Ids
  /\ queued_models' \in Ids \cup {None}
  /\ queued_models' # None => queued_models' \in model_reads'
  /\ \A m \in Of(requests, "models") \cup Of(deferred, "models")
              \cup Of(answers, "models") \cup Of(mailbox, "models") :
       m.id \in model_reads'
  /\ \A m \in ToSet(new) :
       IF m.kind = "models" THEN m.id \in model_reads' ELSE m.companion = None
  /\ \A i, j \in DOMAIN new :
       new[i].kind # "models" /\ new[j].kind # "models" => i = j

\* The rest of the client after it.
Remembers(new) ==
  /\ UNCHANGED << closed, anomaly, decoding, reader_open, plain, mailbox,
                  workerVars, ownership >>
  /\ initialize_id' \in Ids \cup {None} /\ shutdown_id' \in Ids \cup {None}
  /\ shutdown_requested' \in BOOLEAN
  /\ initialize_id' = None => initialize_id = None /\ Of(new, "initialize") = {}
  /\ Of(new, "initialize") # {} => initialize_id = None
  /\ shutdown_requested' => queued_models' = None
  /\ shutdown_id' # None =>
       shutdown_requested' /\ model_reads' = {} /\ decoding = NotDecoding
  /\ Of(new, "shutdown") # {} \/ shutdown_id # None => shutdown_id' # None

\* A reserved id is put behind the others.
LEMMA ReserveFacts ==
  ASSUME IInv, NEW f \in BOOLEAN, MayReserve(Held(f)),
         NEW id, id = FreeId(Held(f))
  PROVE  /\ id \in Ids /\ After(id) \in Ids
         /\ Append(Held(f), id) \in Seq(Ids)
         /\ Len(Append(Held(f), id)) <= MaxPending
         /\ IsInjective(Append(Held(f), id))
         /\ Append(Held(f), id) =
              Sent \o WithCompanions(requests \o Flushed(f)) \o << id >>
<1>1. Held(f) \in Seq(Ids) /\ IsInjective(Held(f))
  BY FlushFacts
<1>2. Len(Held(f)) < MaxPending
  BY DEF MayReserve
<1>3. id \in Ids /\ id \notin ToSet(Held(f))
  BY <1>1, <1>2, FreeIdIsFree
<1>4. After(id) \in Ids
  BY <1>3, BoundAssumption DEF After, Ids
<1>5. /\ Append(Held(f), id) \in Seq(Ids)
      /\ Len(Append(Held(f), id)) = Len(Held(f)) + 1
      /\ Append(Held(f), id) = Held(f) \o << id >>
  BY <1>1, <1>3, AppendProperties, AppendIsConcat
<1>6. Len(Append(Held(f), id)) <= MaxPending
  BY <1>1, <1>2, <1>5, LenProperties, BoundAssumption
<1>7. IsInjective(Append(Held(f), id))
  BY <1>1, <1>3, InjectiveAppend
<1>8. QED
  BY <1>3, <1>4, <1>5, <1>6, <1>7, FlushFacts

\* A flush, and perhaps one request behind it.
LEMMA SendSubmits ==
  ASSUME IInv, NEW kind \in {"initialize", "request", "shutdown"},
         NEW f \in BOOLEAN, NEW sent \in BOOLEAN, SendRequest(kind, f, sent)
  PROVE  \E new : /\ Submits(new) /\ queued_models' = None
                  /\ \A m \in ToSet(new) : m.kind \in {"models", kind}
                  /\ model_reads' = Reads(f)
<1> DEFINE F == Flushed(f)
           H == Held(f)
<1>1. /\ TypeOK /\ requests \in Seq(Requests) /\ Sent \in Seq(Ids)
      /\ next_id \in Ids /\ Len(pending) <= MaxPending /\ pending \in Seq(Ids)
  BY SentType DEF IInv, TypeOK
<1>2. /\ F \in Seq(Requests) /\ requests \o F \in Seq(Requests)
      /\ H \in Seq(Ids) /\ Len(H) <= Len(pending) /\ IsInjective(H)
      /\ H = Sent \o WithCompanions(requests \o F)
      /\ Reads(f) \subseteq Ids
      /\ \A m \in ToSet(F) :
           m.kind = "models" /\ m.companion = None /\ m.id \in Reads(f)
      /\ \A m \in Of(requests, "models") \cup Of(deferred, "models")
                  \cup Of(answers, "models") \cup Of(mailbox, "models") :
           m.id \in Reads(f)
  BY FlushFacts
<1>3. Len(H) <= MaxPending
  BY <1>1, <1>2, LenProperties, BoundAssumption
<1>4. \A i \in DOMAIN F : F[i].kind = "models"
  BY <1>2 DEF ToSet
<1>5. queued_models' = None /\ model_reads' = Reads(f)
  BY DEF SendRequest
<1>6. Optional(None) = << >>
  BY DEF Optional
<1>7. CASE MayReserve(H) /\ sent
  <2> DEFINE id == FreeId(H)
             r == [id |-> id, kind |-> kind, companion |-> None]
             new == F \o << r >>
  <2>1. /\ id \in Ids /\ After(id) \in Ids
        /\ Append(H, id) \in Seq(Ids) /\ Len(Append(H, id)) <= MaxPending
        /\ IsInjective(Append(H, id))
        /\ Append(H, id) = (Sent \o WithCompanions(requests \o F)) \o << id >>
    BY <1>7, ReserveFacts
  <2>2. /\ next_id' = After(id) /\ pending' = Append(H, id)
        /\ requests' = (requests \o F) \o << r >>
    BY <1>7 DEF SendRequest
  <2>3. /\ r \in Requests /\ << r >> \in Seq(Requests) /\ Piece(r) = << id >>
        /\ << id >> \in Seq(Ids) /\ r.kind = kind /\ r.companion = None
    <3>1. r \in Requests
      BY <2>1 DEF Requests
    <3>2. QED
      BY <2>1, <3>1, PieceType
  <2> HIDE DEF id, r, F, H
  <2>4. new \in Seq(Requests) /\ requests' = requests \o new
    <3>1. F \in Seq(Requests) /\ << r >> \in Seq(Requests)
      BY <1>2, <2>3
    <3>2. F \o << r >> \in Seq(Requests)
      BY <3>1, ConcatProperties
    <3>3. (requests \o F) \o << r >> = requests \o (F \o << r >>)
      BY <1>1, <3>1, ConcatAssociative, Z3
    <3>4. QED
      BY <2>2, <3>2, <3>3
  <2>5. WithCompanions(requests \o new) =
          WithCompanions(requests \o F) \o << id >>
    <3>1. requests \o new = Append(requests \o F, r)
      <4>1. Append(requests \o F, r) = (requests \o F) \o << r >>
        BY <1>2, <2>3, AppendIsConcat
      <4>2. QED
        BY <2>2, <2>4, <4>1
    <3>2. QED
      BY <1>2, <2>3, <3>1, CompanionsAppend
  <2>6. pending' = Sent \o WithCompanions(requests \o new)
    <3>1. WithCompanions(requests \o F) \in Seq(Ids)
      BY <1>2, <2>3, CompanionsAppend
    <3> DEFINE w == WithCompanions(requests \o F)
    <3>2. w \in Seq(Ids) /\ << id >> \in Seq(Ids) /\ Sent \in Seq(Ids)
      BY <1>1, <2>3, <3>1
    <3>3. pending' = (Sent \o w) \o << id >>
      BY <2>1, <2>2
    <3>4. WithCompanions(requests \o new) = w \o << id >>
      BY <2>5
    <3> HIDE DEF w, new
    <3>5. (Sent \o w) \o << id >> = Sent \o (w \o << id >>)
      BY <3>2, ConcatAssociative
    <3>6. QED
      BY <3>3, <3>4, <3>5
  <2>7. pending' = Sent \o WithCompanions(requests \o new) \o Optional(queued_models')
    <3>1. Sent \o WithCompanions(requests \o new) \in Seq(Ids)
      BY <2>1, <2>2, <2>6
    <3>2. QED
      BY <1>5, <1>6, <2>6, <3>1, ConcatEmptySeq
  <2>8. ToSet(new) = ToSet(F) \cup {r}
    <3>1. ToSet(F \o << r >>) = ToSet(F) \cup ToSet(<< r >>)
      <4>1. F \in Seq(Requests) /\ << r >> \in Seq(Requests)
        BY <1>2, <2>3
      <4>2. QED
        BY <4>1, ToSetConcat, ZenonT(30)
    <3>2. QED
      BY <3>1, ToSetOne
  <2>9. \A m \in ToSet(new) :
          IF m.kind = "models" THEN m.id \in model_reads' ELSE m.companion = None
    BY <1>2, <1>5, <2>3, <2>8
  <2>10. \A i, j \in DOMAIN new :
           new[i].kind # "models" /\ new[j].kind # "models" => i = j
    <3>1. PICK n \in Nat : n = Len(F)
      BY <1>2, LenProperties
    <3>2. Len(<< r >>) = 1
      OBVIOUS
    <3>3. /\ Len(new) = n + 1
          /\ \A i \in 1..(n + 1) : new[i] = IF i <= n THEN F[i] ELSE << r >>[i - n]
      BY <1>2, <2>3, <3>1, <3>2, ConcatProperties
    <3>4. DOMAIN new = 1..(n + 1) /\ DOMAIN F = 1..n
      BY <1>2, <2>4, <3>1, <3>3, LenProperties
    <3> HIDE DEF new
    <3>5. \A i \in DOMAIN new : new[i].kind # "models" => i = n + 1
      BY <1>4, <3>3, <3>4
    <3>6. QED
      BY <3>5
  <2>11. Submits(new)
    <3> HIDE DEF new
    <3>1. QED
      BY <1>2, <1>5, <2>1, <2>2, <2>4, <2>7, <2>9, <2>10 DEF Submits, None
  <2>12. \A m \in ToSet(new) : m.kind \in {"models", kind}
    BY <1>2, <2>3, <2>8
  <2> HIDE DEF new
  <2>13. QED
    BY <1>5, <2>11, <2>12
<1>8. CASE ~(MayReserve(H) /\ sent)
  <2>1. pending' = H /\ requests' = requests \o F /\ next_id' \in Ids
    <3>1. CASE ~MayReserve(H)
      BY <1>1, <3>1 DEF SendRequest
    <3>2. CASE MayReserve(H) /\ ~sent
      <4>1. pending' = H /\ requests' = (requests \o F) \o << >>
            /\ next_id' = After(FreeId(H))
        BY <3>2 DEF SendRequest
      <4>2. (requests \o F) \o << >> = requests \o F
        BY <1>2, ConcatEmptySeq
      <4>3. After(FreeId(H)) \in Ids
        BY <3>2, ReserveFacts
      <4>4. QED
        BY <4>1, <4>2, <4>3
    <3>3. QED
      BY <1>8, <3>1, <3>2
  <2>2. pending' = Sent \o WithCompanions(requests \o F) \o Optional(queued_models')
    BY <1>2, <1>5, <1>6, <2>1, ConcatEmptySeq
  <2> HIDE DEF F, H
  <2>3. Submits(F)
    BY <1>2, <1>3, <1>4, <1>5, <2>1, <2>2 DEF Submits, None
  <2>4. QED
    BY <1>2, <1>5, <2>3
<1>9. QED
  BY <1>7, <1>8

\* The same without a request.
LEMMA FlushSubmits ==
  ASSUME IInv, Flush, next_id' = next_id
  PROVE  \E new : /\ Submits(new) /\ queued_models' = None
                  /\ \A m \in ToSet(new) : m.kind = "models"
<1>1. PICK f \in BOOLEAN :
        requests' = requests \o Flushed(f) /\ pending' = Held(f)
        /\ model_reads' = Reads(f)
  BY DEF Flush
<1> DEFINE F == Flushed(f)
           H == Held(f)
<1>2. /\ next_id \in Ids /\ Len(pending) <= MaxPending /\ pending \in Seq(Ids)
  BY DEF IInv, TypeOK
<1>3. /\ F \in Seq(Requests) /\ requests \o F \in Seq(Requests)
      /\ H \in Seq(Ids) /\ Len(H) <= Len(pending) /\ IsInjective(H)
      /\ H = Sent \o WithCompanions(requests \o F)
      /\ Reads(f) \subseteq Ids
      /\ \A m \in ToSet(F) :
           m.kind = "models" /\ m.companion = None /\ m.id \in Reads(f)
      /\ \A m \in Of(requests, "models") \cup Of(deferred, "models")
                  \cup Of(answers, "models") \cup Of(mailbox, "models") :
           m.id \in Reads(f)
  BY FlushFacts
<1>4. Len(H) <= MaxPending
  BY <1>2, <1>3, LenProperties, BoundAssumption
<1>5. \A i \in DOMAIN F : F[i].kind = "models"
  BY <1>3 DEF ToSet
<1>6. queued_models' = None /\ Optional(None) = << >>
  BY DEF Flush, Optional
<1>7. pending' = Sent \o WithCompanions(requests \o F) \o Optional(queued_models')
  BY <1>1, <1>3, <1>6, ConcatEmptySeq
<1>8. requests' = requests \o F /\ pending' = H /\ model_reads' = Reads(f)
  BY <1>1
<1> HIDE DEF F, H
<1>9. Submits(F)
  BY <1>2, <1>3, <1>4, <1>5, <1>6, <1>7, <1>8 DEF Submits, None
<1>10. QED
  BY <1>3, <1>6, <1>9

\* Such a step keeps the invariant.
LEMMA SubmitsKeep ==
  ASSUME IInv, NEW new, Submits(new), Remembers(new)
  PROVE  IInv'
<1>1. /\ TypeOK /\ InitializeOK /\ ChannelsOK /\ CompanionsOK /\ ReadsOK
      /\ LeasesOK /\ RepliesRecognised
      /\ requests \in Seq(Requests) /\ new \in Seq(Requests)
  BY DEF IInv, TypeOK, Submits
<1>2. /\ requests' = requests \o new /\ requests \o new \in Seq(Requests)
      /\ \A kind : Of(requests', kind) = Of(requests, kind) \cup Of(new, kind)
      /\ ToSet(requests') = ToSet(requests) \cup ToSet(new)
  <2>1. requests' = requests \o new
    BY DEF Submits
  <2>2. requests \o new \in Seq(Requests)
    BY <1>1, ConcatProperties
  <2>3. \A kind : Of(requests \o new, kind) = Of(requests, kind) \cup Of(new, kind)
    BY <1>1, OfConcat
  <2>4. ToSet(requests \o new) = ToSet(requests) \cup ToSet(new)
    BY <1>1, ToSetConcat
  <2>5. QED
    BY <2>1, <2>2, <2>3, <2>4
<1>3. /\ UNCHANGED << closed, anomaly, decoding, reader_open, plain, mailbox >>
      /\ UNCHANGED << initializing, deferred, replies_on, answers, leases,
                      ownership >>
  BY DEF Remembers, workerVars
<1>4. TypeOK'
  BY <1>1, <1>2, <1>3 DEF TypeOK, Submits, Remembers
<1>5. TransitIsPending'
  <2>1. pending' = Sent \o WithCompanions(requests') \o Optional(queued_models')
    BY <1>2 DEF Submits
  <2>2. QED
    BY <1>3, <2>1 DEF TransitIsPending, Sent
<1>6. RepliesRecognised' /\ DistinctIds'
  BY <1>1, <1>3 DEF RepliesRecognised, DistinctIds, Submits
<1>7. InitializeOK'
  <2> DEFINE I == "initialize"
  <2>1. initialize_id' = None =>
          initializing' = None /\ ~replies_on' /\ Of(requests', I) = {}
    BY <1>1, <1>2, <1>3 DEF InitializeOK, Remembers
  <2>2. Of(requests', I) # {} => initializing' = None /\ ~replies_on'
    BY <1>1, <1>2, <1>3 DEF InitializeOK, Remembers
  <2>3. ASSUME NEW i \in DOMAIN requests', NEW j \in DOMAIN requests',
               requests'[i].kind = I, requests'[j].kind = I
        PROVE  i = j
    <3>1. PICK n \in Nat, k \in Nat : n = Len(requests) /\ k = Len(new)
      BY <1>1, LenProperties
    <3>2. /\ Len(requests') = n + k
          /\ \A a \in 1..(n + k) : requests'[a] =
               IF a <= n THEN requests[a] ELSE new[a - n]
      BY <1>1, <1>2, <3>1, ConcatProperties
    <3>3. /\ DOMAIN requests' = 1..(n + k) /\ DOMAIN requests = 1..n
          /\ DOMAIN new = 1..k
      BY <1>1, <1>2, <3>1, <3>2, LenProperties
    <3>4. \A a \in 1..n : requests[a].kind = I => Of(requests, I) # {}
      BY <3>3 DEF Of, ToSet
    <3>5. \A a \in 1..k : new[a].kind = I => Of(new, I) # {}
      BY <3>3 DEF Of, ToSet
    <3>6. Of(new, I) # {} => Of(requests, I) = {}
      BY <1>1 DEF InitializeOK, Remembers
    <3>7. CASE i <= n /\ j <= n
      BY <1>1, <2>3, <3>2, <3>3, <3>7 DEF InitializeOK
    <3>8. CASE ~(i <= n) /\ ~(j <= n)
      <4>1. i - n \in 1..k /\ j - n \in 1..k
        BY <2>3, <3>3, <3>8
      <4>2. new[i - n].kind = I /\ new[j - n].kind = I
        BY <2>3, <3>2, <3>3, <3>8
      <4>3. i - n = j - n
        BY <3>3, <4>1, <4>2 DEF Submits
      <4>4. QED
        BY <3>3, <4>3
    <3>9. CASE i <= n /\ ~(j <= n)
      <4>1. i \in 1..n /\ j - n \in 1..k
        BY <2>3, <3>3, <3>9
      <4>2. requests[i].kind = I /\ new[j - n].kind = I
        BY <2>3, <3>2, <3>3, <3>9
      <4>3. QED
        BY <3>4, <3>5, <3>6, <4>1, <4>2
    <3>10. CASE ~(i <= n) /\ j <= n
      <4>1. j \in 1..n /\ i - n \in 1..k
        BY <2>3, <3>3, <3>10
      <4>2. requests[j].kind = I /\ new[i - n].kind = I
        BY <2>3, <3>2, <3>3, <3>10
      <4>3. QED
        BY <3>4, <3>5, <3>6, <4>1, <4>2
    <3>11. QED
      BY <3>7, <3>8, <3>9, <3>10
  <2>4. Of(deferred', I) = {} /\ (replies_on' => initializing' = None)
    BY <1>1, <1>3 DEF InitializeOK
  <2>5. QED
    BY <2>1, <2>2, <2>3, <2>4 DEF InitializeOK
<1>8. ChannelsOK'
  BY <1>1, <1>3 DEF ChannelsOK, Of
<1>9. CompanionsOK'
  BY <1>1, <1>2, <1>3 DEF CompanionsOK, Submits
<1>10. ReadsOK'
  <2>1. \A m \in Of(new, "models") : m.id \in model_reads'
    BY OfIsKind DEF Submits
  <2>2. /\ Of(deferred', "models") = Of(deferred, "models")
        /\ Of(answers', "models") = Of(answers, "models")
        /\ Of(mailbox', "models") = Of(mailbox, "models")
        /\ Of(deferred', "shutdown") = Of(deferred, "shutdown")
        /\ Of(answers', "shutdown") = Of(answers, "shutdown")
        /\ leases' = leases /\ decoding' = decoding
    BY <1>3
  <2>3. \A m \in Of(requests', "models") \cup Of(deferred', "models")
              \cup Of(answers', "models") \cup Of(mailbox', "models") :
          m.id \in model_reads'
    BY <1>2, <2>1, <2>2 DEF Submits
  <2>4. Of(requests', "shutdown") \cup Of(deferred', "shutdown")
        \cup Of(answers', "shutdown") # {} => shutdown_id' # None
    BY <1>1, <1>2, <2>2 DEF ReadsOK, Remembers
  <2>5. Of(answers', "shutdown") # {} => leases' = {}
    BY <1>1, <2>2 DEF ReadsOK
  <2>6. /\ queued_models' # None => queued_models' \in model_reads'
        /\ shutdown_requested' => queued_models' = None
        /\ shutdown_id' # None => shutdown_requested' /\ model_reads' = {}
                                  /\ decoding' = NotDecoding
    BY <2>2 DEF Submits, Remembers
  <2>7. QED
    BY <2>3, <2>4, <2>5, <2>6 DEF ReadsOK
<1>11. LeasesOK'
  BY <1>1, <1>3 DEF LeasesOK, Of
<1>12. QED
  BY <1>4, <1>5, <1>6, <1>7, <1>8, <1>9, <1>10, <1>11 DEF IInv

\* A closed connection has nothing left.
LEMMA CloseKeeps ==
  ASSUME IInv, CloseWith(anomaly)
  PROVE  IInv'
<1>1. anomaly' = "none"
  BY DEF IInv, RepliesRecognised, CloseWith
<1>2. /\ pending' = << >> /\ requests' = << >> /\ plain' = << >>
      /\ mailbox' = << >> /\ deferred' = << >> /\ answers' = << >>
      /\ initializing' = None /\ queued_models' = None
      /\ initialize_id' = None /\ shutdown_id' = None
      /\ shutdown_requested' = FALSE /\ reader_open' = FALSE
      /\ replies_on' = FALSE /\ model_reads' = {} /\ decoding' = NotDecoding
      /\ leases' = {} /\ ownership' = [s \in LeaseSlots |-> None]
      /\ closed' = TRUE /\ next_id' = 1
  BY DEF CloseWith
<1>3. TypeOK'
  <2>1. /\ \A S : << >> \in Seq(S)
        /\ Len(<< >>) = 0 /\ 0 <= MaxPending /\ 1 \in Ids
    BY EmptySeq, BoundAssumption DEF Ids
  <2>2. ownership' \in [LeaseSlots -> Ids \cup {None}]
    BY <1>2
  <2>3. {initialize_id', shutdown_id', initializing', queued_models'}
          \subseteq Ids \cup {None}
    BY <1>2
  <2>4. QED
    BY <1>1, <1>2, <2>1, <2>2, <2>3 DEF TypeOK
<1>4. TransitIsPending'
  <2>1. /\ IdsOf(<< >>) = << >> /\ WithCompanions(<< >>) = << >>
        /\ Optional(None) = << >> /\ << >> \o << >> = << >>
    BY IdsOfEmpty, CompanionsEmpty, ConcatEmptySeq, EmptySeq DEF Optional
  <2>2. QED
    BY <1>2, <2>1 DEF TransitIsPending
<1>5. \A kind : Of(<< >>, kind) = {}
  BY OfEmpty
<1>6. DistinctIds' /\ RepliesRecognised'
  BY <1>1, <1>2 DEF DistinctIds, RepliesRecognised, IsInjective
<1>7. InitializeOK'
  BY <1>2, <1>5 DEF InitializeOK
<1>8. ChannelsOK'
  BY <1>2, <1>5 DEF ChannelsOK
<1>9. CompanionsOK'
  BY <1>2, ToSetEmpty DEF CompanionsOK
<1>10. ReadsOK'
  BY <1>2, <1>5 DEF ReadsOK
<1>11. LeasesOK'
  BY <1>2, <1>5 DEF LeasesOK
<1>12. QED
  BY <1>3, <1>4, <1>6, <1>7, <1>8, <1>9, <1>10, <1>11 DEF IInv

\* Request keeps the invariant: a flush and a request like any other.
LEMMA RequestKeeps ==
  ASSUME IInv, Request
  PROVE  IInv'
<1>1. PICK f \in BOOLEAN, sent \in BOOLEAN : SendRequest("request", f, sent)
  BY DEF Request
<1>2. PICK new : /\ Submits(new) /\ queued_models' = None
                 /\ \A m \in ToSet(new) : m.kind \in {"models", "request"}
  BY <1>1, SendSubmits
<1>3. Of(new, "initialize") = {} /\ Of(new, "shutdown") = {}
  BY <1>2 DEF Of
<1>4. TypeOK /\ ReadsOK /\ ~shutdown_requested
  BY DEF IInv, Request
<1>5. /\ UNCHANGED << closed, anomaly, decoding, reader_open, plain, mailbox,
                      workerVars, ownership >>
      /\ UNCHANGED << initialize_id, shutdown_id, shutdown_requested >>
  BY DEF Request
<1>6. Remembers(new)
  BY <1>2, <1>3, <1>4, <1>5 DEF Remembers, TypeOK, ReadsOK
<1>7. QED
  BY <1>2, <1>6, SubmitsKeep

\* Initialize keeps the invariant: the only request of its kind.
LEMMA InitializeKeeps ==
  ASSUME IInv, Initialize
  PROVE  IInv'
<1>1. CASE CloseWith(anomaly)
  BY <1>1, CloseKeeps
<1>2. ASSUME NEW f \in BOOLEAN,
             MayReserve(Held(f)), initialize_id' = FreeId(Held(f)),
             SendRequest("initialize", f, TRUE),
             UNCHANGED << closed, anomaly, shutdown_id, shutdown_requested,
                          decoding, reader_open, plain, mailbox, workerVars,
                          ownership >>
      PROVE  IInv'
  <2>1. PICK new : /\ Submits(new) /\ queued_models' = None
                   /\ \A m \in ToSet(new) : m.kind \in {"models", "initialize"}
    BY <1>2, SendSubmits
  <2>2. Of(new, "shutdown") = {}
    BY <2>1 DEF Of
  <2>3. TypeOK /\ ReadsOK /\ ~shutdown_requested /\ initialize_id = None
    BY DEF IInv, Initialize
  <2>4. initialize_id' \in Ids /\ initialize_id' # None
    <3>1. initialize_id' \in Ids
      BY <1>2, ReserveFacts
    <3>2. QED
      BY <3>1 DEF Ids, None
  <2>5. Remembers(new)
    BY <1>2, <2>1, <2>2, <2>3, <2>4 DEF Remembers, TypeOK, ReadsOK
  <2>6. QED
    BY <2>1, <2>5, SubmitsKeep
<1>3. QED
  BY <1>1, <1>2 DEF Initialize

\* FlushMicrotask keeps the invariant: the queued models go out or back.
LEMMA FlushMicrotaskKeeps ==
  ASSUME IInv, FlushMicrotask
  PROVE  IInv'
<1>1. Flush /\ next_id' = next_id
  BY DEF FlushMicrotask
<1>2. PICK new : /\ Submits(new) /\ queued_models' = None
                 /\ \A m \in ToSet(new) : m.kind = "models"
  BY <1>1, FlushSubmits
<1>3. Of(new, "initialize") = {} /\ Of(new, "shutdown") = {}
  BY <1>2 DEF Of
<1>4. TypeOK /\ ReadsOK /\ queued_models # None
  BY DEF IInv, FlushMicrotask
<1>5. /\ UNCHANGED << closed, anomaly, decoding, reader_open, plain, mailbox,
                      workerVars, ownership >>
      /\ UNCHANGED << initialize_id, shutdown_id, shutdown_requested >>
  BY DEF FlushMicrotask
<1>6. Remembers(new)
  BY <1>2, <1>3, <1>4, <1>5 DEF Remembers, TypeOK, ReadsOK
<1>7. QED
  BY <1>2, <1>6, SubmitsKeep

\* RequestShutdown keeps the invariant: nothing is queued after it.
LEMMA RequestShutdownKeeps ==
  ASSUME IInv, RequestShutdown
  PROVE  IInv'
<1>1. Flush /\ next_id' = next_id
  BY DEF RequestShutdown
<1>2. PICK new : /\ Submits(new) /\ queued_models' = None
                 /\ \A m \in ToSet(new) : m.kind = "models"
  BY <1>1, FlushSubmits
<1>3. Of(new, "initialize") = {} /\ Of(new, "shutdown") = {}
  BY <1>2 DEF Of
<1>4. TypeOK /\ ReadsOK /\ ~shutdown_requested
  BY DEF IInv, RequestShutdown
<1>5. /\ UNCHANGED << closed, anomaly, decoding, reader_open, plain, mailbox,
                      workerVars, ownership >>
      /\ UNCHANGED << initialize_id, shutdown_id >>
      /\ shutdown_requested' = TRUE
  BY DEF RequestShutdown
<1>6. Remembers(new)
  BY <1>2, <1>3, <1>4, <1>5 DEF Remembers, TypeOK, ReadsOK
<1>7. QED
  BY <1>2, <1>6, SubmitsKeep

\* Shutdown is sent when every decoder has ended.
LEMMA SendShutdownKeeps ==
  ASSUME IInv, SendShutdown
  PROVE  IInv'
<1>1. CASE CloseWith(anomaly)
  BY <1>1, CloseKeeps
<1>2. CASE /\ MayReserve(pending)
           /\ shutdown_id' = FreeId(pending)
           /\ SendRequest("shutdown", TRUE, TRUE)
           /\ UNCHANGED << closed, anomaly, initialize_id, shutdown_requested,
                           decoding, reader_open, plain, mailbox, workerVars,
                           ownership >>
  <2>1. PICK new : /\ Submits(new) /\ queued_models' = None
                   /\ \A m \in ToSet(new) : m.kind \in {"models", "shutdown"}
                   /\ model_reads' = Reads(TRUE)
    BY <1>2, SendSubmits
  <2>2. Of(new, "initialize") = {}
    BY <2>1 DEF Of
  <2>3. /\ TypeOK /\ ReadsOK /\ shutdown_requested
        /\ model_reads = {} /\ decoding = NotDecoding
    BY DEF IInv, SendShutdown, ReadsSettled
  <2>4. model_reads' = {}
    BY <2>1, <2>3 DEF Reads
  <2>5. shutdown_id' \in Ids /\ shutdown_id' # None
    <3>1. Held(TRUE) = pending
      BY DEF Held
    <3>2. shutdown_id' \in Ids
      BY <1>2, <3>1, ReserveFacts
    <3>3. QED
      BY <3>2 DEF Ids, None
  <2>6. Remembers(new)
    BY <1>2, <2>1, <2>2, <2>3, <2>4, <2>5 DEF Remembers, TypeOK, ReadsOK
  <2>7. QED
    BY <2>1, <2>6, SubmitsKeep
<1>3. QED
  BY <1>1, <1>2 DEF SendShutdown

\* A model request is queued behind what is flushed.
LEMMA ModelsKeep ==
  ASSUME IInv, Models
  PROVE  IInv'
<1>1. PICK f \in BOOLEAN :
       /\ requests' = requests \o Flushed(f)
       /\ IF MayReserve(Held(f))
          THEN LET id == FreeId(Held(f))
               IN  /\ pending' = Append(Held(f), id)
                   /\ next_id' = After(id)
                   /\ queued_models' = id
                   /\ model_reads' = Reads(f) \cup {id}
          ELSE /\ queued_models' = None
               /\ pending' = Held(f) /\ model_reads' = Reads(f)
               /\ UNCHANGED next_id
  BY DEF Models
<1> DEFINE F == Flushed(f)
           H == Held(f)
<1>2. /\ TypeOK /\ ReadsOK /\ ~shutdown_requested
      /\ next_id \in Ids /\ Len(pending) <= MaxPending /\ pending \in Seq(Ids)
  BY DEF IInv, TypeOK, Models
<1>3. /\ F \in Seq(Requests) /\ requests \o F \in Seq(Requests)
      /\ H \in Seq(Ids) /\ Len(H) <= Len(pending) /\ IsInjective(H)
      /\ H = Sent \o WithCompanions(requests \o F)
      /\ Reads(f) \subseteq Ids
      /\ \A m \in ToSet(F) :
           m.kind = "models" /\ m.companion = None /\ m.id \in Reads(f)
      /\ \A m \in Of(requests, "models") \cup Of(deferred, "models")
                  \cup Of(answers, "models") \cup Of(mailbox, "models") :
           m.id \in Reads(f)
  BY FlushFacts
<1>4. Len(H) <= MaxPending
  BY <1>2, <1>3, LenProperties, BoundAssumption
<1>5. \A i \in DOMAIN F : F[i].kind = "models"
  BY <1>3 DEF ToSet
<1>6. requests' = requests \o F
  BY <1>1
<1>7. ASSUME MayReserve(H) PROVE Submits(F)
  <2> DEFINE id == FreeId(H)
  <2>1. /\ id \in Ids /\ After(id) \in Ids
        /\ Append(H, id) \in Seq(Ids) /\ Len(Append(H, id)) <= MaxPending
        /\ IsInjective(Append(H, id))
        /\ Append(H, id) = (Sent \o WithCompanions(requests \o F)) \o << id >>
    BY <1>7, ReserveFacts
  <2>2. /\ next_id' = After(id) /\ pending' = Append(H, id)
        /\ queued_models' = id /\ model_reads' = Reads(f) \cup {id}
    BY <1>1, <1>7
  <2>3. id # None /\ Optional(id) = << id >>
    BY <2>1 DEF Optional, Ids, None
  <2> HIDE DEF id, F, H
  <2>4. Submits(F)
    BY <1>3, <1>5, <1>6, <2>1, <2>2, <2>3 DEF Submits
  <2>5. QED
    BY <2>4 DEF F
<1>8. ASSUME ~MayReserve(H) PROVE Submits(F)
  <2>1. /\ next_id' = next_id /\ pending' = H
        /\ queued_models' = None /\ model_reads' = Reads(f)
    BY <1>1, <1>8
  <2>2. pending' = Sent \o WithCompanions(requests \o F) \o Optional(queued_models')
    BY <1>3, <2>1, ConcatEmptySeq DEF Optional
  <2> HIDE DEF F, H
  <2>3. Submits(F)
    BY <1>2, <1>3, <1>4, <1>5, <1>6, <2>1, <2>2 DEF Submits
  <2>4. QED
    BY <2>3 DEF F
<1>9. Submits(F)
  BY <1>7, <1>8
<1>10. Of(F, "initialize") = {} /\ Of(F, "shutdown") = {}
  BY <1>3 DEF Of
<1>11. /\ UNCHANGED << closed, anomaly, decoding, reader_open, plain, mailbox,
                       workerVars, ownership >>
       /\ UNCHANGED << initialize_id, shutdown_id, shutdown_requested >>
  BY DEF Models
<1> HIDE DEF F, H
<1>12. Remembers(F)
  BY <1>2, <1>10, <1>11 DEF Remembers, TypeOK, ReadsOK
<1>13. QED
  BY <1>9, <1>12, SubmitsKeep

\* The queued request goes out with its companion, or both are taken back.
LEMMA CompanionKeeps ==
  ASSUME IInv, Companion
  PROVE  IInv'
<1> DEFINE q == queued_models
           id == FreeId(pending)
           w == WithCompanions(requests)
<1>1. /\ TypeOK /\ ReadsOK /\ TransitIsPending /\ ~shutdown_requested
      /\ q \in Ids /\ pending \in Seq(Ids) /\ Len(pending) <= MaxPending
      /\ requests \in Seq(Requests)
  BY DEF IInv, TypeOK, Companion
<1>2. /\ id \in Ids /\ After(id) \in Ids
      /\ Append(pending, id) \in Seq(Ids)
      /\ Len(Append(pending, id)) <= MaxPending
      /\ IsInjective(Append(pending, id))
      /\ Append(pending, id) = pending \o << id >>
  <2>1. Held(TRUE) = pending /\ MayReserve(pending)
    BY DEF Held, Companion
  <2>2. id \in Ids
    BY <2>1, ReserveFacts
  <2>3. QED
    BY <1>1, <2>1, <2>2, ReserveFacts, AppendIsConcat
<1>3. /\ Sent \in Seq(Ids) /\ w \in Seq(Ids) /\ Sent \o w \in Seq(Ids)
      /\ pending = (Sent \o w) \o << q >>
      /\ q \in model_reads
  <2>1. Sent \in Seq(Ids) /\ w \in Seq(Ids)
    BY <1>1, SentType, PartTypes
  <2>2. q # None
    BY DEF Companion
  <2>3. QED
    BY <1>1, <2>1, <2>2, TransitIsSent, ConcatProperties DEF Optional, ReadsOK
<1>4. PICK sent \in BOOLEAN :
        /\ pending' = IF sent THEN Append(pending, id) ELSE Held(sent)
        /\ model_reads' = Reads(sent)
        /\ requests' = IF ~sent THEN requests
                       ELSE Append(requests, [id |-> q, kind |-> "models",
                                              companion |-> id])
  BY DEF Companion
<1>5. next_id' = After(id) /\ queued_models' = None /\ Optional(None) = << >>
  BY DEF Companion, Optional
<1>6. /\ UNCHANGED << closed, anomaly, decoding, reader_open, plain, mailbox,
                      workerVars, ownership >>
      /\ UNCHANGED << initialize_id, shutdown_id, shutdown_requested >>
  BY DEF Companion
<1>7. CASE sent
  <2> DEFINE r == [id |-> q, kind |-> "models", companion |-> id]
             new == << r >>
  <2>1. /\ r \in Requests /\ new \in Seq(Requests) /\ r.kind = "models"
        /\ r.id = q /\ Piece(r) = << q, id >>
    <3>1. r \in Requests /\ id # None
      BY <1>1, <1>2 DEF Requests, Ids, None
    <3>2. QED
      BY <3>1, PieceType
  <2>2. /\ pending' = pending \o << id >> /\ model_reads' = model_reads
        /\ requests' = Append(requests, r)
    BY <1>2, <1>4, <1>7 DEF Reads
  <2>3. /\ new = << r >> /\ DOMAIN new = {1} /\ new[1] = r /\ ToSet(new) = {r}
    BY ToSetOne
  <2> HIDE DEF r, new, id, q
  <2>4. requests' = requests \o new
    BY <1>1, <2>1, <2>2, <2>3, AppendIsConcat
  <2>5. WithCompanions(requests \o new) = w \o << q, id >>
    BY <1>1, <2>1, <2>2, <2>4, CompanionsAppend
  <2>6. pending' = Sent \o WithCompanions(requests \o new)
    <3>1. << q >> \o << id >> = << q, id >>
      BY <1>1, <1>2, ConcatOnes
    <3>2. /\ << q >> \in Seq(Ids) /\ << id >> \in Seq(Ids)
          /\ << q, id >> \in Seq(Ids)
      BY <1>1, <1>2
    <3> DEFINE s == Sent \o w
               a == << q >>
               b == << id >>
               c == << q, id >>
    <3>3. s \in Seq(Ids) /\ a \in Seq(Ids) /\ b \in Seq(Ids) /\ c \in Seq(Ids)
      BY <1>3, <3>2
    <3>4. pending' = (s \o a) \o b /\ a \o b = c
      BY <1>3, <2>2, <3>1
    <3>5. (Sent \o w) \o c = Sent \o (w \o c)
      BY <1>3, <3>3, ConcatAssociative
    <3> HIDE DEF s, a, b, c
    <3>6. (s \o a) \o b = s \o (a \o b)
      BY <3>3, ConcatAssociative, Z3
    <3>7. QED
      BY <2>5, <3>4, <3>5, <3>6 DEF s, c
  <2>7. pending' \in Seq(Ids)
    BY <1>2, <2>2
  <2>8. pending' = Sent \o WithCompanions(requests \o new) \o Optional(queued_models')
    <3>1. Sent \o WithCompanions(requests \o new) \in Seq(Ids)
      BY <2>6, <2>7
    <3>2. QED
      BY <1>5, <2>6, <3>1, ConcatEmptySeq
  <2>9. Submits(new)
    BY <1>1, <1>2, <1>3, <1>5, <2>1, <2>2, <2>3, <2>4, <2>7, <2>8
    DEF Submits, ReadsOK, TypeOK
  <2>10. Of(new, "initialize") = {} /\ Of(new, "shutdown") = {}
    BY <2>1, <2>3 DEF Of
  <2>11. Remembers(new)
    BY <1>1, <1>5, <1>6, <2>10 DEF Remembers, TypeOK, ReadsOK
  <2>12. QED
    BY <2>9, <2>11, SubmitsKeep
<1>8. CASE ~sent
  <2> DEFINE new == << >>
  <2>1. new \in Seq(Requests) /\ ToSet(new) = {} /\ DOMAIN new = {}
    BY EmptySeq, ToSetEmpty
  <2>2. Flushed(FALSE) = << >>
    BY DEF Flushed
  <2>3. requests \o new = requests
    BY <1>1, ConcatEmptySeq
  <2>4. /\ pending' = Held(FALSE) /\ model_reads' = Reads(FALSE)
        /\ requests' = requests
    BY <1>4, <1>8
  <2>5. /\ Held(FALSE) \in Seq(Ids) /\ Len(Held(FALSE)) <= Len(pending)
        /\ IsInjective(Held(FALSE)) /\ Reads(FALSE) \subseteq Ids
        /\ Held(FALSE) = Sent \o WithCompanions(requests \o new)
        /\ \A m \in Of(requests, "models") \cup Of(deferred, "models")
                    \cup Of(answers, "models") \cup Of(mailbox, "models") :
             m.id \in Reads(FALSE)
    BY <2>2, FlushFacts
  <2>6. Len(Held(FALSE)) <= MaxPending
    <3> DEFINE n == Len(Held(FALSE))
               k == Len(pending)
    <3>1. n \in Nat /\ k \in Nat /\ n <= k /\ k <= MaxPending
      BY <1>1, <2>5, LenProperties
    <3> HIDE DEF n, k
    <3>2. n <= MaxPending
      BY <3>1, BoundAssumption
    <3>3. QED
      BY <3>2 DEF n
  <2>7. pending' = Sent \o WithCompanions(requests \o new) \o Optional(queued_models')
    BY <1>5, <2>4, <2>5, ConcatEmptySeq
  <2>8. Of(new, "initialize") = {} /\ Of(new, "shutdown") = {}
    BY <2>1 DEF Of
  <2> HIDE DEF new
  <2>9. Submits(new)
    BY <1>2, <1>5, <2>1, <2>3, <2>4, <2>5, <2>6, <2>7 DEF Submits, None
  <2>10. Remembers(new)
    BY <1>1, <1>5, <1>6, <2>8 DEF Remembers, TypeOK, ReadsOK
  <2>11. QED
    BY <2>9, <2>10, SubmitsKeep
<1>9. QED
  BY <1>7, <1>8

-----------------------------------------------------------------------------
(* The worker's side.                                                       *)

\* The replies owed to a request carry its id and its companion's.
LEMMA OwedFacts ==
  ASSUME NEW r \in Requests, r.kind # "initialize"
  PROVE  /\ Owed(r) \in Seq(Owings) /\ IdsOf(Owed(r)) = Piece(r)
         /\ \A i \in DOMAIN Owed(r) : i > 1 => Owed(r)[i].kind = "request"
         /\ \A m \in ToSet(Owed(r)) :
              m.kind = "request" \/ (m.id = r.id /\ m.kind = r.kind)
<1> DEFINE e == [id |-> r.id, kind |-> r.kind]
           c == [id |-> r.companion, kind |-> "request"]
<1>1. e \in Owings /\ << e >> \in Seq(Owings) /\ \A m \in Owings : m.id \in Ids
  BY DEF Requests, Owings
<1>2. CASE r.companion = None
  <2>1. Owed(r) = << e >>
    <3>1. Owed(r) = << e >> \o << >>
      BY <1>2 DEF Owed
    <3>2. QED
      BY <1>1, <3>1, ConcatEmptySeq
  <2>2. IdsOf(<< e >>) = << r.id >>
    BY DEF IdsOf
  <2>3. Piece(r) = << r.id >>
    BY <1>2, PieceType
  <2>4. ToSet(<< e >>) = {e} /\ DOMAIN << e >> = {1}
    BY ToSetOne
  <2>5. QED
    BY <1>1, <2>1, <2>2, <2>3, <2>4
<1>3. CASE r.companion # None
  <2>1. c \in Owings
    BY <1>3 DEF Requests, Owings
  <2>2. Owed(r) = << e, c >>
    <3>1. Owed(r) = << e >> \o << c >>
      BY <1>3 DEF Owed
    <3> HIDE DEF e, c
    <3>2. << e >> \o << c >> = << e, c >>
      BY <1>1, <2>1, ConcatOnes
    <3>3. QED
      BY <3>1, <3>2
  <2>3. << e, c >> \in Seq(Owings)
    BY <1>1, <2>1
  <2>4. IdsOf(<< e, c >>) = << r.id, r.companion >>
    BY DEF IdsOf
  <2>5. Piece(r) = << r.id, r.companion >>
    BY <1>3, PieceType
  <2>6. DOMAIN << e, c >> = {1, 2} /\ << e, c >>[1] = e /\ << e, c >>[2] = c
    OBVIOUS
  <2>7. ToSet(<< e, c >>) = {e, c}
    BY <2>6 DEF ToSet
  <2>8. QED
    BY <2>2, <2>3, <2>4, <2>5, <2>6, <2>7
<1>4. QED
  BY <1>2, <1>3

\* Reclaiming takes nothing that is read or on its way to be read.
LEMMA LeasesStay ==
  ASSUME TypeOK, LeasesOK, leases' = leases \/ leases' = Reclaimed,
         ownership' = ownership, decoding' = decoding,
         NEW m \in Replies, m.kind # "models",
         mailbox' = mailbox \/ mailbox' = Append(mailbox, m)
  PROVE  LeasesOK'
<1>1. mailbox \in Seq(Replies)
  BY DEF TypeOK
<1>2. Of(mailbox', "models") = Of(mailbox, "models")
  <2>1. Of(Append(mailbox, m), "models") = Of(mailbox, "models")
    BY <1>1, OfAppend
  <2>2. QED
    BY <2>1
<1>3. leases' \subseteq leases
  BY DEF Reclaimed
<1>4. \A l \in leases : l.slot \in LeaseSlots /\ ownership[l.slot] # None => l \in leases'
  BY DEF Reclaimed
<1>5. decoding # NotDecoding =>
        /\ LeaseOf(decoding) \in leases' /\ ownership[decoding.slot] = decoding.id
  <2>1. ASSUME decoding # NotDecoding
        PROVE  LeaseOf(decoding) \in leases' /\ ownership[decoding.slot] = decoding.id
    <3>1. /\ LeaseOf(decoding) \in leases /\ ownership[decoding.slot] = decoding.id
          /\ decoding.slot \in LeaseSlots /\ decoding.id \in Ids
      BY <2>1 DEF LeasesOK, TypeOK
    <3>2. LeaseOf(decoding).slot = decoding.slot /\ decoding.id # None
      BY <3>1 DEF LeaseOf, Ids, None
    <3>3. QED
      BY <1>4, <3>1, <3>2
  <2>2. QED
    BY <2>1
<1>6. \A r \in Of(mailbox, "models") :
        /\ r.slot \in LeaseSlots
        /\ LeaseOf(r) \in leases' /\ ownership[r.slot] = r.id
        /\ decoding # NotDecoding => r.slot # decoding.slot
  <2>1. TAKE r \in Of(mailbox, "models")
  <2>2. /\ r.slot \in LeaseSlots
        /\ LeaseOf(r) \in leases /\ ownership[r.slot] = r.id
        /\ decoding # NotDecoding => r.slot # decoding.slot
    BY DEF LeasesOK
  <2>3. r.id # None
    <3>1. r \in Replies
      BY <1>1, OfIsKind, ToSetMember
    <3>2. QED
      BY <3>1 DEF Replies, Ids, None
  <2>4. LeaseOf(r).slot = r.slot
    BY DEF LeaseOf
  <2>5. QED
    BY <1>4, <2>2, <2>3, <2>4
<1>7. \A i, j \in DOMAIN mailbox' :
        /\ mailbox'[i].kind = "models" /\ mailbox'[j].kind = "models"
        /\ mailbox'[i].slot = mailbox'[j].slot
        => i = j
  <2>1. CASE mailbox' = mailbox
    BY <2>1 DEF LeasesOK
  <2>2. CASE mailbox' = Append(mailbox, m)
    <3>1. PICK n \in Nat : n = Len(mailbox)
      BY <1>1, LenProperties
    <3>2. /\ mailbox' \in Seq(Replies) /\ Len(mailbox') = n + 1
          /\ mailbox'[n + 1] = m /\ \A i \in 1..n : mailbox'[i] = mailbox[i]
      BY <1>1, <2>2, <3>1, AppendProperties
    <3>3. DOMAIN mailbox' = 1..(n + 1) /\ DOMAIN mailbox = 1..n
      BY <1>1, <3>1, <3>2, LenProperties
    <3>4. \A i \in DOMAIN mailbox' : mailbox'[i].kind = "models" => i \in 1..n
      BY <3>2, <3>3
    <3>5. QED
      BY <3>2, <3>3, <3>4 DEF LeasesOK
  <2>3. QED
    BY <2>1, <2>2
<1>8. \A l, k \in leases' : l.slot = k.slot => l = k
  BY <1>3 DEF LeasesOK
<1>9. \A s \in LeaseSlots : ownership[s] # None =>
        \/ decoding # NotDecoding /\ decoding.slot = s
        \/ \E r \in Of(mailbox, "models") : r.slot = s
  BY DEF LeasesOK
<1>10. QED
  BY <1>2, <1>5, <1>6, <1>7, <1>8, <1>9 DEF LeasesOK

\* Taking up a request: what is owed for it is what it carried, and shutdown
\* finds every lease reclaimed.
LEMMA DispatchFacts ==
  ASSUME IInv, NEW r \in ToSet(requests) \cup ToSet(deferred), Dispatch(r),
         answers = << >>, initializing = None,
         UNCHANGED << ownership, decoding, mailbox >>
  PROVE  /\ answers' \in Seq(Owings) /\ initializing' \in Ids \cup {None}
         /\ IdsOf(answers') \o Optional(initializing') = Piece(r)
         /\ leases' \subseteq leases /\ LeasesOK'
         /\ \A i \in DOMAIN answers' : i > 1 => answers'[i].kind = "request"
         /\ \A m \in Of(answers', "models") : m.id \in model_reads
         /\ Of(answers', "shutdown") # {} => shutdown_id # None /\ leases' = {}
         /\ r.kind # "initialize" => initializing' = None
<1>1. /\ TypeOK /\ LeasesOK /\ ReadsOK /\ CompanionsOK
      /\ requests \in Seq(Requests) /\ deferred \in Seq(Requests)
      /\ leases \subseteq [id : Ids, slot : LeaseSlots]
  BY DEF IInv, TypeOK
<1>2. r \in Requests /\ Piece(r) \in Seq(Ids) /\ r.id \in Ids
  <2>1. ToSet(requests) \subseteq Requests /\ ToSet(deferred) \subseteq Requests
    BY <1>1, ToSetMember
  <2>2. r \in Requests
    BY <2>1
  <2>3. QED
    BY <2>2, PieceType DEF Requests
<1>3. leases' = Reclaimed
  BY DEF Dispatch
<1>4. leases' \subseteq leases
  BY <1>3 DEF Reclaimed
<1>5. LeasesOK'
  <2>1. PICK m \in Replies : m.kind # "models"
    <3>1. [id |-> r.id, kind |-> "other", slot |-> None] \in Replies
      BY <1>2 DEF Replies
    <3>2. [id |-> r.id, kind |-> "other", slot |-> None].kind # "models"
      OBVIOUS
    <3>3. QED
      BY <3>1, <3>2
  <2>2. QED
    BY <1>1, <1>3, <2>1, LeasesStay
<1>6. shutdown_id # None => leases' = {}
  <2>1. ASSUME shutdown_id # None, NEW l \in leases, ownership[l.slot] # None
        PROVE  FALSE
    <3>1. model_reads = {} /\ decoding = NotDecoding
      BY <1>1, <2>1 DEF ReadsOK
    <3>2. Of(mailbox, "models") = {}
      BY <1>1, <3>1 DEF ReadsOK
    <3>3. l.slot \in LeaseSlots
      BY <1>1
    <3>4. QED
      BY <1>1, <2>1, <3>1, <3>2, <3>3 DEF LeasesOK
  <2>2. QED
    BY <1>3, <2>1 DEF Reclaimed
<1>7. CASE r.kind = "initialize"
  <2>1. initializing' = r.id /\ answers' = << >>
    BY <1>7 DEF Dispatch
  <2>2. r.companion = None
    BY <1>1, <1>7 DEF CompanionsOK
  <2>3. Optional(initializing') = << r.id >> /\ Piece(r) = << r.id >>
    BY <1>2, <2>1, <2>2, PieceType DEF Optional, Ids, None
  <2>4. << >> \o << r.id >> = << r.id >>
    BY <1>2, <2>3, ConcatEmptySeq
  <2>5. << >> \in Seq(Owings) /\ DOMAIN << >> = {}
    BY EmptySeq
  <2>6. QED
    <3>1. IdsOf(answers') \o Optional(initializing') = Piece(r)
      BY <2>1, <2>3, <2>4, IdsOfEmpty
    <3>2. Of(answers', "models") = {} /\ Of(answers', "shutdown") = {}
      BY <2>1, OfEmpty
    <3>3. /\ answers' \in Seq(Owings) /\ DOMAIN answers' = {}
          /\ initializing' \in Ids \cup {None}
      BY <1>2, <2>1, <2>5
    <3>4. QED
      BY <1>4, <1>5, <1>7, <3>1, <3>2, <3>3
<1>8. CASE r.kind # "initialize"
  <2>1. initializing' = None /\ answers' = Owed(r) /\ Optional(None) = << >>
    BY <1>8 DEF Dispatch, Optional
  <2>2. /\ Owed(r) \in Seq(Owings) /\ IdsOf(Owed(r)) = Piece(r)
        /\ \A i \in DOMAIN Owed(r) : i > 1 => Owed(r)[i].kind = "request"
        /\ \A m \in ToSet(Owed(r)) :
             m.kind = "request" \/ (m.id = r.id /\ m.kind = r.kind)
    BY <1>2, <1>8, OwedFacts
  <2>3. Piece(r) \o << >> = Piece(r)
    BY <1>2, ConcatEmptySeq
  <2>4. \A m \in Of(answers', "models") : m.id \in model_reads
    <3>1. TAKE m \in Of(answers', "models")
    <3>2. m.id = r.id /\ r.kind = "models"
      BY <2>1, <2>2 DEF Of
    <3>3. r \in Of(requests, "models") \cup Of(deferred, "models")
      BY <3>2 DEF Of
    <3>4. QED
      BY <1>1, <3>2, <3>3 DEF ReadsOK
  <2>5. Of(answers', "shutdown") # {} => shutdown_id # None
    <3>1. ASSUME NEW m \in Of(answers', "shutdown") PROVE shutdown_id # None
      <4>1. r.kind = "shutdown"
        BY <2>1, <2>2 DEF Of
      <4>2. r \in Of(requests, "shutdown") \cup Of(deferred, "shutdown")
        BY <4>1 DEF Of
      <4>3. QED
        BY <1>1, <4>2 DEF ReadsOK
    <3>2. QED
      BY <3>1
  <2>6. QED
    BY <1>4, <1>5, <1>6, <2>1, <2>2, <2>3, <2>4, <2>5
<1>9. QED
  BY <1>7, <1>8

Associative(S) == \A a, b, c \in Seq(S) : (a \o b) \o c = a \o (b \o c)

\* Concatenation is associative, in the form that is used below.
LEMMA ConcatIsAssociative ==
  ASSUME NEW S
  PROVE  Associative(S)
BY ConcatAssociative DEF Associative

\* One piece goes from the front of a part to the end of the part before.
Shifts(S, x, d, p, t) ==
  (x \o d) \o (p \o t) = (x \o (d \o p)) \o t

\* The two ways of taking the piece are one sequence.
LEMMA PieceShifts ==
  ASSUME NEW S, NEW x, NEW d, NEW p, NEW t,
         x \in Seq(S) /\ d \in Seq(S) /\ p \in Seq(S) /\ t \in Seq(S)
  PROVE  Shifts(S, x, d, p, t)
<1>1. Associative(S)
  BY ConcatIsAssociative
<1>2. x \o d \in Seq(S)
  BY ConcatProperties
<1>3. (x \o d) \o (p \o t) = ((x \o d) \o p) \o t
  BY <1>1, <1>2, Zenon DEF Associative
<1>4. (x \o d) \o p = x \o (d \o p)
  BY <1>1, Zenon DEF Associative
<1>5. QED
  BY <1>3, <1>4, Zenon DEF Shifts

\* One piece is taken for two.
Regroups(S, x, a, i, d) ==
  x \o ((a \o i) \o d) = ((x \o a) \o i) \o d

\* The two ways of reading the piece are one sequence.
LEMMA PiecesRegroup ==
  ASSUME NEW S, NEW x, NEW a, NEW i, NEW d,
         x \in Seq(S) /\ a \in Seq(S) /\ i \in Seq(S) /\ d \in Seq(S)
  PROVE  Regroups(S, x, a, i, d)
<1>1. Associative(S)
  BY ConcatIsAssociative
<1>2. a \o i \in Seq(S)
  BY ConcatProperties
<1>3. x \o ((a \o i) \o d) = (x \o (a \o i)) \o d
  BY <1>1, <1>2, ZenonT(60) DEF Associative
<1>4. x \o (a \o i) = (x \o a) \o i
  BY <1>1, ZenonT(60) DEF Associative
<1>5. QED
  BY <1>3, <1>4, Zenon DEF Regroups

\* What a step of the worker that takes up a request leaves of the rest.
LEMMA DispatchKeeps ==
  ASSUME IInv, NEW r \in ToSet(requests) \cup ToSet(deferred), Dispatch(r),
         answers = << >>, initializing = None,
         UNCHANGED << closed, anomaly, clientVars, plain, mailbox, replies_on,
                      ownership >>,
         requests' \in Seq(Requests), deferred' \in Seq(Requests),
         ToSet(requests') \subseteq ToSet(requests),
         ToSet(deferred') \subseteq ToSet(deferred),
         TransitIsPending',
         r.kind = "initialize" =>
           Of(requests, "initialize") # {} /\ Of(requests', "initialize") = {},
         \A i, j \in DOMAIN requests' :
           requests'[i].kind = "initialize" /\ requests'[j].kind = "initialize"
           => i = j
  PROVE  IInv'
<1>1. /\ TypeOK /\ InitializeOK /\ ChannelsOK /\ CompanionsOK /\ ReadsOK
      /\ LeasesOK /\ RepliesRecognised /\ DistinctIds
  BY DEF IInv
<1>2. /\ UNCHANGED << closed, anomaly, plain, mailbox, replies_on, ownership >>
      /\ UNCHANGED << initialize_id, shutdown_id, shutdown_requested, pending,
                      next_id, queued_models, model_reads, decoding, reader_open >>
  BY DEF clientVars
<1>3. /\ answers' \in Seq(Owings) /\ initializing' \in Ids \cup {None}
      /\ leases' \subseteq leases /\ LeasesOK'
      /\ \A i \in DOMAIN answers' : i > 1 => answers'[i].kind = "request"
      /\ \A m \in Of(answers', "models") : m.id \in model_reads
      /\ Of(answers', "shutdown") # {} => shutdown_id # None /\ leases' = {}
      /\ r.kind # "initialize" => initializing' = None
  BY <1>2, DispatchFacts
<1>4. \A kind : /\ Of(requests', kind) \subseteq Of(requests, kind)
                /\ Of(deferred', kind) \subseteq Of(deferred, kind)
  BY DEF Of
<1>5. TypeOK'
  BY <1>1, <1>2, <1>3 DEF TypeOK, Owings
<1>6. RepliesRecognised' /\ DistinctIds'
  BY <1>1, <1>2 DEF RepliesRecognised, DistinctIds
<1>7. InitializeOK'
  <2>1. initialize_id' = None =>
          initializing' = None /\ ~replies_on' /\ Of(requests', "initialize") = {}
    BY <1>1, <1>2, <1>3, <1>4 DEF InitializeOK
  <2>2. Of(requests', "initialize") # {} => initializing' = None /\ ~replies_on'
    BY <1>1, <1>2, <1>3, <1>4 DEF InitializeOK
  <2>3. Of(deferred', "initialize") = {}
    BY <1>1, <1>4 DEF InitializeOK
  <2>4. replies_on' => initializing' = None
    BY <1>1, <1>2, <1>3 DEF InitializeOK
  <2>5. QED
    BY <2>1, <2>2, <2>3, <2>4 DEF InitializeOK
<1>8. ChannelsOK'
  BY <1>1, <1>2 DEF ChannelsOK, Of
<1>9. CompanionsOK'
  BY <1>1, <1>3 DEF CompanionsOK
<1>10. ReadsOK'
  <2>1. \A m \in Of(requests', "models") \cup Of(deferred', "models")
              \cup Of(answers', "models") \cup Of(mailbox', "models") :
          m.id \in model_reads'
    <3>1. Of(mailbox', "models") = Of(mailbox, "models")
      BY <1>2
    <3>2. QED
      BY <1>1, <1>2, <1>3, <1>4, <3>1 DEF ReadsOK
  <2>2. Of(requests', "shutdown") \cup Of(deferred', "shutdown")
        \cup Of(answers', "shutdown") # {} => shutdown_id' # None
    BY <1>1, <1>2, <1>3, <1>4 DEF ReadsOK
  <2>3. Of(answers', "shutdown") # {} => leases' = {}
    BY <1>3
  <2>4. /\ queued_models' # None => queued_models' \in model_reads'
        /\ shutdown_requested' => queued_models' = None
        /\ shutdown_id' # None =>
             shutdown_requested' /\ model_reads' = {} /\ decoding' = NotDecoding
    BY <1>1, <1>2 DEF ReadsOK
  <2>5. QED
    BY <2>1, <2>2, <2>3, <2>4 DEF ReadsOK
<1>11. QED
  BY <1>3, <1>5, <1>6, <1>7, <1>8, <1>9, <1>10 DEF IInv

\* A message that waits for the initialization.
LEMMA DeferKeeps ==
  ASSUME IInv, requests # << >>, initializing # None,
         deferred' = Append(deferred, Head(requests)),
         requests' = Tail(requests),
         UNCHANGED << closed, anomaly, clientVars, plain, mailbox, replies_on,
                      ownership, leases, initializing, answers >>
  PROVE  IInv'
<1> DEFINE h == Head(requests)
           rest == Tail(requests)
<1>1. /\ TypeOK /\ InitializeOK /\ ChannelsOK /\ CompanionsOK /\ ReadsOK
      /\ LeasesOK /\ RepliesRecognised /\ DistinctIds /\ TransitIsPending
      /\ requests \in Seq(Requests) /\ deferred \in Seq(Requests)
  BY DEF IInv, TypeOK
<1>2. /\ UNCHANGED << closed, anomaly, plain, mailbox, replies_on, ownership,
                      leases, initializing, answers >>
      /\ UNCHANGED << initialize_id, shutdown_id, shutdown_requested, pending,
                      next_id, queued_models, model_reads, decoding, reader_open >>
  BY DEF clientVars
<1>3. h \in Requests /\ rest \in Seq(Requests)
  BY <1>1, HeadTailProperties
<1>4. ToSet(requests) = {h} \cup ToSet(rest)
  BY <1>1, ToSetHeadTail
<1>5. deferred' = Append(deferred, h) /\ requests' = rest
  OBVIOUS
<1>6. WithCompanions(requests) = Piece(h) \o WithCompanions(rest)
  BY <1>1, CompanionsHead
<1> HIDE DEF h, rest
<1>7. deferred' \in Seq(Requests) /\ ToSet(deferred') = ToSet(deferred) \cup {h}
  BY <1>1, <1>3, <1>5, ToSetAppend, AppendProperties
<1>8. \A kind : Of(requests', kind) \cup Of(deferred', kind) =
                Of(requests, kind) \cup Of(deferred, kind)
  BY <1>4, <1>5, <1>7 DEF Of
<1>9. Of(requests, "initialize") = {} /\ Of(deferred, "initialize") = {}
  BY <1>1 DEF InitializeOK
<1>10. TypeOK'
  BY <1>1, <1>2, <1>3, <1>5, <1>7 DEF TypeOK
<1>11. TransitIsPending'
  <2> DEFINE x == IdsOf(plain) \o IdsOf(mailbox) \o IdsOf(answers)
                  \o Optional(initializing)
             d == WithCompanions(deferred)
             p == Piece(h)
             t == WithCompanions(rest)
             q == Optional(queued_models)
  <2>1. x \in Seq(Ids) /\ d \in Seq(Ids) /\ q \in Seq(Ids)
    BY <1>1, PartTypes, ConcatProperties
  <2>2. p \in Seq(Ids) /\ t \in Seq(Ids)
    BY <1>3, PieceType, CompanionsAppend
  <2>3. WithCompanions(deferred') = d \o p
    BY <1>1, <1>3, <1>5, CompanionsAppend
  <2>4. pending = ((x \o d) \o (p \o t)) \o q
    BY <1>1, <1>6 DEF TransitIsPending
  <2>5. /\ IdsOf(plain') \o IdsOf(mailbox') \o IdsOf(answers')
           \o Optional(initializing') = x
        /\ WithCompanions(requests') = t /\ Optional(queued_models') = q
    BY <1>2, <1>5
  <2> HIDE DEF x, d, p, t, q
  <2>6. pending = ((x \o (d \o p)) \o t) \o q
    <3>1. Shifts(Ids, x, d, p, t)
      BY <2>1, <2>2, PieceShifts
    <3>2. QED
      BY <2>4, <3>1 DEF Shifts
  <2>7. QED
    BY <1>2, <2>3, <2>5, <2>6 DEF TransitIsPending
<1>12. RepliesRecognised' /\ DistinctIds'
  BY <1>1, <1>2 DEF RepliesRecognised, DistinctIds
<1>13. InitializeOK'
  <2>1. Of(requests', "initialize") = {} /\ Of(deferred', "initialize") = {}
    BY <1>8, <1>9
  <2>2. \A i \in DOMAIN requests' : requests'[i].kind # "initialize"
    BY <2>1 DEF Of, ToSet
  <2>3. QED
    BY <1>1, <1>2, <2>1, <2>2 DEF InitializeOK
<1>14. ChannelsOK'
  BY <1>1, <1>2 DEF ChannelsOK, Of
<1>15. CompanionsOK'
  BY <1>1, <1>2, <1>4, <1>5, <1>7 DEF CompanionsOK
<1>16. ReadsOK'
  <2>1. /\ Of(answers', "models") = Of(answers, "models")
        /\ Of(mailbox', "models") = Of(mailbox, "models")
        /\ Of(answers', "shutdown") = Of(answers, "shutdown")
    BY <1>2
  <2>2. \A m \in Of(requests', "models") \cup Of(deferred', "models")
              \cup Of(answers', "models") \cup Of(mailbox', "models") :
          m.id \in model_reads'
    BY <1>1, <1>2, <1>8, <2>1 DEF ReadsOK
  <2>3. Of(requests', "shutdown") \cup Of(deferred', "shutdown")
        \cup Of(answers', "shutdown") # {} => shutdown_id' # None
    BY <1>1, <1>2, <1>8, <2>1 DEF ReadsOK
  <2>4. /\ queued_models' # None => queued_models' \in model_reads'
        /\ shutdown_requested' => queued_models' = None
        /\ shutdown_id' # None =>
             shutdown_requested' /\ model_reads' = {} /\ decoding' = NotDecoding
        /\ Of(answers', "shutdown") # {} => leases' = {}
    BY <1>1, <1>2, <2>1 DEF ReadsOK
  <2>5. QED
    BY <2>2, <2>3, <2>4 DEF ReadsOK
<1>17. LeasesOK'
  BY <1>1, <1>2 DEF LeasesOK, Of
<1>18. QED
  BY <1>10, <1>11, <1>12, <1>13, <1>14, <1>15, <1>16, <1>17 DEF IInv

\* OnMessage keeps the invariant: the oldest request is deferred or taken up.
LEMMA OnMessageKeeps ==
  ASSUME IInv, OnMessage
  PROVE  IInv'
<1> DEFINE h == Head(requests)
           rest == Tail(requests)
<1>1. /\ TypeOK /\ InitializeOK /\ TransitIsPending
      /\ requests \in Seq(Requests) /\ deferred \in Seq(Requests)
  BY DEF IInv, TypeOK
<1>2. /\ requests # << >> /\ answers = << >> /\ requests' = rest
      /\ UNCHANGED << closed, anomaly, clientVars, plain, mailbox, replies_on,
                      ownership >>
  BY DEF OnMessage, WorkerFree
<1>3. CASE initializing # None
  BY <1>2, <1>3, DeferKeeps DEF OnMessage
<1>4. CASE initializing = None
  <2>1. deferred = << >> /\ deferred' = << >> /\ Dispatch(h)
    BY <1>4 DEF OnMessage
  <2>2. /\ h \in Requests /\ rest \in Seq(Requests)
        /\ WithCompanions(requests) = Piece(h) \o WithCompanions(rest)
        /\ ToSet(requests) = {h} \cup ToSet(rest)
    <3>1. h \in Requests /\ rest \in Seq(Requests)
      BY <1>1, <1>2, HeadTailProperties
    <3>2. WithCompanions(requests) = Piece(h) \o WithCompanions(rest)
      BY <1>1, <1>2, CompanionsHead
    <3>3. ToSet(requests) = {h} \cup ToSet(rest)
      BY <1>1, <1>2, ToSetHeadTail
    <3>4. QED
      BY <3>1, <3>2, <3>3
  <2>3. h \in ToSet(requests) \cup ToSet(deferred)
    BY <2>2
  <2>4. UNCHANGED << ownership, decoding, mailbox >>
    BY <1>2 DEF clientVars
  <2>5. /\ IdsOf(answers') \o Optional(initializing') = Piece(h)
        /\ answers' \in Seq(Owings) /\ initializing' \in Ids \cup {None}
    BY <1>2, <1>4, <2>1, <2>3, <2>4, DispatchFacts
  <2>6. TransitIsPending'
    <3> DEFINE x == IdsOf(plain) \o IdsOf(mailbox)
               a == IdsOf(answers')
               i == Optional(initializing')
               t == WithCompanions(rest)
               q == Optional(queued_models)
               e == << >>
    <3>1. x \in Seq(Ids) /\ q \in Seq(Ids)
      BY <1>1, PartTypes, ConcatProperties
    <3>2. a \in Seq(Ids) /\ i \in Seq(Ids) /\ t \in Seq(Ids)
      <4>1. \A m \in Owings : m.id \in Ids
        BY DEF Owings
      <4>2. a \in Seq(Ids)
        BY <2>5, <4>1, IdsOfType
      <4>3. i \in Seq(Ids)
        BY <2>5, OptionalType
      <4>4. t \in Seq(Ids)
        BY <2>2, CompanionsAppend
      <4>5. QED
        BY <4>2, <4>3, <4>4
    <3>3. e \in Seq(Ids) /\ IdsOf(e) = e /\ WithCompanions(e) = e /\ Optional(None) = e
      BY EmptySeq, IdsOfEmpty, CompanionsEmpty DEF Optional
    <3>4. pending = (((x \o e) \o e) \o e) \o (Piece(h) \o t) \o q
      BY <1>1, <1>2, <1>4, <2>1, <2>2, <3>3 DEF TransitIsPending
    <3>5. pending' = pending /\ Optional(queued_models') = q
      BY <1>2 DEF clientVars
    <3>6. /\ x = IdsOf(plain') \o IdsOf(mailbox') /\ t = WithCompanions(requests')
          /\ WithCompanions(deferred') = e /\ Piece(h) = a \o i
      BY <1>2, <2>1, <2>5, <3>3
    <3> HIDE DEF x, a, i, t, q, e
    <3>7. x \o e = x
      <4>1. e = << >>
        BY DEF e
      <4>2. QED
        BY <3>1, <4>1, ConcatEmptySeq
    <3>8. pending = (x \o ((a \o i) \o t)) \o q
      BY <3>4, <3>6, <3>7
    <3>9. x \o ((a \o i) \o t) = ((x \o a) \o i) \o t
      <4>1. Regroups(Ids, x, a, i, t)
        BY <3>1, <3>2, PiecesRegroup
      <4>2. QED
        BY <4>1 DEF Regroups
    <3>10. ((x \o a) \o i) \o e = (x \o a) \o i
      <4>1. (x \o a) \o i \in Seq(Ids)
        BY <3>1, <3>2, ConcatProperties
      <4>2. e = << >>
        BY DEF e
      <4>3. QED
        BY <4>1, <4>2, ConcatEmptySeq
    <3>11. pending' = ((((x \o a) \o i) \o e) \o t) \o q
      BY <3>5, <3>8, <3>9, <3>10
    <3>12. a = IdsOf(answers') /\ i = Optional(initializing')
      BY DEF a, i
    <3>13. QED
      BY <3>5, <3>6, <3>11, <3>12 DEF TransitIsPending
  <2>7. \A i, j \in DOMAIN requests' :
          requests'[i].kind = "initialize" /\ requests'[j].kind = "initialize"
          => i = j
    <3>1. PICK n \in Nat : n = Len(requests) /\ n # 0
      BY <1>1, <1>2, LenProperties, EmptySeq
    <3>2. Len(rest) = n - 1 /\ \A i \in 1..(n - 1) : rest[i] = requests[i + 1]
      BY <1>1, <1>2, <3>1, HeadTailProperties
    <3>3. DOMAIN rest = 1..(n - 1) /\ DOMAIN requests = 1..n
      BY <1>1, <2>2, <3>1, <3>2, LenProperties
    <3>4. ASSUME NEW i \in 1..(n - 1), NEW j \in 1..(n - 1),
                 rest[i].kind = "initialize", rest[j].kind = "initialize"
          PROVE  i = j
      <4>1. /\ i + 1 \in DOMAIN requests /\ j + 1 \in DOMAIN requests
            /\ requests[i + 1].kind = "initialize"
            /\ requests[j + 1].kind = "initialize"
        <5> HIDE DEF rest
        <5>1. QED
          BY <3>1, <3>2, <3>3, <3>4
      <4>2. i + 1 = j + 1
        BY <1>1, <4>1 DEF InitializeOK
      <4>3. QED
        BY <3>4, <4>2
    <3>5. QED
      BY <1>2, <3>3, <3>4
  <2>8. h.kind = "initialize" =>
          Of(requests, "initialize") # {} /\ Of(requests', "initialize") = {}
    <3>1. ASSUME h.kind = "initialize", NEW m \in ToSet(rest), m.kind = "initialize"
          PROVE  FALSE
      <4>1. PICK n \in Nat : n = Len(requests) /\ n # 0
        BY <1>1, <1>2, LenProperties, EmptySeq
      <4>2. /\ Len(rest) = n - 1 /\ \A i \in 1..(n - 1) : rest[i] = requests[i + 1]
            /\ h = requests[1]
        BY <1>1, <1>2, <4>1, HeadTailProperties
      <4>3. DOMAIN rest = 1..(n - 1) /\ DOMAIN requests = 1..n
        BY <1>1, <2>2, <4>1, <4>2, LenProperties
      <4>4. PICK i \in 1..(n - 1) : rest[i] = m
        BY <3>1, <4>3 DEF ToSet
      <4>5. i + 1 \in 1..n /\ 1 \in 1..n /\ i + 1 # 1 /\ requests[i + 1] = m
        BY <4>1, <4>2, <4>4
      <4>6. QED
        BY <1>1, <3>1, <4>2, <4>3, <4>5 DEF InitializeOK
    <3>2. QED
      BY <1>2, <2>2, <3>1 DEF Of
  <2>9. /\ requests' \in Seq(Requests) /\ deferred' \in Seq(Requests)
        /\ ToSet(requests') \subseteq ToSet(requests)
        /\ ToSet(deferred') \subseteq ToSet(deferred)
    BY <1>1, <1>2, <2>1, <2>2
  <2> HIDE DEF h, rest
  <2>10. QED
    BY <1>2, <1>4, <2>1, <2>3, <2>6, <2>7, <2>8, <2>9, DispatchKeeps
<1>5. QED
  BY <1>3, <1>4

\* HandleDeferred keeps the invariant: deferred requests precede the others.
LEMMA HandleDeferredKeeps ==
  ASSUME IInv, HandleDeferred
  PROVE  IInv'
<1> DEFINE h == Head(deferred)
           rest == Tail(deferred)
<1>1. /\ TypeOK /\ InitializeOK /\ TransitIsPending
      /\ requests \in Seq(Requests) /\ deferred \in Seq(Requests)
  BY DEF IInv, TypeOK
<1>2. /\ deferred # << >> /\ answers = << >> /\ initializing = None
      /\ deferred' = rest /\ requests' = requests /\ Dispatch(h)
      /\ UNCHANGED << closed, anomaly, clientVars, plain, mailbox, replies_on,
                      ownership >>
  BY DEF HandleDeferred, WorkerFree
<1>3. /\ h \in Requests /\ rest \in Seq(Requests)
      /\ WithCompanions(deferred) = Piece(h) \o WithCompanions(rest)
      /\ ToSet(deferred) = {h} \cup ToSet(rest)
  <2>1. h \in Requests /\ rest \in Seq(Requests)
    BY <1>1, <1>2, HeadTailProperties
  <2>2. WithCompanions(deferred) = Piece(h) \o WithCompanions(rest)
    BY <1>1, <1>2, CompanionsHead
  <2>3. ToSet(deferred) = {h} \cup ToSet(rest)
    BY <1>1, <1>2, ToSetHeadTail
  <2>4. QED
    BY <2>1, <2>2, <2>3
<1>4. h \in ToSet(requests) \cup ToSet(deferred)
  BY <1>3
<1>5. h.kind # "initialize"
  BY <1>1, <1>3 DEF InitializeOK, Of
<1>6. UNCHANGED << ownership, decoding, mailbox >>
  BY <1>2 DEF clientVars
<1>7. /\ IdsOf(answers') \o Optional(initializing') = Piece(h)
      /\ answers' \in Seq(Owings) /\ initializing' \in Ids \cup {None}
  BY <1>2, <1>4, <1>6, DispatchFacts
<1>8. TransitIsPending'
  <2> DEFINE x == IdsOf(plain) \o IdsOf(mailbox)
             a == IdsOf(answers')
             i == Optional(initializing')
             d == WithCompanions(rest)
             r == WithCompanions(requests)
             q == Optional(queued_models)
             e == << >>
  <2>1. x \in Seq(Ids)
    BY <1>1, PartTypes, ConcatProperties
  <2>2. a \in Seq(Ids) /\ i \in Seq(Ids) /\ d \in Seq(Ids)
    <3>1. \A m \in Owings : m.id \in Ids
      BY DEF Owings
    <3>2. a \in Seq(Ids)
      BY <1>7, <3>1, IdsOfType
    <3>3. i \in Seq(Ids)
      BY <1>7, OptionalType
    <3>4. d \in Seq(Ids)
      BY <1>3, CompanionsAppend
    <3>5. QED
      BY <3>2, <3>3, <3>4
  <2>3. IdsOf(e) = e /\ Optional(None) = e
    BY IdsOfEmpty DEF Optional
  <2>4. pending = ((x \o e) \o e) \o (Piece(h) \o d) \o r \o q
    BY <1>1, <1>2, <1>3, <2>3 DEF TransitIsPending
  <2>5. pending' = pending /\ Optional(queued_models') = q
    BY <1>2 DEF clientVars
  <2>6. /\ x = IdsOf(plain') \o IdsOf(mailbox') /\ r = WithCompanions(requests')
        /\ d = WithCompanions(deferred') /\ Piece(h) = a \o i
        /\ a = IdsOf(answers') /\ i = Optional(initializing')
    BY <1>2, <1>7
  <2>7. x \o e = x
    BY <2>1, ConcatEmptySeq
  <2> HIDE DEF x, a, i, d, r, q, e
  <2>8. pending = (x \o ((a \o i) \o d)) \o r \o q
    BY <2>4, <2>6, <2>7
  <2>9. x \o ((a \o i) \o d) = ((x \o a) \o i) \o d
    <3>1. Regroups(Ids, x, a, i, d)
      BY <2>1, <2>2, PiecesRegroup
    <3>2. QED
      BY <3>1 DEF Regroups
  <2>10. QED
    BY <2>5, <2>6, <2>8, <2>9 DEF TransitIsPending
<1>9. \A i, j \in DOMAIN requests' :
        requests'[i].kind = "initialize" /\ requests'[j].kind = "initialize"
        => i = j
  BY <1>1, <1>2 DEF InitializeOK
<1>10. /\ requests' \in Seq(Requests) /\ deferred' \in Seq(Requests)
       /\ ToSet(requests') \subseteq ToSet(requests)
       /\ ToSet(deferred') \subseteq ToSet(deferred)
  BY <1>1, <1>2, <1>3
<1> HIDE DEF h, rest
<1>11. QED
  BY <1>2, <1>4, <1>5, <1>8, <1>9, <1>10, DispatchKeeps

\* Initialized keeps the invariant: its reply is the last by postMessage.
LEMMA InitializedKeeps ==
  ASSUME IInv, Initialized
  PROVE  IInv'
<1>1. /\ TypeOK /\ InitializeOK /\ ChannelsOK /\ CompanionsOK /\ ReadsOK
      /\ LeasesOK /\ RepliesRecognised /\ DistinctIds /\ TransitIsPending
      /\ plain \in Seq(Replies) /\ initializing \in Ids \cup {None}
  BY DEF IInv, TypeOK
<1>2. /\ answers = << >> /\ initializing # None /\ initializing' = None
      /\ UNCHANGED << closed, anomaly, requests, mailbox, deferred, answers,
                      leases, ownership >>
      /\ UNCHANGED << initialize_id, shutdown_id, shutdown_requested, pending,
                      next_id, queued_models, model_reads, decoding, reader_open >>
  BY DEF Initialized, WorkerFree, clientVars
<1>3. PICK ok \in BOOLEAN :
        /\ plain' = Append(plain,
             [id |-> initializing, kind |-> IF ok THEN "initialized" ELSE "failure",
              slot |-> None])
        /\ replies_on' = ok
  BY DEF Initialized
<1> DEFINE m == [id |-> initializing,
                 kind |-> IF ok THEN "initialized" ELSE "failure", slot |-> None]
<1>4. /\ m \in Replies /\ m.id = initializing /\ m.kind # "models"
      /\ (m.kind = "initialized" <=> ok)
  BY <1>1, <1>2 DEF Replies
<1>5. plain' = Append(plain, m)
  BY <1>3
<1> HIDE DEF m
<1>6. plain' \in Seq(Replies)
  BY <1>1, <1>4, <1>5, AppendProperties
<1>7. /\ ~replies_on /\ mailbox = << >> /\ ~reader_open
      /\ initialize_id # None /\ Of(requests, "initialize") = {}
  BY <1>1, <1>2 DEF InitializeOK, ChannelsOK
<1>8. TypeOK'
  BY <1>1, <1>2, <1>3, <1>6 DEF TypeOK
<1>9. TransitIsPending'
  <2> DEFINE p == IdsOf(plain)
             e == << >>
             i == << initializing >>
             d == WithCompanions(deferred)
             r == WithCompanions(requests)
             q == Optional(queued_models)
  <2>1. p \in Seq(Ids) /\ i \in Seq(Ids) /\ e \in Seq(Ids)
    BY <1>1, <1>2, PartTypes, EmptySeq
  <2>2. IdsOf(plain') = p \o i
    <3>1. \A k \in Replies : k.id \in Ids
      BY DEF Replies
    <3>2. QED
      BY <1>1, <1>4, <1>5, <3>1, IdsOfAppend
  <2>3. /\ IdsOf(mailbox) = e /\ IdsOf(answers) = e /\ Optional(initializing) = i
        /\ Optional(None) = e
    BY <1>2, <1>7, IdsOfEmpty DEF Optional
  <2>4. p \o e = p /\ (p \o i) \o e = p \o i
    <3>1. p \o i \in Seq(Ids)
      BY <2>1, ConcatProperties
    <3>2. QED
      BY <2>1, <3>1, ConcatEmptySeq
  <2>5. pending = ((p \o e) \o e) \o i \o d \o r \o q
    BY <1>1, <2>3 DEF TransitIsPending
  <2>6. /\ WithCompanions(deferred') = d /\ WithCompanions(requests') = r
        /\ Optional(queued_models') = q /\ pending' = pending
        /\ IdsOf(mailbox') = e /\ IdsOf(answers') = e /\ Optional(initializing') = e
    BY <1>2, <2>3
  <2> HIDE DEF p, e, i, d, r, q
  <2>7. pending' = (((p \o i) \o e) \o e) \o e \o d \o r \o q
    BY <2>4, <2>5, <2>6
  <2>8. QED
    BY <2>2, <2>6, <2>7 DEF TransitIsPending
<1>10. RepliesRecognised' /\ DistinctIds'
  BY <1>1, <1>2 DEF RepliesRecognised, DistinctIds
<1>11. InitializeOK'
  BY <1>1, <1>2, <1>7 DEF InitializeOK, Of
<1>12. ChannelsOK'
  <2>1. PICK n \in Nat : n = Len(plain)
    BY <1>1, LenProperties
  <2>2. /\ Len(plain') = n + 1 /\ plain'[n + 1] = m
        /\ \A i \in 1..n : plain'[i] = plain[i]
    BY <1>1, <1>4, <1>5, <2>1, AppendProperties
  <2>3. DOMAIN plain = 1..n /\ DOMAIN plain' = 1..(n + 1)
    BY <1>1, <1>6, <2>1, <2>2, LenProperties
  <2>4. \A i \in 1..n : plain[i].kind # "initialized"
    BY <1>1, <1>7, <2>3 DEF ChannelsOK
  <2>5. \A i \in DOMAIN plain' :
          plain'[i].kind = "initialized" <=> i = Len(plain') /\ replies_on'
    <3>1. TAKE i \in DOMAIN plain'
    <3>2. CASE i \in 1..n
      BY <2>2, <2>4, <3>2
    <3>3. CASE i \notin 1..n
      <4>1. i = n + 1
        BY <2>3, <3>3
      <4>2. QED
        BY <1>3, <1>4, <2>2, <4>1
    <3>4. QED
      BY <3>2, <3>3
  <2>6. Of(plain', "models") = {} /\ plain' # << >>
    <3>1. Of(plain', "models") = Of(plain, "models")
      BY <1>1, <1>4, <1>5, OfAppend
    <3>2. plain' # << >>
      BY <1>1, <1>4, <1>5, AppendProperties
    <3>3. QED
      BY <1>1, <3>1, <3>2 DEF ChannelsOK
  <2>7. mailbox' = << >> /\ ~reader_open' /\ Of(mailbox', "initialized") = {}
    BY <1>2, <1>7, OfEmpty
  <2>8. QED
    BY <2>5, <2>6, <2>7 DEF ChannelsOK
<1>13. CompanionsOK'
  BY <1>1, <1>2 DEF CompanionsOK
<1>14. ReadsOK'
  BY <1>1, <1>2 DEF ReadsOK, Of
<1>15. LeasesOK'
  BY <1>1, <1>2 DEF LeasesOK, Of
<1>16. QED
  BY <1>8, <1>9, <1>10, <1>11, <1>12, <1>13, <1>14, <1>15 DEF IInv

\* What posting a reply and dropping it from the replies owed does to them.
LEMMA PostFacts ==
  ASSUME IInv, answers # << >>, answers' = Tail(answers),
         NEW m \in Replies, m.id = Head(answers).id, m.kind # "initialized",
         Post(m), m.kind = "models" => replies_on
  PROVE  /\ plain' \in Seq(Replies) /\ mailbox' \in Seq(Replies)
         /\ answers' \in Seq(Owings)
         /\ TransitIsPending' /\ ChannelsOK' /\ CompanionsOK'
         /\ \A kind : Of(answers', kind) \subseteq Of(answers, kind)
         /\ Of(answers', "models") = {} /\ Of(answers', "shutdown") = {}
         /\ mailbox' = IF replies_on THEN Append(mailbox, m) ELSE mailbox
<1> DEFINE h == Head(answers)
           rest == Tail(answers)
<1>1. /\ TypeOK /\ ChannelsOK /\ CompanionsOK /\ TransitIsPending
      /\ plain \in Seq(Replies) /\ mailbox \in Seq(Replies)
      /\ answers \in Seq(Owings)
  BY ChannelTypes DEF IInv
<1>2. /\ UNCHANGED << closed, anomaly, requests, initializing, deferred, replies_on >>
      /\ UNCHANGED << initialize_id, shutdown_id, shutdown_requested, pending,
                      next_id, queued_models, model_reads, decoding, reader_open >>
      /\ plain' = IF replies_on THEN plain ELSE Append(plain, m)
      /\ mailbox' = IF replies_on THEN Append(mailbox, m) ELSE mailbox
  BY DEF Post, clientVars
<1>3. /\ h \in Owings /\ rest \in Seq(Owings) /\ h.id = m.id
      /\ \A k \in Owings : k.id \in Ids
      /\ \A k \in Replies : k.id \in Ids
  <2>1. h \in Owings /\ rest \in Seq(Owings)
    BY <1>1, HeadTailProperties
  <2>2. QED
    BY <2>1 DEF Owings, Replies
<1>4. IdsOf(answers) = << m.id >> \o IdsOf(rest)
  BY <1>1, <1>3, IdsOfHead
<1>5. /\ Append(plain, m) \in Seq(Replies) /\ Append(mailbox, m) \in Seq(Replies)
      /\ IdsOf(Append(plain, m)) = IdsOf(plain) \o << m.id >>
      /\ IdsOf(Append(mailbox, m)) = IdsOf(mailbox) \o << m.id >>
  BY <1>1, <1>3, AppendProperties, IdsOfAppend
<1>6. plain' \in Seq(Replies) /\ mailbox' \in Seq(Replies)
  BY <1>1, <1>2, <1>5
<1>7. \A i \in DOMAIN answers' : i + 1 \in DOMAIN answers /\ i + 1 > 1
                                 /\ answers'[i] = answers[i + 1]
  <2>1. PICK n \in Nat : n = Len(answers) /\ n # 0
    BY <1>1, LenProperties, EmptySeq
  <2>2. Len(rest) = n - 1 /\ \A i \in 1..(n - 1) : rest[i] = answers[i + 1]
    BY <1>1, <2>1, HeadTailProperties
  <2>3. DOMAIN rest = 1..(n - 1) /\ DOMAIN answers = 1..n
    BY <1>1, <1>3, <2>1, <2>2, LenProperties
  <2> HIDE DEF rest
  <2>4. answers' = rest
    BY DEF rest
  <2>5. QED
    BY <2>1, <2>2, <2>3, <2>4
<1>8. \A i \in DOMAIN answers' : answers'[i].kind = "request"
  BY <1>1, <1>7 DEF CompanionsOK
<1>9. Of(answers', "models") = {} /\ Of(answers', "shutdown") = {}
  BY <1>8 DEF Of, ToSet
<1>10. \A kind : Of(answers', kind) \subseteq Of(answers, kind)
  BY <1>1, OfTail
<1>11. TransitIsPending'
  <2> DEFINE p == IdsOf(plain)
             b == IdsOf(mailbox)
             o == << m.id >>
             a == IdsOf(rest)
             i == Optional(initializing)
             d == WithCompanions(deferred)
             r == WithCompanions(requests)
             q == Optional(queued_models)
  <2>1. p \in Seq(Ids) /\ b \in Seq(Ids)
    BY <1>1, PartTypes
  <2>2. a \in Seq(Ids) /\ o \in Seq(Ids)
    <3>1. a \in Seq(Ids)
      BY <1>3, IdsOfType
    <3>2. m.id \in Ids
      BY <1>3
    <3>3. QED
      BY <3>1, <3>2
  <2>3. pending = ((p \o b) \o (o \o a)) \o i \o d \o r \o q
    BY <1>1, <1>4 DEF TransitIsPending
  <2>4. /\ Optional(initializing') = i /\ WithCompanions(deferred') = d
        /\ WithCompanions(requests') = r /\ Optional(queued_models') = q
        /\ IdsOf(answers') = a /\ pending' = pending
    BY <1>2
  <2>5. (p \o b) \o (o \o a) = (IdsOf(plain') \o IdsOf(mailbox')) \o a
    <3>1. CASE replies_on
      <4>1. IdsOf(plain') = p /\ IdsOf(mailbox') = b \o o
        BY <1>2, <1>5, <3>1
      <4> HIDE DEF p, b, o, a
      <4>2. Shifts(Ids, p, b, o, a)
        BY <2>1, <2>2, PieceShifts
      <4>3. QED
        BY <4>1, <4>2 DEF Shifts
    <3>2. CASE ~replies_on
      <4>1. mailbox = << >>
        BY <1>1, <3>2 DEF ChannelsOK
      <4>2. /\ IdsOf(plain') = p \o o /\ b = << >> /\ IdsOf(mailbox') = b
        BY <1>2, <1>5, <3>2, <4>1, IdsOfEmpty
      <4> HIDE DEF p, b, o, a
      <4>3. p \o b = p /\ (p \o o) \o b = p \o o
        <5>1. p \o o \in Seq(Ids)
          BY <2>1, <2>2, ConcatProperties
        <5>2. QED
          BY <2>1, <4>2, <5>1, ConcatEmptySeq
      <4>4. p \o (o \o a) = (p \o o) \o a
        BY <2>1, <2>2, ConcatAssociative, SMTT(30)
      <4>5. QED
        BY <4>2, <4>3, <4>4
    <3>3. QED
      BY <3>1, <3>2
  <2> HIDE DEF p, b, o, a, i, d, r, q
  <2>6. pending' = ((IdsOf(plain') \o IdsOf(mailbox')) \o a) \o i \o d \o r \o q
    BY <2>3, <2>4, <2>5
  <2>7. QED
    BY <2>4, <2>6 DEF TransitIsPending
<1>12. ChannelsOK'
  <2>1. CASE replies_on
    <3>1. Of(mailbox', "initialized") = Of(mailbox, "initialized")
      BY <1>1, <1>2, <2>1, OfAppend
    <3>2. plain' = plain /\ reader_open' = reader_open /\ replies_on'
      BY <1>2, <2>1
    <3>3. Of(plain', "models") = Of(plain, "models")
      BY <3>2
    <3>4. QED
      BY <1>1, <2>1, <3>1, <3>2, <3>3 DEF ChannelsOK
  <2>2. CASE ~replies_on
    <3>1. m.kind # "models" /\ m.kind # "initialized"
      BY <2>2
    <3>2. Of(plain', "models") = {} /\ Of(plain', "initialized") = {}
      <4>1. Of(plain, "initialized") = {} /\ Of(plain, "models") = {}
        BY <1>1, <2>2 DEF ChannelsOK, Of, ToSet
      <4>2. /\ Of(Append(plain, m), "models") = Of(plain, "models")
            /\ Of(Append(plain, m), "initialized") = Of(plain, "initialized")
        BY <1>1, <3>1, OfAppend
      <4>3. QED
        BY <1>2, <2>2, <4>1, <4>2
    <3>3. mailbox' = << >> /\ ~reader_open' /\ ~replies_on'
      BY <1>1, <1>2, <2>2 DEF ChannelsOK
    <3>4. Of(mailbox', "initialized") = {}
      BY <3>3, OfEmpty
    <3>5. \A i \in DOMAIN plain' : plain'[i].kind # "initialized"
      BY <3>2 DEF Of, ToSet
    <3>6. QED
      BY <3>2, <3>3, <3>4, <3>5 DEF ChannelsOK
  <2>3. QED
    BY <2>1, <2>2
<1>13. CompanionsOK'
  BY <1>1, <1>2, <1>8 DEF CompanionsOK
<1>14. QED
  BY <1>2, <1>3, <1>6, <1>9, <1>10, <1>11, <1>12, <1>13

\* The rest of the invariant after an answer.
LEMMA AnsweredKeeps ==
  ASSUME IInv, answers # << >>, answers' = Tail(answers),
         NEW m \in Replies, m.id = Head(answers).id, m.kind # "initialized",
         Post(m), m.kind = "models" => replies_on /\ Head(answers).kind = "models",
         leases' \subseteq [id : Ids, slot : LeaseSlots],
         ownership' \in [LeaseSlots -> Ids \cup {None}],
         LeasesOK'
  PROVE  IInv'
<1>1. /\ TypeOK /\ InitializeOK /\ ReadsOK /\ RepliesRecognised /\ DistinctIds
      /\ answers \in Seq(Owings) /\ mailbox \in Seq(Replies)
  BY ChannelTypes DEF IInv
<1>2. /\ UNCHANGED << closed, anomaly, requests, initializing, deferred, replies_on >>
      /\ UNCHANGED << initialize_id, shutdown_id, shutdown_requested, pending,
                      next_id, queued_models, model_reads, decoding, reader_open >>
  BY DEF Post, clientVars
<1>3. /\ plain' \in Seq(Replies) /\ mailbox' \in Seq(Replies)
      /\ answers' \in Seq(Owings)
      /\ TransitIsPending' /\ ChannelsOK' /\ CompanionsOK'
      /\ \A kind : Of(answers', kind) \subseteq Of(answers, kind)
      /\ Of(answers', "models") = {} /\ Of(answers', "shutdown") = {}
      /\ mailbox' = IF replies_on THEN Append(mailbox, m) ELSE mailbox
  BY PostFacts
<1>4. TypeOK'
  BY <1>1, <1>2, <1>3 DEF TypeOK, Owings
<1>5. RepliesRecognised' /\ DistinctIds'
  BY <1>1, <1>2 DEF RepliesRecognised, DistinctIds
<1>6. InitializeOK'
  BY <1>1, <1>2 DEF InitializeOK, Of
<1>7. ReadsOK'
  <2>1. \A k \in Of(mailbox', "models") : k.id \in model_reads
    <3>1. \A k \in Of(mailbox, "models") : k.id \in model_reads
      BY <1>1 DEF ReadsOK
    <3>2. CASE m.kind = "models"
      <4>1. Of(mailbox', "models") = Of(mailbox, "models") \cup {m}
        <5>1. Of(Append(mailbox, m), "models") = Of(mailbox, "models") \cup {m}
          BY <1>1, <3>2, OfAppend
        <5>2. QED
          BY <1>3, <3>2, <5>1
      <4>2. Head(answers) \in Of(answers, "models")
        BY <1>1, <3>2, OfTail
      <4>3. m.id \in model_reads
        BY <1>1, <4>2 DEF ReadsOK
      <4>4. QED
        BY <3>1, <4>1, <4>3
    <3>3. CASE m.kind # "models"
      <4>1. Of(Append(mailbox, m), "models") = Of(mailbox, "models")
        BY <1>1, <3>3, OfAppend
      <4>2. QED
        BY <1>3, <3>1, <4>1
    <3>4. QED
      BY <3>2, <3>3
  <2>2. /\ Of(requests', "models") = Of(requests, "models")
        /\ Of(deferred', "models") = Of(deferred, "models")
        /\ Of(requests', "shutdown") = Of(requests, "shutdown")
        /\ Of(deferred', "shutdown") = Of(deferred, "shutdown")
    BY <1>2
  <2>3. \A k \in Of(requests', "models") \cup Of(deferred', "models")
              \cup Of(answers', "models") \cup Of(mailbox', "models") :
          k.id \in model_reads'
    BY <1>1, <1>2, <1>3, <2>1, <2>2 DEF ReadsOK
  <2>4. Of(requests', "shutdown") \cup Of(deferred', "shutdown")
        \cup Of(answers', "shutdown") # {} => shutdown_id' # None
    BY <1>1, <1>2, <1>3, <2>2 DEF ReadsOK
  <2>5. /\ queued_models' # None => queued_models' \in model_reads'
        /\ shutdown_requested' => queued_models' = None
        /\ shutdown_id' # None =>
             shutdown_requested' /\ model_reads' = {} /\ decoding' = NotDecoding
    BY <1>1, <1>2 DEF ReadsOK
  <2>6. QED
    BY <1>3, <2>3, <2>4, <2>5 DEF ReadsOK
<1>8. QED
  BY <1>3, <1>4, <1>5, <1>6, <1>7 DEF IInv

\* Answer keeps the invariant: leases that are read are not reclaimed.
LEMMA AnswerKeeps ==
  ASSUME IInv, NEW kind \in {"other", "failure", "shutdown"}, Answer(kind)
  PROVE  IInv'
<1> DEFINE h == Head(answers)
           m == [id |-> h.id, kind |-> kind, slot |-> None]
<1>1. /\ TypeOK /\ LeasesOK /\ answers # << >> /\ answers \in Seq(Owings)
      /\ leases \subseteq [id : Ids, slot : LeaseSlots]
      /\ ownership \in [LeaseSlots -> Ids \cup {None}]
  BY ChannelTypes DEF IInv, TypeOK, Answer
<1>2. h.id \in Ids
  <2>1. h \in Owings
    BY <1>1, HeadTailProperties
  <2>2. QED
    BY <2>1 DEF Owings
<1>3. /\ m \in Replies /\ m.id = h.id /\ m.kind # "models"
      /\ m.kind # "initialized"
  BY <1>2 DEF Replies
<1>4. /\ Post(m) /\ answers' = Tail(answers) /\ ownership' = ownership
      /\ leases' = leases \/ leases' = Reclaimed
  BY DEF Answer
<1> HIDE DEF m
<1>5. /\ decoding' = decoding
      /\ mailbox' = mailbox \/ mailbox' = Append(mailbox, m)
  BY <1>4 DEF Post, clientVars
<1>6. LeasesOK'
  BY <1>1, <1>3, <1>4, <1>5, LeasesStay
<1>7. /\ leases' \subseteq [id : Ids, slot : LeaseSlots]
      /\ ownership' \in [LeaseSlots -> Ids \cup {None}]
  BY <1>1, <1>4 DEF Reclaimed
<1>8. QED
  BY <1>1, <1>3, <1>4, <1>6, <1>7, AnsweredKeeps

\* AnswerModels keeps the invariant: the slot it takes is nobody's.
LEMMA AnswerModelsKeeps ==
  ASSUME IInv, NEW slot \in LeaseSlots, AnswerModels(slot)
  PROVE  IInv'
<1> DEFINE h == Head(answers)
           m == [id |-> h.id, kind |-> "models", slot |-> slot]
           l == [id |-> h.id, slot |-> slot]
<1>1. /\ TypeOK /\ LeasesOK /\ answers # << >> /\ answers \in Seq(Owings)
      /\ leases \subseteq [id : Ids, slot : LeaseSlots]
      /\ ownership \in [LeaseSlots -> Ids \cup {None}]
      /\ mailbox \in Seq(Replies) /\ replies_on /\ h.kind = "models"
  BY ChannelTypes DEF IInv, TypeOK, AnswerModels
<1>2. h.id \in Ids
  <2>1. h \in Owings
    BY <1>1, HeadTailProperties
  <2>2. QED
    BY <2>1 DEF Owings
<1>3. /\ m \in Replies /\ m.id = h.id /\ m.kind = "models" /\ m.slot = slot
      /\ LeaseOf(m) = l
  BY <1>2 DEF Replies, LeaseOf
<1>4. /\ Post(m) /\ answers' = Tail(answers)
      /\ leases' = leases \cup {l} /\ ownership' = [ownership EXCEPT ![slot] = h.id]
      /\ \A k \in leases : k.slot # slot
  BY DEF AnswerModels
<1>5. l \in [id : Ids, slot : LeaseSlots] /\ l.slot = slot
  BY <1>2
<1>6. /\ ownership'[slot] = h.id
      /\ \A s \in LeaseSlots : s # slot => ownership'[s] = ownership[s]
      /\ ownership' \in [LeaseSlots -> Ids \cup {None}]
  BY <1>1, <1>2, <1>4
<1> HIDE DEF m, l, h
<1>7. decoding' = decoding /\ mailbox' = Append(mailbox, m)
  BY <1>1, <1>4 DEF Post, clientVars
<1>8. Of(mailbox', "models") = Of(mailbox, "models") \cup {m}
  BY <1>1, <1>3, <1>7, OfAppend
<1>9. decoding # NotDecoding =>
        /\ LeaseOf(decoding) \in leases /\ decoding.slot # slot
        /\ ownership[decoding.slot] = decoding.id /\ decoding.slot \in LeaseSlots
  <2>1. ASSUME decoding # NotDecoding
        PROVE  /\ LeaseOf(decoding) \in leases
               /\ ownership[decoding.slot] = decoding.id
               /\ decoding.slot \in LeaseSlots
    BY <1>1, <2>1 DEF LeasesOK, TypeOK
  <2>2. LeaseOf(decoding).slot = decoding.slot
    BY DEF LeaseOf
  <2>3. QED
    BY <1>4, <2>1, <2>2
<1>10. \A r \in Of(mailbox, "models") :
         /\ r.slot \in LeaseSlots /\ r.slot # slot
         /\ LeaseOf(r) \in leases /\ ownership[r.slot] = r.id
         /\ decoding # NotDecoding => r.slot # decoding.slot
  <2>1. TAKE r \in Of(mailbox, "models")
  <2>2. /\ r.slot \in LeaseSlots
        /\ LeaseOf(r) \in leases /\ ownership[r.slot] = r.id
        /\ decoding # NotDecoding => r.slot # decoding.slot
    BY <1>1 DEF LeasesOK
  <2>3. LeaseOf(r).slot = r.slot
    BY DEF LeaseOf
  <2>4. QED
    BY <1>4, <2>2, <2>3
<1>11. LeasesOK'
  <2>1. \A j, k \in leases' : j.slot = k.slot => j = k
    BY <1>1, <1>4, <1>5 DEF LeasesOK
  <2>2. \A s \in LeaseSlots : ownership'[s] # None =>
          \/ decoding' # NotDecoding /\ decoding'.slot = s
          \/ \E r \in Of(mailbox', "models") : r.slot = s
    BY <1>1, <1>3, <1>6, <1>7, <1>8 DEF LeasesOK
  <2>3. decoding' # NotDecoding =>
          /\ LeaseOf(decoding') \in leases'
          /\ ownership'[decoding'.slot] = decoding'.id
    BY <1>4, <1>6, <1>7, <1>9
  <2>4. \A r \in Of(mailbox', "models") :
          /\ r.slot \in LeaseSlots
          /\ LeaseOf(r) \in leases' /\ ownership'[r.slot] = r.id
          /\ decoding' # NotDecoding => r.slot # decoding'.slot
    BY <1>3, <1>4, <1>6, <1>7, <1>8, <1>9, <1>10
  <2>5. \A i, j \in DOMAIN mailbox' :
          /\ mailbox'[i].kind = "models" /\ mailbox'[j].kind = "models"
          /\ mailbox'[i].slot = mailbox'[j].slot
          => i = j
    <3>1. PICK n \in Nat : n = Len(mailbox)
      BY <1>1, LenProperties
    <3>2. /\ mailbox' \in Seq(Replies) /\ Len(mailbox') = n + 1
          /\ mailbox'[n + 1] = m /\ \A i \in 1..n : mailbox'[i] = mailbox[i]
      BY <1>1, <1>3, <1>7, <3>1, AppendProperties
    <3>3. DOMAIN mailbox' = 1..(n + 1) /\ DOMAIN mailbox = 1..n
      BY <1>1, <3>1, <3>2, LenProperties
    <3>4. \A i \in 1..n : mailbox[i].kind = "models" => mailbox[i].slot # slot
      BY <1>10, <3>3 DEF Of, ToSet
    <3>5. \A i, j \in 1..n :
            /\ mailbox[i].kind = "models" /\ mailbox[j].kind = "models"
            /\ mailbox[i].slot = mailbox[j].slot
            => i = j
      BY <1>1, <3>3 DEF LeasesOK
    <3>6. TAKE i, j \in DOMAIN mailbox'
    <3>7. i = n + 1 \/ i \in 1..n
      BY <3>3
    <3>8. j = n + 1 \/ j \in 1..n
      BY <3>3
    <3>9. QED
      BY <1>3, <3>2, <3>4, <3>5, <3>7, <3>8
  <2>6. QED
    BY <2>1, <2>2, <2>3, <2>4, <2>5 DEF LeasesOK
<1>12. leases' \subseteq [id : Ids, slot : LeaseSlots]
  BY <1>1, <1>4, <1>5
<1>13. m.kind # "initialized" /\ m.id = Head(answers).id /\ Head(answers).kind = "models"
  BY <1>1, <1>3 DEF h
<1>14. QED
  BY <1>1, <1>3, <1>4, <1>6, <1>11, <1>12, <1>13, AnsweredKeeps

-----------------------------------------------------------------------------
(* Replies at the client.                                                   *)

\* h is the first of the ids s, and t are the others.
Leads(h, s, t) ==
  << h >> \in Seq(Ids) /\ t \in Seq(Ids) /\ s = << h >> \o t

\* The first id stays the first when others follow.
LEMMA LeadsConcat ==
  ASSUME NEW h, NEW s, NEW t, NEW u, Leads(h, s, t), u \in Seq(Ids)
  PROVE  Leads(h, s \o u, t \o u)
<1>1. t \o u \in Seq(Ids)
  BY ConcatProperties DEF Leads
<1>2. Associative(Ids)
  BY ConcatIsAssociative
<1>3. (<< h >> \o t) \o u = << h >> \o (t \o u)
  BY <1>2, Zenon DEF Leads, Associative
<1>4. QED
  BY <1>1, <1>3 DEF Leads

\* Taking the first of distinct ids out.
LEMMA LeadsOut ==
  ASSUME NEW h, NEW s, NEW t, Leads(h, s, t), IsInjective(s)
  PROVE  /\ s \in Seq(Ids) /\ h \in ToSet(s) /\ h \notin ToSet(t)
         /\ Without(s, h) = t /\ IsInjective(t) /\ Len(t) <= Len(s)
<1> DEFINE o == << h >>
<1>1. o \in Seq(Ids) /\ t \in Seq(Ids) /\ s = o \o t /\ h \in Ids
  BY DEF Leads
<1>2. ToSet(o) = {h} /\ Len(o) = 1 /\ o[1] = h
  BY ToSetOne
<1> HIDE DEF o
<1>3. PICK n \in Nat : n = Len(t)
  BY <1>1, LenProperties
<1>4. /\ s \in Seq(Ids) /\ Len(s) = n + 1
      /\ \A i \in 1..(n + 1) : s[i] = IF i <= 1 THEN o[i] ELSE t[i - 1]
  <2>1. /\ o \o t \in Seq(Ids) /\ Len(o \o t) = Len(o) + Len(t)
        /\ \A i \in 1..(Len(o) + Len(t)) :
             (o \o t)[i] = IF i <= Len(o) THEN o[i] ELSE t[i - Len(o)]
    BY <1>1, ConcatProperties
  <2>2. Len(o) + Len(t) = n + 1
    BY <1>2, <1>3
  <2>3. QED
    BY <1>1, <1>2, <2>1, <2>2
<1>5. ToSet(s) = ToSet(o) \cup ToSet(t)
  BY <1>1, ToSetConcat
<1>6. IsInjective(t) /\ ToSet(o) \cap ToSet(t) = {}
  BY <1>1, InjectiveConcat
<1>7. s # << >>
  BY <1>4, EmptySeq
<1>8. /\ Head(s) = s[1] /\ Tail(s) \in Seq(Ids) /\ Len(Tail(s)) = n
      /\ \A i \in 1..n : Tail(s)[i] = s[i + 1]
  <2>1. /\ Head(s) = s[1] /\ Tail(s) \in Seq(Ids) /\ Len(Tail(s)) = Len(s) - 1
        /\ \A i \in 1..(Len(s) - 1) : Tail(s)[i] = s[i + 1]
    BY <1>4, <1>7, HeadTailProperties
  <2>2. Len(s) - 1 = n
    BY <1>4
  <2>3. QED
    BY <2>1, <2>2
<1>9. Head(s) = h
  BY <1>2, <1>4, <1>8
<1>10. Tail(s) = t
  <2>1. \A i \in 1..n : Tail(s)[i] = t[i]
    <3>1. TAKE i \in 1..n
    <3>2. PICK j \in 1..(n + 1) : j = i + 1
      OBVIOUS
    <3>3. ~(j <= 1) /\ j - 1 = i
      BY <3>2
    <3>4. QED
      BY <1>4, <1>8, <3>2, <3>3
  <2>2. QED
    BY <1>1, <1>3, <1>8, <2>1, SeqEqual
<1>11. Without(s, h) = t
  <2>1. Without(s, Head(s)) = Tail(s)
    BY <1>4, <1>7, WithoutHead
  <2>2. QED
    BY <1>9, <1>10, <2>1
<1>12. QED
  BY <1>2, <1>3, <1>4, <1>5, <1>6, <1>11

\* The first reply on its way answers the oldest pending request.
LEMMA ReplyLeads ==
  ASSUME IInv, NEW h, NEW t, Leads(h, IdsOf(plain) \o IdsOf(mailbox), t)
  PROVE  Leads(h, pending,
               t \o IdsOf(answers) \o Optional(initializing)
               \o WithCompanions(deferred) \o WithCompanions(requests)
               \o Optional(queued_models))
<1> DEFINE x == IdsOf(plain) \o IdsOf(mailbox)
           a == IdsOf(answers)
           i == Optional(initializing)
           d == WithCompanions(deferred)
           r == WithCompanions(requests)
           q == Optional(queued_models)
<1>1. /\ a \in Seq(Ids) /\ i \in Seq(Ids) /\ d \in Seq(Ids)
      /\ r \in Seq(Ids) /\ q \in Seq(Ids)
  BY PartTypes DEF IInv
<1>2. pending = x \o a \o i \o d \o r \o q
  BY DEF IInv, TransitIsPending
<1>3. Leads(h, x, t)
  OBVIOUS
<1> HIDE DEF x, a, i, d, r, q
<1>4. Leads(h, x \o a, t \o a)
  BY <1>1, <1>3, LeadsConcat
<1>5. Leads(h, x \o a \o i, t \o a \o i)
  BY <1>1, <1>4, LeadsConcat
<1>6. Leads(h, x \o a \o i \o d, t \o a \o i \o d)
  BY <1>1, <1>5, LeadsConcat
<1>7. Leads(h, x \o a \o i \o d \o r, t \o a \o i \o d \o r)
  BY <1>1, <1>6, LeadsConcat
<1>8. Leads(h, x \o a \o i \o d \o r \o q, t \o a \o i \o d \o r \o q)
  BY <1>1, <1>7, LeadsConcat
<1>9. QED
  BY <1>2, <1>8 DEF a, i, d, r, q

\* Every message, and the request held back, is about a pending id.
LEMMA TransitCarries ==
  TypeOK /\ TransitIsPending =>
    /\ \A m \in ToSet(plain) \cup ToSet(mailbox) \cup ToSet(answers)
                \cup ToSet(deferred) \cup ToSet(requests) :
         m.id \in ToSet(pending)
    /\ queued_models # None => queued_models \in ToSet(pending)
<1> SUFFICES ASSUME TypeOK, TransitIsPending
             PROVE  /\ \A m \in ToSet(plain) \cup ToSet(mailbox) \cup ToSet(answers)
                                \cup ToSet(deferred) \cup ToSet(requests) :
                         m.id \in ToSet(pending)
                    /\ queued_models # None => queued_models \in ToSet(pending)
  OBVIOUS
<1> DEFINE s == Sent
           r == WithCompanions(requests)
           q == Optional(queued_models)
<1>1. s \in Seq(Ids) /\ r \in Seq(Ids) /\ q \in Seq(Ids) /\ s \o r \in Seq(Ids)
  BY SentType, PartTypes, ConcatProperties
<1>2. pending = (s \o r) \o q
  BY TransitIsSent
<1>3. ToSet((s \o r) \o q) = ToSet(s \o r) \cup ToSet(q)
  BY <1>1, ToSetConcat, ZenonT(30)
<1>4. ToSet(s \o r) = ToSet(s) \cup ToSet(r)
  BY <1>1, ToSetConcat
<1>5. \A m \in ToSet(requests) : m.id \in ToSet(r)
  BY ChannelTypes, CompanionsCarry
<1>6. queued_models # None => queued_models \in ToSet(q)
  <2>1. queued_models # None => q = << queued_models >>
    BY DEF Optional
  <2>2. QED
    BY <2>1, ToSetOne
<1>7. \A m \in ToSet(plain) \cup ToSet(mailbox) \cup ToSet(answers)
               \cup ToSet(deferred) : m.id \in ToSet(s)
  BY SentCarries
<1> HIDE DEF s, r, q
<1>8. QED
  BY <1>2, <1>3, <1>4, <1>5, <1>6, <1>7

\* What the client does with a reply it recognises.
Settles(reply) ==
  /\ pending' = Without(pending, reply.id)
  /\ model_reads' = model_reads \ {reply.id}
  /\ decoding' = IF reply.kind = "models"
                 THEN [id |-> reply.id, slot |-> reply.slot, reading |-> FALSE]
                 ELSE decoding
  /\ reader_open' = (reader_open \/ reply.kind = "initialized")
  /\ UNCHANGED << closed, anomaly, initialize_id, shutdown_id, shutdown_requested,
                  next_id, queued_models, requests, initializing, deferred,
                  replies_on, answers, leases, ownership >>

\* Settling the oldest reply keeps the invariant: its id, which no other message
\* carries, is free again.
LEMMA SettleKeeps ==
  ASSUME IInv, NEW reply \in Replies, decoding = NotDecoding,
         Leads(reply.id, IdsOf(plain) \o IdsOf(mailbox),
               IdsOf(plain') \o IdsOf(mailbox')),
         Settles(reply),
         plain' \in Seq(Replies), mailbox' \in Seq(Replies),
         ToSet(mailbox') \subseteq ToSet(mailbox),
         reply.kind = "models" => reply \in Of(mailbox, "models"),
         ChannelsOK', LeasesOK'
  PROVE  IInv'
<1> DEFINE id == reply.id
<1>1. /\ TypeOK /\ InitializeOK /\ CompanionsOK /\ ReadsOK /\ LeasesOK
      /\ RepliesRecognised /\ DistinctIds /\ pending \in Seq(Ids)
      /\ Len(pending) <= MaxPending
  BY DEF IInv, TypeOK
<1>2. /\ pending' = Without(pending, id)
      /\ model_reads' = model_reads \ {id}
      /\ UNCHANGED << closed, anomaly, initialize_id, shutdown_id,
                      shutdown_requested, next_id, queued_models, requests,
                      initializing, deferred, replies_on, answers, leases,
                      ownership >>
  BY DEF Settles
<1>3. PICK t :
        t = IdsOf(plain') \o IdsOf(mailbox') \o IdsOf(answers)
            \o Optional(initializing) \o WithCompanions(deferred)
            \o WithCompanions(requests) \o Optional(queued_models)
  OBVIOUS
<1>4. Leads(id, pending, t)
  BY <1>3, ReplyLeads
<1>5. IsInjective(pending)
  BY <1>1 DEF DistinctIds
<1>6. /\ id \notin ToSet(t) /\ pending' = t /\ IsInjective(t)
      /\ Len(t) <= Len(pending) /\ t \in Seq(Ids)
  BY <1>2, <1>4, <1>5, LeadsOut DEF Leads
<1>7. Len(t) <= MaxPending
  BY <1>1, <1>6, LenProperties, BoundAssumption
<1>8. decoding' = NotDecoding
      \/ decoding' \in [id : Ids, slot : LeaseSlots, reading : BOOLEAN]
  <2>1. CASE reply.kind = "models"
    <3>1. reply.slot \in LeaseSlots
      BY <1>1, <2>1 DEF LeasesOK
    <3>2. decoding' = [id |-> reply.id, slot |-> reply.slot, reading |-> FALSE]
      BY <2>1 DEF Settles
    <3>3. QED
      BY <3>1, <3>2 DEF Replies
  <2>2. CASE reply.kind # "models"
    BY <2>2 DEF Settles
  <2>3. QED
    BY <2>1, <2>2
<1>9. reader_open' \in BOOLEAN
  BY <1>1 DEF Settles, TypeOK
<1>10. TypeOK'
  BY <1>1, <1>2, <1>6, <1>7, <1>8, <1>9 DEF TypeOK
<1>11. TransitIsPending'
  BY <1>2, <1>3, <1>6 DEF TransitIsPending
<1>12. RepliesRecognised' /\ DistinctIds'
  BY <1>1, <1>2, <1>6 DEF RepliesRecognised, DistinctIds
<1>13. InitializeOK'
  BY <1>1, <1>2 DEF InitializeOK, Of
<1>14. CompanionsOK'
  BY <1>1, <1>2 DEF CompanionsOK
<1>15. /\ \A m \in ToSet(mailbox') \cup ToSet(answers')
                   \cup ToSet(deferred') \cup ToSet(requests') : m.id # id
       /\ queued_models' # None => queued_models' # id
  <2>1. (TypeOK /\ TransitIsPending =>
           /\ \A m \in ToSet(plain) \cup ToSet(mailbox) \cup ToSet(answers)
                       \cup ToSet(deferred) \cup ToSet(requests) :
                m.id \in ToSet(pending)
           /\ queued_models # None => queued_models \in ToSet(pending))'
    BY TransitCarries, PTL
  <2>2. /\ \A m \in ToSet(mailbox') \cup ToSet(answers')
                    \cup ToSet(deferred') \cup ToSet(requests') :
             m.id \in ToSet(pending')
        /\ queued_models' # None => queued_models' \in ToSet(pending')
    BY <1>10, <1>11, <2>1
  <2>3. id \notin ToSet(pending')
    BY <1>6
  <2>4. QED
    BY <2>2, <2>3
<1>16. ReadsOK'
  <2>1. \A kind : /\ Of(mailbox', kind) \subseteq Of(mailbox, kind)
                  /\ Of(requests', kind) = Of(requests, kind)
                  /\ Of(deferred', kind) = Of(deferred, kind)
                  /\ Of(answers', kind) = Of(answers, kind)
    BY <1>2 DEF Of
  <2>2. \A m \in Of(requests', "models") \cup Of(deferred', "models")
              \cup Of(answers', "models") \cup Of(mailbox', "models") :
          m.id \in model_reads'
    <3>1. TAKE m \in Of(requests', "models") \cup Of(deferred', "models")
              \cup Of(answers', "models") \cup Of(mailbox', "models")
    <3>2. m.id \in model_reads
      BY <1>1, <2>1 DEF ReadsOK
    <3>3. m.id # id
      BY <1>15 DEF Of
    <3>4. QED
      BY <1>2, <3>2, <3>3
  <2>3. queued_models' # None => queued_models' \in model_reads'
    BY <1>1, <1>2, <1>15 DEF ReadsOK
  <2>4. shutdown_id' # None =>
          shutdown_requested' /\ model_reads' = {} /\ decoding' = NotDecoding
    <3>1. ASSUME shutdown_id' # None
          PROVE  shutdown_requested' /\ model_reads' = {} /\ decoding' = NotDecoding
      <4>1. shutdown_requested' /\ model_reads = {}
        BY <1>1, <1>2, <3>1 DEF ReadsOK
      <4>2. reply.kind # "models"
        BY <1>1, <4>1 DEF ReadsOK
      <4>3. QED
        BY <1>2, <4>1, <4>2 DEF Settles
    <3>2. QED
      BY <3>1
  <2>5. /\ shutdown_requested' => queued_models' = None
        /\ Of(requests', "shutdown") \cup Of(deferred', "shutdown")
           \cup Of(answers', "shutdown") # {} => shutdown_id' # None
        /\ Of(answers', "shutdown") # {} => leases' = {}
    BY <1>1, <1>2, <2>1 DEF ReadsOK
  <2>6. QED
    BY <2>2, <2>3, <2>4, <2>5 DEF ReadsOK
<1>17. QED
  BY <1>10, <1>11, <1>12, <1>13, <1>14, <1>16 DEF IInv

\* The leases when the oldest reply of the mailbox is received.
LEMMA MailboxLeases ==
  ASSUME IInv, decoding = NotDecoding, mailbox # << >>, mailbox' = Tail(mailbox),
         Settles(Head(mailbox))
  PROVE  LeasesOK'
<1> DEFINE h == Head(mailbox)
           rest == Tail(mailbox)
<1>1. /\ LeasesOK /\ mailbox \in Seq(Replies)
  BY ChannelTypes DEF IInv
<1>2. PICK n \in Nat : n = Len(mailbox) /\ n # 0
  BY <1>1, LenProperties, EmptySeq
<1>3. /\ h = mailbox[1] /\ h \in Replies /\ rest \in Seq(Replies)
      /\ Len(rest) = n - 1 /\ \A i \in 1..(n - 1) : rest[i] = mailbox[i + 1]
  BY <1>1, <1>2, HeadTailProperties
<1>4. DOMAIN rest = 1..(n - 1) /\ DOMAIN mailbox = 1..n
  BY <1>1, <1>2, <1>3, LenProperties
<1>5. ToSet(mailbox) = {h} \cup ToSet(rest)
  BY <1>1, ToSetHeadTail
<1>6. /\ leases' = leases /\ ownership' = ownership /\ mailbox' = rest
      /\ decoding' = IF h.kind = "models"
                     THEN [id |-> h.id, slot |-> h.slot, reading |-> FALSE]
                     ELSE NotDecoding
  BY DEF Settles
<1>7. h.id # None
  BY <1>3 DEF Replies, Ids, None
<1> HIDE DEF h, rest
<1>8. \A i \in DOMAIN mailbox' :
        i + 1 \in DOMAIN mailbox /\ i + 1 # 1 /\ mailbox'[i] = mailbox[i + 1]
  BY <1>2, <1>3, <1>4, <1>6
<1>9. 1 \in DOMAIN mailbox
  BY <1>2, <1>4
<1>10. \A i, j \in DOMAIN mailbox' :
         /\ mailbox'[i].kind = "models" /\ mailbox'[j].kind = "models"
         /\ mailbox'[i].slot = mailbox'[j].slot
         => i = j
  <2>1. TAKE i, j \in DOMAIN mailbox'
  <2>2. /\ i + 1 \in DOMAIN mailbox /\ j + 1 \in DOMAIN mailbox
        /\ mailbox'[i] = mailbox[i + 1] /\ mailbox'[j] = mailbox[j + 1]
    BY <1>8
  <2>3. /\ mailbox'[i].kind = "models" /\ mailbox'[j].kind = "models"
        /\ mailbox'[i].slot = mailbox'[j].slot
        => i + 1 = j + 1
    BY <1>1, <2>2 DEF LeasesOK
  <2>4. i \in Nat /\ j \in Nat
    BY <1>4, <1>6
  <2>5. QED
    BY <2>3, <2>4
<1>11. Of(mailbox', "models") \subseteq Of(mailbox, "models")
  BY <1>5, <1>6 DEF Of
<1>12. CASE h.kind = "models"
  <2> DEFINE d == [id |-> h.id, slot |-> h.slot, reading |-> FALSE]
  <2>1. /\ decoding' = d /\ d # NotDecoding /\ LeaseOf(d) = LeaseOf(h)
        /\ d.id = h.id /\ d.slot = h.slot
    BY <1>6, <1>7, <1>12 DEF LeaseOf, NotDecoding
  <2>2. h \in Of(mailbox, "models")
    BY <1>5, <1>12 DEF Of
  <2>3. LeaseOf(h) \in leases /\ ownership[h.slot] = h.id
    BY <1>1, <2>2 DEF LeasesOK
  <2>4. \A m \in Of(mailbox', "models") : m.slot # h.slot
    <3>1. TAKE m \in Of(mailbox', "models")
    <3>2. PICK i \in DOMAIN mailbox' : mailbox'[i] = m
      BY DEF Of, ToSet
    <3>3. m.kind = "models"
      BY DEF Of
    <3>4. i + 1 \in DOMAIN mailbox /\ i + 1 # 1 /\ m = mailbox[i + 1]
      BY <1>8, <3>2
    <3>5. QED
      BY <1>1, <1>3, <1>9, <1>12, <3>3, <3>4 DEF LeasesOK
  <2> HIDE DEF d
  <2>5. \A s \in LeaseSlots : ownership'[s] # None =>
          \/ decoding' # NotDecoding /\ decoding'.slot = s
          \/ \E m \in Of(mailbox', "models") : m.slot = s
    <3>1. ASSUME NEW s \in LeaseSlots, ownership'[s] # None
          PROVE  \/ decoding' # NotDecoding /\ decoding'.slot = s
                 \/ \E m \in Of(mailbox', "models") : m.slot = s
      <4>1. PICK m \in Of(mailbox, "models") : m.slot = s
        BY <1>1, <1>6, <3>1 DEF LeasesOK
      <4>2. m = h \/ m \in Of(mailbox', "models")
        BY <1>5, <1>6 DEF Of
      <4>3. QED
        BY <2>1, <4>1, <4>2
    <3>2. QED
      BY <3>1
  <2>6. \A m \in Of(mailbox', "models") :
          /\ m.slot \in LeaseSlots
          /\ LeaseOf(m) \in leases' /\ ownership'[m.slot] = m.id
          /\ decoding' # NotDecoding => m.slot # decoding'.slot
    BY <1>1, <1>6, <1>11, <2>1, <2>4 DEF LeasesOK
  <2>7. decoding' # NotDecoding =>
          /\ LeaseOf(decoding') \in leases'
          /\ ownership'[decoding'.slot] = decoding'.id
    BY <1>6, <2>1, <2>3
  <2>8. \A l, m \in leases' : l.slot = m.slot => l = m
    BY <1>1, <1>6 DEF LeasesOK
  <2>9. QED
    BY <1>10, <2>5, <2>6, <2>7, <2>8 DEF LeasesOK
<1>13. CASE h.kind # "models"
  <2>1. decoding' = NotDecoding
    BY <1>6, <1>13
  <2>2. Of(mailbox', "models") = Of(mailbox, "models")
    <3>1. ASSUME NEW m \in Of(mailbox, "models")
          PROVE  m \in Of(mailbox', "models")
      <4>1. m \in ToSet(mailbox) /\ m.kind = "models"
        BY DEF Of
      <4>2. m \in ToSet(mailbox')
        BY <1>5, <1>6, <1>13, <4>1
      <4>3. QED
        BY <4>1, <4>2 DEF Of
    <3>2. QED
      BY <1>11, <3>1
  <2>3. QED
    BY <1>1, <1>6, <1>10, <2>1, <2>2 DEF LeasesOK
<1>14. QED
  BY <1>12, <1>13

\* ReceivePlain keeps the invariant: no reply is outside the mailbox once that
\* is read, and none is stale.
LEMMA ReceivePlainKeeps ==
  ASSUME IInv, ReceivePlain
  PROVE  IInv'
<1> DEFINE h == Head(plain)
           rest == Tail(plain)
<1>1. /\ TypeOK /\ LeasesOK /\ ChannelsOK /\ DistinctIds
      /\ plain \in Seq(Replies) /\ mailbox \in Seq(Replies)
  BY ChannelTypes DEF IInv
<1>2. ~closed /\ decoding = NotDecoding /\ plain # << >>
  BY DEF ReceivePlain, PageFree
<1>3. ~reader_open
  BY <1>1, <1>2 DEF ChannelsOK
<1>4. Receive(h) /\ (closed' \/ (plain' = rest /\ mailbox' = mailbox))
  BY <1>3 DEF ReceivePlain
<1>5. PICK n \in Nat : n = Len(plain) /\ n # 0
  BY <1>1, <1>2, LenProperties, EmptySeq
<1>6. /\ h = plain[1] /\ h \in Replies /\ rest \in Seq(Replies)
      /\ Len(rest) = n - 1 /\ \A i \in 1..(n - 1) : rest[i] = plain[i + 1]
  BY <1>1, <1>2, <1>5, HeadTailProperties
<1>7. DOMAIN rest = 1..(n - 1) /\ DOMAIN plain = 1..n
  BY <1>1, <1>5, <1>6, LenProperties
<1>8. ToSet(plain) = {h} \cup ToSet(rest)
  BY <1>1, <1>2, ToSetHeadTail
<1>9. Leads(h.id, IdsOf(plain) \o IdsOf(mailbox), IdsOf(rest) \o IdsOf(mailbox))
  <2>1. \A m \in Replies : m.id \in Ids
    BY DEF Replies
  <2>2. IdsOf(plain) = << h.id >> \o IdsOf(rest)
    BY <1>1, <1>2, <2>1, IdsOfHead
  <2>3. h.id \in Ids
    BY <1>6, <2>1
  <2>4. << h.id >> \in Seq(Ids)
    BY <2>3
  <2>5. IdsOf(rest) \in Seq(Ids) /\ IdsOf(mailbox) \in Seq(Ids)
    BY <1>1, <1>6, <2>1, IdsOfType
  <2>6. Leads(h.id, IdsOf(plain), IdsOf(rest))
    BY <2>2, <2>4, <2>5 DEF Leads
  <2>7. QED
    BY <2>5, <2>6, LeadsConcat
<1>10. h.id \in ToSet(pending)
  <2>1. h \in ToSet(plain)
    BY <1>8
  <2>2. QED
    BY <1>1, <2>1, TransitCarries DEF IInv
<1>11. CASE CloseWith(anomaly)
  BY <1>11, CloseKeeps
<1>12. CASE ~CloseWith(anomaly)
  <2>1. Settles(h)
    BY <1>4, <1>10, <1>12 DEF Receive, Settles, workerVars
  <2>2. plain' = rest /\ mailbox' = mailbox
    BY <1>2, <1>4, <2>1 DEF Settles
  <2>3. h.kind # "models"
    BY <1>1, <1>8 DEF ChannelsOK, Of
  <2>4. decoding' = decoding /\ leases' = leases /\ ownership' = ownership
        /\ replies_on' = replies_on
        /\ (reader_open' <=> h.kind = "initialized")
    BY <1>3, <2>1, <2>3 DEF Settles
  <2>5. LeasesOK'
    BY <1>1, <2>2, <2>4 DEF LeasesOK, Of
  <2>6. h.kind = "initialized" <=> n = 1 /\ replies_on
    BY <1>1, <1>5, <1>6, <1>7 DEF ChannelsOK
  <2> HIDE DEF h, rest
  <2>7. plain' = << >> <=> n = 1
    <3>1. rest = << >> => n = 1
      <4>1. rest = << >> => Len(rest) = 0
        BY EmptySeq
      <4>2. Len(rest) = n - 1
        BY <1>6
      <4>3. QED
        BY <4>1, <4>2
    <3>2. n = 1 => rest = << >>
      BY <1>5, <1>6, EmptySeq
    <3>3. QED
      BY <2>2, <3>1, <3>2
  <2>8. \A i \in DOMAIN plain' :
          plain'[i].kind = "initialized" <=> i = Len(plain') /\ replies_on'
    <3>1. TAKE i \in DOMAIN plain'
    <3>2. /\ i \in Nat /\ i + 1 \in DOMAIN plain /\ plain'[i] = plain[i + 1]
          /\ Len(plain') = n - 1
      BY <1>5, <1>6, <1>7, <2>2
    <3>3. plain[i + 1].kind = "initialized" <=> i + 1 = n /\ replies_on
      BY <1>1, <1>5, <3>2 DEF ChannelsOK
    <3>4. QED
      BY <1>5, <2>4, <3>2, <3>3
  <2>9. Of(plain', "models") = {}
    BY <1>1, <1>8, <2>2 DEF ChannelsOK, Of
  <2>10. ChannelsOK'
    <3>1. Of(mailbox', "initialized") = {}
      BY <1>1, <2>2 DEF ChannelsOK
    <3>2. ~replies_on' => mailbox' = << >> /\ ~reader_open'
      BY <1>1, <2>2, <2>4, <2>6 DEF ChannelsOK
    <3>3. QED
      BY <2>4, <2>6, <2>7, <2>8, <2>9, <3>1, <3>2 DEF ChannelsOK
  <2>11. Leads(h.id, IdsOf(plain) \o IdsOf(mailbox),
               IdsOf(plain') \o IdsOf(mailbox'))
    BY <1>9, <2>2
  <2>12. plain' \in Seq(Replies) /\ mailbox' \in Seq(Replies)
    BY <1>1, <1>6, <2>2
  <2>13. QED
    BY <1>2, <1>6, <2>1, <2>2, <2>3, <2>5, <2>10, <2>11, <2>12, SettleKeeps
<1>13. QED
  BY <1>11, <1>12

\* ReceiveMailbox keeps the invariant: no reply is stale.
LEMMA ReceiveMailboxKeeps ==
  ASSUME IInv, ReceiveMailbox
  PROVE  IInv'
<1> DEFINE h == Head(mailbox)
           rest == Tail(mailbox)
<1>1. /\ TypeOK /\ ChannelsOK /\ DistinctIds
      /\ plain \in Seq(Replies) /\ mailbox \in Seq(Replies)
  BY ChannelTypes DEF IInv
<1>2. /\ ~closed /\ decoding = NotDecoding /\ mailbox # << >> /\ reader_open
      /\ Receive(h) /\ (closed' \/ (mailbox' = rest /\ plain' = plain))
  BY DEF ReceiveMailbox, PageFree
<1>3. plain = << >> /\ replies_on
  BY <1>1, <1>2 DEF ChannelsOK
<1>4. h \in Replies /\ rest \in Seq(Replies)
  BY <1>1, <1>2, HeadTailProperties
<1>5. ToSet(mailbox) = {h} \cup ToSet(rest)
  BY <1>1, <1>2, ToSetHeadTail
<1>6. Leads(h.id, IdsOf(plain) \o IdsOf(mailbox), IdsOf(plain) \o IdsOf(rest))
  <2>1. \A m \in Replies : m.id \in Ids
    BY DEF Replies
  <2>2. IdsOf(mailbox) = << h.id >> \o IdsOf(rest)
    BY <1>1, <1>2, <2>1, IdsOfHead
  <2>3. h.id \in Ids
    BY <1>4, <2>1
  <2>4. << h.id >> \in Seq(Ids)
    BY <2>3
  <2>5. IdsOf(rest) \in Seq(Ids) /\ IdsOf(mailbox) \in Seq(Ids)
    BY <1>1, <1>4, <2>1, IdsOfType
  <2>6. IdsOf(plain) = << >>
    BY <1>3, IdsOfEmpty
  <2>7. IdsOf(plain) \o IdsOf(mailbox) = IdsOf(mailbox)
        /\ IdsOf(plain) \o IdsOf(rest) = IdsOf(rest)
    BY <2>5, <2>6, ConcatEmptySeq
  <2>8. QED
    BY <2>2, <2>4, <2>5, <2>7 DEF Leads
<1>7. h.id \in ToSet(pending)
  <2>1. h \in ToSet(mailbox)
    BY <1>5
  <2>2. QED
    BY <1>1, <2>1, TransitCarries DEF IInv
<1>8. CASE CloseWith(anomaly)
  BY <1>8, CloseKeeps
<1>9. CASE ~CloseWith(anomaly)
  <2>1. Settles(h)
    BY <1>2, <1>7, <1>9 DEF Receive, Settles, workerVars
  <2>2. mailbox' = rest /\ plain' = plain
    BY <1>2, <2>1 DEF Settles
  <2>3. LeasesOK'
    BY <1>2, <2>1, <2>2, MailboxLeases
  <2>4. Of(mailbox', "initialized") = {}
    BY <1>1, <1>5, <2>2 DEF ChannelsOK, Of
  <2>5. reader_open' /\ replies_on' /\ Of(plain', "models") = {}
    <3>1. reader_open' /\ replies_on'
      BY <1>2, <1>3, <2>1 DEF Settles
    <3>2. QED
      BY <1>3, <2>2, <3>1, OfEmpty
  <2>6. ChannelsOK'
    <3>1. plain' = << >> /\ DOMAIN << >> = {}
      BY <1>3, <2>2
    <3>2. QED
      BY <2>4, <2>5, <3>1 DEF ChannelsOK
  <2>7. Leads(h.id, IdsOf(plain) \o IdsOf(mailbox),
              IdsOf(plain') \o IdsOf(mailbox'))
    BY <1>6, <2>2
  <2>8. plain' \in Seq(Replies) /\ mailbox' \in Seq(Replies)
    BY <1>1, <1>4, <2>2
  <2>9. h.kind = "models" => h \in Of(mailbox, "models")
    BY <1>5 DEF Of
  <2>10. ToSet(mailbox') \subseteq ToSet(mailbox)
    BY <1>5, <2>2
  <2> HIDE DEF h, rest
  <2>11. QED
    BY <1>2, <1>4, <2>1, <2>3, <2>6, <2>7, <2>8, <2>9, <2>10, SettleKeeps
<1>10. QED
  BY <1>8, <1>9

\* BeginDecode keeps the invariant: the lease is the reader's own.
LEMMA BeginDecodeKeeps ==
  ASSUME IInv, BeginDecode
  PROVE  IInv'
<1>1. /\ TypeOK /\ TransitIsPending /\ RepliesRecognised /\ DistinctIds
      /\ InitializeOK /\ ChannelsOK /\ CompanionsOK /\ ReadsOK /\ LeasesOK
      /\ decoding # NotDecoding
  BY DEF IInv, BeginDecode
<1>2. ownership[decoding.slot] = decoding.id
  BY <1>1 DEF LeasesOK
<1>3. /\ decoding' = [decoding EXCEPT !.reading = TRUE]
      /\ UNCHANGED << closed, anomaly, initialize_id, shutdown_id,
                      shutdown_requested, pending, next_id, queued_models,
                      model_reads, reader_open, requests, plain, mailbox,
                      initializing, deferred, replies_on, answers, leases,
                      ownership >>
  BY <1>2 DEF BeginDecode, workerVars
<1>4. decoding \in [id : Ids, slot : LeaseSlots, reading : BOOLEAN]
  BY <1>1 DEF TypeOK
<1>5. /\ decoding' \in [id : Ids, slot : LeaseSlots, reading : BOOLEAN]
      /\ decoding'.id = decoding.id /\ decoding'.slot = decoding.slot
  BY <1>3, <1>4
<1>6. decoding' # NotDecoding
  BY <1>5 DEF NotDecoding, Ids, None
<1>7. TypeOK'
  BY <1>1, <1>3, <1>5 DEF TypeOK
<1>8. TransitIsPending' /\ RepliesRecognised' /\ DistinctIds'
  BY <1>1, <1>3 DEF TransitIsPending, RepliesRecognised, DistinctIds
<1>9. InitializeOK' /\ ChannelsOK' /\ CompanionsOK'
  BY <1>1, <1>3 DEF InitializeOK, ChannelsOK, CompanionsOK, Of
<1>10. ReadsOK'
  BY <1>1, <1>3 DEF ReadsOK, Of
<1>11. LeasesOK'
  <2>1. LeaseOf(decoding') = LeaseOf(decoding)
    BY <1>5 DEF LeaseOf
  <2>2. Of(mailbox', "models") = Of(mailbox, "models")
    BY <1>3
  <2>3. QED
    BY <1>1, <1>3, <1>5, <1>6, <2>1, <2>2 DEF LeasesOK
<1>12. QED
  BY <1>7, <1>8, <1>9, <1>10, <1>11 DEF IInv

\* EndDecode keeps the invariant: the word it clears is its own.
LEMMA EndDecodeKeeps ==
  ASSUME IInv, EndDecode
  PROVE  IInv'
<1>1. /\ TypeOK /\ TransitIsPending /\ RepliesRecognised /\ DistinctIds
      /\ InitializeOK /\ ChannelsOK /\ CompanionsOK /\ ReadsOK /\ LeasesOK
      /\ ownership \in [LeaseSlots -> Ids \cup {None}]
  BY DEF IInv, TypeOK
<1>2. decoding # NotDecoding
  BY DEF EndDecode, NotDecoding
<1>3. /\ decoding' = NotDecoding
      /\ ownership' = [ownership EXCEPT ![decoding.slot] = None]
      /\ UNCHANGED << closed, anomaly, initialize_id, shutdown_id,
                      shutdown_requested, pending, next_id, queued_models,
                      model_reads, reader_open, requests, plain, mailbox,
                      initializing, deferred, replies_on, answers, leases >>
  BY DEF EndDecode, workerVars
<1>4. decoding.slot \in LeaseSlots
  BY <1>1, <1>2 DEF TypeOK
<1>5. /\ ownership' \in [LeaseSlots -> Ids \cup {None}]
      /\ ownership'[decoding.slot] = None
      /\ \A s \in LeaseSlots : s # decoding.slot => ownership'[s] = ownership[s]
  BY <1>1, <1>3, <1>4
<1>6. TypeOK'
  BY <1>1, <1>3, <1>5 DEF TypeOK
<1>7. TransitIsPending' /\ RepliesRecognised' /\ DistinctIds'
  BY <1>1, <1>3 DEF TransitIsPending, RepliesRecognised, DistinctIds
<1>8. InitializeOK' /\ ChannelsOK' /\ CompanionsOK'
  BY <1>1, <1>3 DEF InitializeOK, ChannelsOK, CompanionsOK, Of
<1>9. ReadsOK'
  BY <1>1, <1>3 DEF ReadsOK, Of
<1>10. LeasesOK'
  <2>1. Of(mailbox', "models") = Of(mailbox, "models")
    BY <1>3
  <2>2. \A s \in LeaseSlots : ownership'[s] # None =>
          \E m \in Of(mailbox', "models") : m.slot = s
    BY <1>1, <1>5, <2>1 DEF LeasesOK
  <2>3. \A m \in Of(mailbox', "models") :
          m.slot \in LeaseSlots /\ LeaseOf(m) \in leases'
          /\ ownership'[m.slot] = m.id
    BY <1>1, <1>2, <1>3, <1>5, <2>1 DEF LeasesOK
  <2>4. QED
    BY <1>1, <1>3, <2>2, <2>3 DEF LeasesOK
<1>11. QED
  BY <1>6, <1>7, <1>8, <1>9, <1>10 DEF IInv

-----------------------------------------------------------------------------
(* The specification.                                                       *)

\* The invariant holds at the start.
LEMMA InitIInv ==
  ASSUME Init
  PROVE  IInv
<1>1. /\ pending = << >> /\ requests = << >> /\ plain = << >>
      /\ mailbox = << >> /\ deferred = << >> /\ answers = << >>
      /\ initializing = None /\ queued_models = None
      /\ initialize_id = None /\ shutdown_id = None
      /\ shutdown_requested = FALSE /\ reader_open = FALSE
      /\ replies_on = FALSE /\ model_reads = {} /\ decoding = NotDecoding
      /\ leases = {} /\ ownership = [s \in LeaseSlots |-> None]
      /\ closed = FALSE /\ next_id = 1 /\ anomaly = "none"
  BY DEF Init
<1>2. /\ \A S : << >> \in Seq(S)
      /\ Len(<< >>) = 0 /\ 0 <= MaxPending /\ 1 \in Ids /\ DOMAIN << >> = {}
  BY EmptySeq, BoundAssumption DEF Ids
<1>3. \A kind : Of(<< >>, kind) = {}
  BY OfEmpty
<1>4. TypeOK
  <2>1. ownership \in [LeaseSlots -> Ids \cup {None}]
    BY <1>1
  <2>2. {initialize_id, shutdown_id, initializing, queued_models}
          \subseteq Ids \cup {None}
    BY <1>1
  <2>3. QED
    BY <1>1, <1>2, <2>1, <2>2 DEF TypeOK
<1>5. TransitIsPending
  <2>1. IdsOf(<< >>) = << >> /\ WithCompanions(<< >>) = << >>
        /\ Optional(None) = << >>
    BY IdsOfEmpty, CompanionsEmpty DEF Optional
  <2>2. << >> \o << >> = << >>
    BY <1>2, ConcatEmptySeq
  <2>3. QED
    BY <1>1, <2>1, <2>2 DEF TransitIsPending
<1>6. RepliesRecognised /\ DistinctIds
  BY <1>1, <1>2 DEF RepliesRecognised, DistinctIds, IsInjective
<1>7. InitializeOK /\ ChannelsOK
  BY <1>1, <1>2, <1>3 DEF InitializeOK, ChannelsOK
<1>8. CompanionsOK
  BY <1>1, <1>2, ToSetEmpty DEF CompanionsOK
<1>9. ReadsOK
  BY <1>1, <1>3 DEF ReadsOK
<1>10. LeasesOK
  BY <1>1, <1>2, <1>3 DEF LeasesOK
<1>11. QED
  BY <1>4, <1>5, <1>6, <1>7, <1>8, <1>9, <1>10 DEF IInv

\* Every step keeps the invariant.
LEMMA StepIInv ==
  ASSUME IInv, [Next]_vars
  PROVE  IInv'
<1>1. CASE Initialize
  BY <1>1, InitializeKeeps
<1>2. CASE Request
  BY <1>2, RequestKeeps
<1>3. CASE Models
  BY <1>3, ModelsKeep
<1>4. CASE Companion
  BY <1>4, CompanionKeeps
<1>5. CASE FlushMicrotask
  BY <1>5, FlushMicrotaskKeeps
<1>6. CASE RequestShutdown
  BY <1>6, RequestShutdownKeeps
<1>7. CASE SendShutdown
  BY <1>7, SendShutdownKeeps
<1>8. CASE Abort
  BY <1>8, CloseKeeps DEF Abort
<1>9. CASE ReplyStep
  BY <1>9, ReceivePlainKeeps, ReceiveMailboxKeeps, BeginDecodeKeeps,
     EndDecodeKeeps DEF ReplyStep
<1>10. CASE WorkerStep
  BY <1>10, OnMessageKeeps, HandleDeferredKeeps, InitializedKeeps,
     AnswerModelsKeeps, AnswerKeeps DEF WorkerStep
<1>11. CASE UNCHANGED vars
  <2>1. UNCHANGED << closed, anomaly, initialize_id, shutdown_id,
                     shutdown_requested, pending, next_id, queued_models,
                     model_reads, decoding, reader_open, requests, plain,
                     mailbox, initializing, deferred, replies_on, answers,
                     leases, ownership >>
    BY <1>11 DEF vars, clientVars, workerVars
  <2>2. TypeOK'
    BY <2>1 DEF IInv, TypeOK
  <2>3. TransitIsPending' /\ RepliesRecognised' /\ DistinctIds'
    BY <2>1 DEF IInv, TransitIsPending, RepliesRecognised, DistinctIds
  <2>4. InitializeOK' /\ ChannelsOK' /\ CompanionsOK'
    BY <2>1 DEF IInv, InitializeOK, ChannelsOK, CompanionsOK, Of
  <2>5. ReadsOK'
    BY <2>1 DEF IInv, ReadsOK, Of
  <2>6. LeasesOK'
    BY <2>1 DEF IInv, LeasesOK, Of
  <2>7. QED
    BY <2>2, <2>3, <2>4, <2>5, <2>6 DEF IInv
<1>12. QED
  BY <1>1, <1>2, <1>3, <1>4, <1>5, <1>6, <1>7, <1>8, <1>9, <1>10, <1>11 DEF Next

\* Replies are owed and kept for pending requests only, so the bound on those
\* bounds the mailbox.
LEMMA RoomForReplies ==
  ASSUME IInv
  PROVE  MailboxNeverFull
<1> DEFINE p == IdsOf(plain)
           b == IdsOf(mailbox)
           a == IdsOf(answers)
           i == Optional(initializing)
           d == WithCompanions(deferred)
           r == WithCompanions(requests)
           q == Optional(queued_models)
<1>1. /\ TypeOK /\ mailbox \in Seq(Replies) /\ answers \in Seq(Owings)
      /\ Len(pending) <= MaxPending
  BY ChannelTypes DEF IInv, TypeOK
<1>2. PICK n \in Nat, k \in Nat : n = Len(mailbox) /\ k = Len(answers)
  BY <1>1, LenProperties
<1>3. Len(b) = n /\ Len(a) = k
  <2>1. (\A m \in Replies : m.id \in Ids) /\ (\A m \in Owings : m.id \in Ids)
    BY DEF Replies, Owings
  <2>2. Len(b) = Len(mailbox)
    BY <1>1, <2>1, IdsOfType
  <2>3. Len(a) = Len(answers)
    BY <1>1, <2>1, IdsOfType
  <2>4. QED
    BY <1>2, <2>2, <2>3
<1>4. /\ p \in Seq(Ids) /\ b \in Seq(Ids) /\ a \in Seq(Ids) /\ i \in Seq(Ids)
      /\ d \in Seq(Ids) /\ r \in Seq(Ids) /\ q \in Seq(Ids)
  BY <1>1, PartTypes
<1>5. pending = p \o b \o a \o i \o d \o r \o q
  BY DEF IInv, TransitIsPending
<1> HIDE DEF p, b, a, i, d, r, q
<1>6. \A s, t \in Seq(Ids) :
        /\ s \o t \in Seq(Ids)
        /\ Len(s) \in Nat /\ Len(t) \in Nat /\ Len(s \o t) \in Nat
        /\ Len(s) <= Len(s \o t)
  <2>1. TAKE s, t \in Seq(Ids)
  <2>2. s \o t \in Seq(Ids) /\ Len(s \o t) = Len(s) + Len(t)
    BY ConcatProperties
  <2>3. Len(s) \in Nat /\ Len(t) \in Nat
    BY LenProperties
  <2>4. QED
    BY <2>2, <2>3
<1> DEFINE x == p \o b \o a
<1>7. x \in Seq(Ids) /\ n + k <= Len(x)
  <2>1. p \o b \in Seq(Ids) /\ Len(p \o b) = Len(p) + Len(b)
    BY <1>4, ConcatProperties
  <2>2. x \in Seq(Ids) /\ Len(x) = Len(p \o b) + Len(a)
    BY <1>4, <2>1, ConcatProperties
  <2>3. Len(p) \in Nat
    BY <1>4, LenProperties
  <2> HIDE DEF x
  <2>4. QED
    BY <1>3, <2>1, <2>2, <2>3
<1> DEFINE y == x \o i
           z == y \o d
           w == z \o r
<1>8. pending = w \o q
  BY <1>5
<1> HIDE DEF x
<1>9. y \in Seq(Ids) /\ Len(x) <= Len(y)
  BY <1>4, <1>6, <1>7
<1> HIDE DEF y
<1>10. z \in Seq(Ids) /\ Len(y) <= Len(z)
  BY <1>4, <1>6, <1>9
<1> HIDE DEF z
<1>11. w \in Seq(Ids) /\ Len(z) <= Len(w)
  BY <1>4, <1>6, <1>10
<1> HIDE DEF w
<1>12. Len(w) <= Len(pending) /\ Len(pending) \in Nat
  BY <1>4, <1>6, <1>8, <1>11
<1>13. /\ Len(x) \in Nat /\ Len(y) \in Nat /\ Len(z) \in Nat /\ Len(w) \in Nat
  BY <1>7, <1>9, <1>10, <1>11, LenProperties
<1>14. n + k <= Capacity
  BY <1>1, <1>7, <1>9, <1>10, <1>11, <1>12, <1>13, BoundAssumption
<1>15. answers # << >> => k # 0
  BY <1>1, <1>2, EmptySeq
<1>16. answers # << >> => n < Capacity
  BY <1>14, <1>15, BoundAssumption
<1>17. QED
  BY <1>2, <1>16, BoundAssumption DEF MailboxNeverFull, MailboxFull

\* A lease lasts as long as its decoder, and shutdown finds none.
LEMMA LeasesHeld ==
  ASSUME IInv
  PROVE  LeasesRespected
<1>1. LeaseHeldWhileRead
  BY DEF IInv, LeasesOK, LeaseOf, LeaseHeldWhileRead
<1>2. ShutdownFindsNoLease
  <2>1. ASSUME answers # << >>, Head(answers).kind = "shutdown"
        PROVE  leases = {}
    <3>1. answers \in Seq(Owings)
      BY ChannelTypes DEF IInv
    <3>2. Head(answers) \in Of(answers, "shutdown")
      BY <2>1, <3>1, OfTail
    <3>3. QED
      BY <3>2 DEF IInv, ReadsOK
  <2>2. QED
    BY <2>1 DEF ShutdownFindsNoLease
<1>3. QED
  BY <1>1, <1>2 DEF LeasesRespected

\* The invariant holds of the specification.
THEOREM Invariance ==
  Spec => []IInv
<1>1. Init => IInv
  BY InitIInv
<1>2. IInv /\ [Next]_vars => IInv'
  BY StepIInv
<1>3. QED
  BY <1>1, <1>2, PTL DEF Spec

\* The variables keep their types, and at most MaxPending requests are pending.
THEOREM TypesHold ==
  Spec => []TypeOK
<1>1. IInv => TypeOK
  BY DEF IInv
<1>2. QED
  BY <1>1, Invariance, PTL

\* The client's promises are settled in request order, each once: every pending
\* id has exactly one request or reply on its way, in order of reservation and
\* across both reply channels; no reply is stale, none is outside the mailbox
\* once that is read, no model output lacks its lease, and the mailbox never
\* overruns.
THEOREM RepliesComeInOrder ==
  Spec => []RepliesInOrder
<1>1. IInv => RepliesInOrder
  BY RoomForReplies DEF IInv, RepliesInOrder
<1>2. QED
  BY <1>1, Invariance, PTL

\* Model output is not recycled while the page decodes it, and shutdown finds
\* every lease returned.
THEOREM LeasesAreRespected ==
  Spec => []LeasesRespected
<1>1. IInv => LeasesRespected
  BY LeasesHeld
<1>2. QED
  BY <1>1, Invariance, PTL
=============================================================================
