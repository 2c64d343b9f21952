------------------------ MODULE ReplyTransportProofs ------------------------
(***************************************************************************)
(* The reply mailbox, for a ring of any capacity, sequences of any width   *)
(* the capacity divides, and any number of replies.                        *)
(*                                                                         *)
(* A sequence is a residue: positions in the ring are compared by their    *)
(* distance from a base, and every position is written At(base, offset) so *)
(* that what is proved about offsets is linear.  The page's offsets count  *)
(* from read, the worker's from reclaimed.                                 *)
(*                                                                         *)
(* The invariant says, offset by offset, what the ring holds and what      *)
(* travels beside it.  Entry(1)..Entry(Pending) are published and unread,  *)
(* Entry(Pending + 1) is the slot the worker fills; a control among them   *)
(* has its envelope in the channel or with the page, in the order of the   *)
(* ring, and a shared one has its lease registered.                        *)
(***************************************************************************)
EXTENDS ReplyTransport, SequenceTheorems, TLAPS

-----------------------------------------------------------------------------
(* Sequences modulo 2^w.                                                    *)

\* What the assumption says of the constants.
LEMMA Constants ==
  /\ Capacity \in Nat \ {0} /\ Modulus \in Nat \ {0} /\ Capacity < Modulus
  /\ MaxReplies \in Nat
  BY SequenceAssumption

\* Quotient and remainder of any integer.
LEMMA ModBounds ==
  ASSUME NEW m \in Nat \ {0}, NEW x \in Int
  PROVE  /\ x % m \in 0..(m - 1)
         /\ x \div m \in Int
         /\ x = (x \div m) * m + (x % m)
  BY SMT

\* The remainder is the only number of its range that differs by a multiple.
LEMMA ModUnique ==
  ASSUME NEW m \in Nat \ {0}, NEW q \in Int, NEW r \in 0..(m - 1)
  PROVE  (q * m + r) % m = r
<1> DEFINE x == q * m + r
           d == (x \div m)
           e == x % m
<1>1. x \in Int 
  OBVIOUS
<1>2. d \in Int /\ e \in 0..(m-1) /\ x = d * m + e
  BY <1>1, ModBounds
<1> HIDE DEF d, e
<1>3. (q - d) * m = e - r
  BY <1>2
<1>4. CASE q = d
  BY <1>4, <1>3, <1>2 DEF e
<1>5. CASE q > d
  <2>1. q - d >= 1 BY <1>5, <1>2
  <2>2. (q - d) * m >= m BY <2>1, <1>2
  <2> QED BY <2>2, <1>3, <1>2
<1>6. CASE q < d
  <2>1. d - q >= 1 BY <1>6, <1>2
  <2>2. (d - q) * m >= m BY <2>1, <1>2
  <2>3. (q - d) * m <= -m BY <2>2, <1>2
  <2> QED BY <2>3, <1>3, <1>2
<1> QED BY <1>4, <1>5, <1>6, <1>2

\* Taking a remainder early changes nothing.
LEMMA ModShift ==
  ASSUME NEW m \in Nat \ {0}, NEW x \in Int, NEW j \in Int
  PROVE  ((x % m) + j) % m = (x + j) % m
<1> DEFINE q == x \div m
           r == x % m
           p == (r + j) \div m
           t == (r + j) % m
<1>1. q \in Int /\ r \in Int /\ x = q * m + r
  BY ModBounds
<1>2. p \in Int /\ t \in 0..(m - 1) /\ r + j = p * m + t
  BY <1>1, ModBounds
<1> HIDE DEF q, r, p, t
<1>3. x + j = q * m + p * m + t
  BY <1>1, <1>2
<1>4. x + j = (q + p) * m + t
  BY <1>1, <1>2, <1>3
<1>5. ((q + p) * m + t) % m = t
  BY <1>1, <1>2, ModUnique
<1> QED BY <1>4, <1>5 DEF r, t

\* A number of the range is its own remainder.
LEMMA ModSmall ==
  ASSUME NEW m \in Nat \ {0}, NEW x \in 0..(m - 1)
  PROVE  x % m = x
<1>1. (0 * m + x) % m = x
  BY ModUnique
<1> QED BY <1>1

\* The sequence i places after s.
At(s, i) == (s + i) % Modulus

\* Counting on from a sequence gives a sequence.
LEMMA AtTypes ==
  ASSUME NEW s \in Int, NEW i \in Int
  PROVE  At(s, i) \in Sequences
BY Constants, ModBounds DEF At, Sequences

\* Offsets add up.
LEMMA AtAt ==
  ASSUME NEW s \in Int, NEW i \in Int, NEW j \in Int
  PROVE  At(At(s, i), j) = At(s, i + j)
<1> DEFINE x == s + i
<1>1. x \in Int /\ x + j = s + (i + j)
  OBVIOUS
<1> HIDE DEF x
<1>2. ((x % Modulus) + j) % Modulus = (x + j) % Modulus
  BY <1>1, Constants, ModShift
<1>3. At(At(s, i), j) = ((x % Modulus) + j) % Modulus
  BY DEF At, x
<1>4. At(s, i + j) = (x + j) % Modulus
  BY <1>1 DEF At
<1> QED BY <1>2, <1>3, <1>4

\* The offset zero.
LEMMA AtZero ==
  ASSUME NEW s \in Sequences
  PROVE  At(s, 0) = s
BY Constants, ModSmall DEF At, Sequences

\* distance() finds the offset again.
LEMMA DistanceOfAt ==
  ASSUME NEW s \in Sequences, NEW i \in 0..(Modulus - 1)
  PROVE  Distance(At(s, i), s) = i
<1>1. s \in Int /\ -s \in Int /\ i \in Int
  BY Constants DEF Sequences
<1> DEFINE x == s + i
           j == -s
           y == x % Modulus
<1>2. x \in Int /\ j \in Int /\ x + j = i
  BY <1>1
<1>3. y \in Int /\ y - s = y + j
  BY <1>1, <1>2, Constants, ModBounds
<1>4. Distance(At(s, i), s) = (y - s) % Modulus
  BY DEF Distance, At
<1> HIDE DEF x, j
<1>5. ((x % Modulus) + j) % Modulus = (x + j) % Modulus
  BY <1>2, Constants, ModShift
<1>6. i % Modulus = i
  BY Constants, ModSmall
<1> QED BY <1>2, <1>3, <1>4, <1>5, <1>6

\* A sequence is as far from the base as distance() says.
LEMMA AtDistance ==
  ASSUME NEW s \in Sequences, NEW t \in Sequences
  PROVE  /\ At(s, Distance(t, s)) = t
         /\ Distance(t, s) \in 0..(Modulus - 1)
<1>1. s \in Int /\ t \in Int
  BY Constants DEF Sequences
<1> DEFINE x == t - s
           y == x % Modulus
<1>2. x \in Int /\ x + s = t
  BY <1>1
<1>3. y \in 0..(Modulus - 1)
  BY <1>2, Constants, ModBounds
<1>4. y + s = s + y
  BY <1>1, <1>3, Constants
<1>5. Distance(t, s) = y /\ At(s, Distance(t, s)) = (s + y) % Modulus
  BY DEF Distance, At
<1> HIDE DEF x
<1>6. ((x % Modulus) + s) % Modulus = (x + s) % Modulus
  BY <1>1, <1>2, Constants, ModShift
<1>7. t % Modulus = t
  BY Constants, ModSmall DEF Sequences
<1> QED BY <1>2, <1>3, <1>4, <1>5, <1>6, <1>7

\* Places less than a ring apart lie in different slots, also where the
\* sequence wraps: the capacity divides the modulus.
LEMMA SlotsDiffer ==
  ASSUME NEW s \in Sequences, NEW i \in Int, NEW j \in Int,
         i < j, j < i + Capacity
  PROVE  /\ SlotAt(At(s, i)) # SlotAt(At(s, j))
<1> DEFINE c == Capacity
           k == Modulus \div Capacity
<1>1. c \in Nat \ {0} /\ k \in Int /\ Modulus = k * c
  BY SequenceAssumption, Constants, ModBounds
<1> HIDE DEF c, k
<1>2. ASSUME NEW x \in Int
      PROVE  (x % Modulus) % c = x % c
  <2> DEFINE q == x \div Modulus
             y == x % Modulus
             p == y \div c
             t == y % c
  <2>1. q \in Int /\ y \in Int /\ x = q * Modulus + y
    BY Constants, ModBounds
  <2>2. p \in Int /\ t \in 0..(c - 1) /\ y = p * c + t
    BY <1>1, <2>1, ModBounds
  <2> HIDE DEF q, y, p, t
  <2>3. q * Modulus = (q * k) * c
    BY <1>1, <2>1
  <2> DEFINE u == q * k
  <2>4. u \in Int
    BY <1>1, <2>1
  <2> HIDE DEF u
  <2>5. x = (u + p) * c + t
    BY <2>1, <2>2, <2>3, <2>4, <1>1 DEF u
  <2>6. x % c = t
    BY <2>5, <2>4, <2>2, <1>1, ModUnique
  <2> QED BY <2>6 DEF y, t
<1>3. s \in Int
  BY DEF Sequences
<1> DEFINE a == s + i
           b == s + j
<1>4. a \in Int /\ b \in Int /\ a < b /\ b < a + c
  BY <1>3, Constants DEF c
<1>5. SlotAt(At(s, i)) = a % c /\ SlotAt(At(s, j)) = b % c
  BY <1>2, <1>4 DEF SlotAt, At, c
<1> HIDE DEF a, b
<1> DEFINE p == a \div c
           q == b \div c
           t == a % c
           u == b % c
<1>6. p \in Int /\ q \in Int /\ t \in Int /\ u \in Int
      /\ a = p * c + t /\ b = q * c + u
  BY <1>1, <1>4, ModBounds
<1> HIDE DEF p, q, t, u
<1>7. t # u
  <2>1. SUFFICES ASSUME t = u PROVE FALSE
    OBVIOUS
  <2>2. b - a = (q - p) * c
    BY <2>1, <1>6, <1>1
  <2>3. q - p <= 0 => (q - p) * c <= 0
    BY <1>6, <1>1
  <2>4. q - p >= 1 => (q - p) * c >= c
    BY <1>6, <1>1
  <2> QED BY <2>2, <2>3, <2>4, <1>4, <1>6, <1>1
<1> QED BY <1>5, <1>7 DEF t, u

\* A base moved forward, not beyond the sequence, is as much nearer to it.
LEMMA DistanceShift ==
  ASSUME NEW s \in Sequences, NEW t \in Sequences,
         NEW i \in 0..Distance(t, s)
  PROVE  Distance(t, At(s, i)) = Distance(t, s) - i
<1> DEFINE d == Distance(t, s)
<1>1. d \in 0..(Modulus - 1) /\ At(s, d) = t
  BY AtDistance
<1> HIDE DEF d
<1>2. i \in Int /\ s \in Int /\ d - i \in 0..(Modulus - 1)
  BY <1>1, Constants DEF d, Sequences
<1>3. At(s, i) \in Sequences
  BY <1>2, AtTypes
<1>4. At(At(s, i), d - i) = At(s, i + (d - i))
  BY <1>2, AtAt
<1>5. i + (d - i) = d
  BY <1>1, <1>2, Constants
<1>6. Distance(At(At(s, i), d - i), At(s, i)) = d - i
  BY <1>2, <1>3, DistanceOfAt
<1> QED BY <1>1, <1>4, <1>5, <1>6 DEF d

\* Two sequences equally far from a base are one.
LEMMA DistanceInjective ==
  ASSUME NEW s \in Sequences, NEW t \in Sequences, NEW u \in Sequences,
         Distance(t, s) = Distance(u, s)
  PROVE  t = u
BY AtDistance

\* next() is the offset one.
LEMMA FollowingIsAt ==
  ASSUME NEW s \in Sequences
  PROVE  Following(s) = At(s, 1) /\ Following(s) \in Sequences
<1>1. s \in Int
  BY DEF Sequences
<1> QED BY <1>1, AtTypes DEF Following, At

\* The next sequence is one further away, short of a whole turn.
LEMMA DistanceOfFollowing ==
  ASSUME NEW s \in Sequences, NEW t \in Sequences,
         Distance(t, s) < Modulus - 1
  PROVE  Distance(Following(t), s) = Distance(t, s) + 1
<1> DEFINE d == Distance(t, s)
<1>1. d \in 0..(Modulus - 1) /\ At(s, d) = t
  BY AtDistance
<1>2. d < Modulus - 1
  OBVIOUS
<1> HIDE DEF d
<1>3. d \in Int /\ s \in Int /\ d + 1 \in 0..(Modulus - 1)
  BY <1>1, <1>2, Constants DEF Sequences
<1>4. Following(t) = At(At(s, d), 1)
  BY <1>1, FollowingIsAt
<1>5. At(At(s, d), 1) = At(s, d + 1)
  BY <1>3, AtAt
<1>6. Distance(At(s, d + 1), s) = d + 1
  BY <1>3, DistanceOfAt
<1> QED BY <1>4, <1>5, <1>6 DEF d

\* The slot of a sequence is in the ring.
LEMMA SlotTypes ==
  ASSUME NEW s \in Sequences
  PROVE  SlotAt(s) \in 0..(Capacity - 1)
<1>1. s \in Int
  BY DEF Sequences
<1> QED BY <1>1, Constants, ModBounds DEF SlotAt

-----------------------------------------------------------------------------
(* The invariant.                                                           *)

\* Published and unread; read and not yet reclaimed; with the slot that is
\* filled and not published.
Pending == Distance(written, read)
Held == Distance(read, reclaimed)
Filled == IF writer = "publish" THEN Pending + 1 ELSE Pending

\* What the page reads i-th from now; the worker has a reply in hand.
Entry(i) == slots[SlotAt(At(read, i - 1))]
Holding == writer \notin {"idle", "notify"}

\* The words agree with what the threads keep for themselves, and what is
\* published, held and about to be published fits the ring.
RingOK ==
  /\ acknowledged = read
  /\ closing \in {"open", "flagged"} => word = written
  /\ Pending + Held <= Capacity
  /\ writer \in {"write", "send", "publish"} => Pending + Held < Capacity

\* The reply in hand is the last one begun; once it was written its slot holds
\* it until it is published.
WriterOK ==
  /\ Holding => reply \in Replies /\ reply.id = attempts
  /\ ~Holding => reply = NoReply
  /\ writer = "send" => reply.kind = "control"
  /\ writer \in {"send", "publish"} => slots[SlotAt(written)] = reply

\* Unread replies are in the order they were begun.
OrderOK ==
  \A i \in 1..Pending :
    /\ Entry(i) \in Replies
    /\ Entry(i).id <= attempts
    /\ Holding => Entry(i).id < attempts
    /\ \A j \in 1..Pending : i < j => Entry(i).id < Entry(j).id

\* Where the loop is concerned with the next slot.
Reading == {"slot", "copy", "control", "take", "acknowledge"}

\* What the loop knows where it stands: a slot to read, the metadata it read
\* there, and a control that is there exactly when it is not waited for.
ReaderOK ==
  /\ closed => reader \in {"waiting", "woken", "control", "yielded", "returned"}
  /\ ~closed => reader # "returned"
  /\ reader # "failed" /\ ~rejected
  /\ ~closed /\ reader \in Reading => Pending >= 1
  /\ ~closed /\ reader \in Reading \ {"slot"} => response = Entry(1)
  /\ reader = "copy" => response.kind = "shared"
  /\ ~closed /\ reader \in {"control", "take"} => response.kind = "control"
  /\ reader = "receive" => response \in Replies
  /\ control_ready # "unset" <=> reader = "control"
  /\ reader = "take" => HasNative
  /\ ~closed /\ control_ready = "fired" => HasNative
  /\ ~closed /\ control_ready = "armed" => ~HasNative

\* The first place whose control the loop has not taken yet.
First == IF reader = "acknowledge" THEN 2 ELSE 1

\* The place a control message is for.
Place(e) == Distance(e.sequence, read)

Carried(e, i) ==
  Place(e) = i /\ Entry(i) = [kind |-> "control", id |-> e.id]

\* The controls of the ring and the messages underway are the same, and the
\* messages keep the order of the ring.
ControlsOK ==
  ~closed =>
    /\ \A e \in native : \E i \in First..Filled : Carried(e, i)
    /\ \A k \in DOMAIN envelopes :
         \E i \in First..Filled : Carried(envelopes[k], i)
    /\ \A k, l \in DOMAIN envelopes :
         k < l => Place(envelopes[k]) < Place(envelopes[l])
    /\ \A e \in native, k \in DOMAIN envelopes : Place(e) < Place(envelopes[k])
    /\ \A i \in First..Filled : Entry(i).kind = "control" =>
         \/ \E e \in native : Place(e) = i
         \/ \E k \in DOMAIN envelopes : Place(envelopes[k]) = i

\* How far a release is from being reclaimed.
Age(r) == Distance(r.sequence, reclaimed)

Leased(r, i) ==
  Age(r) = Held + i /\ Entry(i) = [kind |-> "shared", id |-> r.lease]

\* A registered release is of an unread shared reply, or of a slot given back
\* whose lease no unread reply uses; nothing registered was given back before.
LeasesOK ==
  /\ \A r \in releases :
       /\ \/ \E i \in 1..Filled : Leased(r, i)
          \/ Age(r) \in 1..Held /\ \A i \in 1..Pending : Entry(i).id # r.lease
       /\ recycles[r.lease] = 0 /\ r.lease <= attempts
       /\ Age(r) <= Held + Pending /\ Holding => r.lease < attempts
  /\ \A i \in 1..Filled : Entry(i).kind = "shared" =>
       \E r \in releases : Leased(r, i)
  /\ \A n \in Ordinals :
       /\ recycles[n] <= 1
       /\ recycles[n] = 1 => \A i \in 1..Pending : Entry(i).id # n
       /\ n > attempts \/ (Holding /\ n = attempts) => recycles[n] = 0
  /\ NoLeaseLeaked

-----------------------------------------------------------------------------
(* How each kind of step moves the places.                                  *)

\* Where the three sequences stand from each other.
LEMMA Positions ==
  ASSUME TypeOK, RingOK
  PROVE  /\ Pending \in Nat /\ Held \in Nat /\ Filled \in Nat
         /\ Pending <= Filled /\ Filled <= Pending + 1
         /\ Held + Filled <= Capacity
         /\ written = At(read, Pending) /\ read = At(reclaimed, Held)
         /\ Distance(written, reclaimed) = Held + Pending
<1>1. read \in Sequences /\ written \in Sequences /\ reclaimed \in Sequences
  BY DEF TypeOK
<1>2. /\ Pending \in 0..(Modulus - 1) /\ written = At(read, Pending)
      /\ Held \in 0..(Modulus - 1) /\ read = At(reclaimed, Held)
  BY <1>1, AtDistance DEF Pending, Held
<1>3. Pending \in Nat /\ Held \in Nat /\ Pending + Held <= Capacity
  BY <1>2, Constants DEF RingOK
<1>4. /\ Filled \in Nat /\ Pending <= Filled /\ Filled <= Pending + 1
      /\ Held + Filled <= Capacity
  BY <1>3, Constants DEF Filled, RingOK
<1>5. Distance(written, reclaimed) = Held + Pending
  <2>1. written = At(At(reclaimed, Held), Pending)
    BY <1>2
  <2>2. reclaimed \in Int /\ Held \in Int /\ Pending \in Int
    BY <1>1, <1>3 DEF Sequences
  <2>3. written = At(reclaimed, Held + Pending)
    BY <2>1, <2>2, AtAt
  <2>4. Held + Pending \in 0..(Modulus - 1)
    BY <1>3, Constants
  <2> QED BY <2>3, <2>4, <1>1, DistanceOfAt
<1> QED BY <1>2, <1>3, <1>4, <1>5

\* Nothing moves while the ring and the three sequences are left alone.
LEMMA Still ==
  ASSUME UNCHANGED << slots, written, read, reclaimed >>
  PROVE  /\ Pending' = Pending /\ Held' = Held
         /\ \A i : Entry(i)' = Entry(i)
         /\ \A e : Place(e)' = Place(e)
         /\ \A r : Age(r)' = Age(r)
BY DEF Pending, Held, Entry, Place, Age

\* reclaim(): nothing is held any more, and what is not acknowledged is as much
\* nearer.
LEMMA AfterReclaim ==
  ASSUME TypeOK, RingOK, Reclaim, UNCHANGED << slots, written, read >>
  PROVE  /\ Pending' = Pending /\ Held' = 0
         /\ \A i : Entry(i)' = Entry(i)
         /\ \A e : Place(e)' = Place(e)
         /\ \A r \in releases :
              /\ Acknowledged(r) <=> Age(r) \in 1..Held
              /\ Age(r) > Held => Age(r)' = Age(r) - Held
<1>1. /\ reclaimed' = read /\ read \in Sequences /\ reclaimed \in Sequences
      /\ Distance(acknowledged, reclaimed) = Held
  BY DEF TypeOK, RingOK, Reclaim, Held
<1>2. Pending' = Pending /\ (\A i : Entry(i)' = Entry(i))
      /\ (\A e : Place(e)' = Place(e))
  BY DEF Pending, Entry, Place
<1>3. Held' = 0
  <2>1. read = At(read, 0) /\ 0 \in 0..(Modulus - 1)
    BY <1>1, AtZero, Constants
  <2>2. Distance(read, read) = 0
    BY <2>1, <1>1, DistanceOfAt
  <2> QED BY <1>1, <2>2 DEF Held
<1>4. ASSUME NEW r \in releases
      PROVE  /\ Acknowledged(r) <=> Age(r) \in 1..Held
             /\ Age(r) > Held => Age(r)' = Age(r) - Held
  <2>1. r.sequence \in Sequences
    BY DEF TypeOK
  <2>2. Acknowledged(r) <=> Age(r) \in 1..Held
    BY <1>1 DEF Acknowledged, Age
  <2>3. ASSUME Age(r) > Held
        PROVE  Age(r)' = Age(r) - Held
    <3>1. Held \in 0..Age(r) /\ read = At(reclaimed, Held)
      BY <2>3, <2>1, <1>1, Positions, AtDistance, Constants DEF Age
    <3>2. Distance(r.sequence, At(reclaimed, Held))
            = Distance(r.sequence, reclaimed) - Held
      BY <3>1, <2>1, <1>1, DistanceShift DEF Age
    <3> QED BY <3>1, <3>2, <1>1 DEF Age
  <2> QED BY <2>2, <2>3
<1> QED BY <1>2, <1>3, <1>4

\* The slot being filled is none of the unread ones.
LEMMA AfterFill ==
  ASSUME TypeOK, RingOK, Pending + Held < Capacity,
         slots' = [slots EXCEPT ![SlotAt(written)] = reply],
         UNCHANGED << written, read, reclaimed >>
  PROVE  /\ Pending' = Pending /\ Held' = Held
         /\ \A i \in 1..Pending : Entry(i)' = Entry(i)
         /\ \A i : i = Pending + 1 => Entry(i)' = reply
         /\ slots'[SlotAt(written)] = reply
         /\ \A e : Place(e)' = Place(e)
         /\ \A r : Age(r)' = Age(r)
<1>1. Pending' = Pending /\ Held' = Held /\ (\A e : Place(e)' = Place(e))
      /\ (\A r : Age(r)' = Age(r))
  BY DEF Pending, Held, Place, Age
<1>2. /\ read \in Sequences /\ SlotAt(written) \in 0..(Capacity - 1)
      /\ slots'[SlotAt(written)] = reply
  BY SlotTypes DEF TypeOK
<1>3. ASSUME NEW i \in 1..Pending
      PROVE  Entry(i)' = Entry(i)
  <2>1. i - 1 \in Int /\ Pending \in Int /\ i - 1 < Pending
        /\ Pending < i - 1 + Capacity
    BY Positions, Constants
  <2> DEFINE k == i - 1
  <2>2. k \in Int /\ k < Pending /\ Pending < k + Capacity
    BY <2>1
  <2> HIDE DEF k
  <2>3. SlotAt(At(read, k)) # SlotAt(At(read, Pending))
    BY <2>1, <2>2, <1>2, SlotsDiffer
  <2>4. SlotAt(At(read, i - 1)) # SlotAt(written)
    BY <2>3, Positions DEF k
  <2> QED BY <2>4, <1>2 DEF Entry, TypeOK
<1>4. ASSUME NEW i, i = Pending + 1
      PROVE  Entry(i)' = reply
  <2>1. i - 1 = Pending
    BY <1>4, Positions
  <2>2. SlotAt(At(read, i - 1)) = SlotAt(written)
    BY <2>1, Positions
  <2> QED BY <2>2, <1>2 DEF Entry
<1> QED BY <1>1, <1>2, <1>3, <1>4

\* Publication adds a place.
LEMMA AfterPublish ==
  ASSUME TypeOK, RingOK, Pending + Held < Capacity,
         written' = Following(written), UNCHANGED << slots, read, reclaimed >>
  PROVE  /\ Pending' = Pending + 1 /\ Held' = Held
         /\ \A i : Entry(i)' = Entry(i)
         /\ \A e : Place(e)' = Place(e)
         /\ \A r : Age(r)' = Age(r)
<1>1. Held' = Held /\ (\A i : Entry(i)' = Entry(i))
      /\ (\A e : Place(e)' = Place(e)) /\ (\A r : Age(r)' = Age(r))
  BY DEF Held, Entry, Place, Age
<1>2. read \in Sequences /\ written \in Sequences
      /\ Distance(written, read) < Modulus - 1
  BY Positions, Constants DEF TypeOK, Pending
<1>3. Distance(Following(written), read) = Distance(written, read) + 1
  BY <1>2, DistanceOfFollowing
<1> QED BY <1>1, <1>3 DEF Pending

\* Acknowledgement moves every place of the page by one.
LEMMA AfterAcknowledge ==
  ASSUME TypeOK, RingOK, Pending >= 1, read' = Following(read),
         UNCHANGED << slots, written, reclaimed >>
  PROVE  /\ Pending' = Pending - 1 /\ Held' = Held + 1
         /\ \A i \in Int : Entry(i)' = Entry(i + 1)
         /\ \A s \in Sequences : Distance(s, read) >= 1 =>
              Distance(s, read)' = Distance(s, read) - 1
         /\ \A r : Age(r)' = Age(r)
<1>1. /\ read \in Sequences /\ written \in Sequences
      /\ reclaimed \in Sequences /\ read \in Int
      /\ read' = At(read, 1)
  BY FollowingIsAt DEF TypeOK, Sequences
<1>2. \A r : Age(r)' = Age(r)
  BY DEF Age
<1>3. ASSUME NEW s \in Sequences, Distance(s, read) >= 1
      PROVE  Distance(s, read)' = Distance(s, read) - 1
  <2>1. Distance(s, read) \in Int /\ 1 \in 0..Distance(s, read)
    BY <1>1, <1>3, AtDistance, Constants
  <2>2. Distance(s, At(read, 1)) = Distance(s, read) - 1
    BY <2>1, <1>1, DistanceShift
  <2> QED BY <2>2, <1>1
<1>4. Pending' = Pending - 1
  BY <1>1, <1>3 DEF Pending
<1>5. Held' = Held + 1
  <2>1. Distance(read, reclaimed) < Modulus - 1
    BY Positions, Constants DEF Held
  <2>2. Distance(Following(read), reclaimed) = Distance(read, reclaimed) + 1
    BY <2>1, <1>1, DistanceOfFollowing
  <2> QED BY <2>2 DEF Held
<1>6. ASSUME NEW i \in Int
      PROVE  Entry(i)' = Entry(i + 1)
  <2> DEFINE k == i - 1
  <2>1. k \in Int /\ 1 + k = i + 1 - 1
    OBVIOUS
  <2> HIDE DEF k
  <2>2. At(At(read, 1), k) = At(read, 1 + k)
    BY <2>1, <1>1, AtAt
  <2>3. At(read', i - 1) = At(read, i + 1 - 1)
    BY <2>1, <2>2, <1>1 DEF k
  <2> QED BY <2>3 DEF Entry
<1> QED BY <1>2, <1>3, <1>4, <1>5, <1>6

-----------------------------------------------------------------------------

(* The invariant is inductive.                                              *)

Parts == RingOK /\ WriterOK /\ OrderOK /\ ReaderOK /\ ControlsOK /\ LeasesOK
IInv == TypeOK /\ Parts

\* The empty mailbox.
LEMMA Initially == Init => IInv
<1> SUFFICES ASSUME Init PROVE IInv
  OBVIOUS
<1>1. 0 \in Sequences /\ Distance(0, 0) = 0
  <2>1. 0 \in 0..(Modulus - 1)
    BY Constants
  <2>2. At(0, 0) = 0 /\ Distance(At(0, 0), 0) = 0
    BY <2>1, AtZero, DistanceOfAt DEF Sequences
  <2> QED BY <2>1, <2>2 DEF Sequences
<1>2. Pending = 0 /\ Held = 0 /\ Filled = 0
  BY <1>1 DEF Init, Pending, Held, Filled
<1>3. TypeOK
  <2>1. slots \in [0..(Capacity - 1) -> Replies \cup {NoReply}]
        /\ recycles \in [Ordinals -> Nat] /\ attempts \in 0..MaxReplies
    BY Constants DEF Init
  <2>2. envelopes \in Seq([sequence : Sequences, id : Ordinals])
    BY EmptySeq DEF Init
  <2> QED BY <1>1, <2>1, <2>2 DEF Init, TypeOK
<1>4. RingOK /\ WriterOK /\ OrderOK
  BY <1>2, Constants DEF Init, RingOK, WriterOK, OrderOK, Holding
<1>5. ReaderOK
  BY DEF Init, ReaderOK, closed, Reading
<1>6. ControlsOK
  <2>1. DOMAIN envelopes = {}
    BY DEF Init
  <2> QED BY <1>2, <2>1 DEF Init, ControlsOK, First
<1>7. LeasesOK
  BY <1>2 DEF Init, LeasesOK, NoLeaseLeaked
<1> QED BY <1>3, <1>4, <1>5, <1>6, <1>7 DEF IInv, Parts

\* Every step keeps the types; a reply written or sent is a reply in hand.
LEMMA TypeStep ==
  ASSUME IInv, [Next]_vars
  PROVE  TypeOK'
<1>1. TypeOK /\ WriterOK
  BY DEF IInv, Parts
<1>2. Following(word) \in Sequences /\ Following(written) \in Sequences
      /\ Following(read) \in Sequences
  BY <1>1, FollowingIsAt DEF TypeOK
<1>3. SlotAt(written) \in 0..(Capacity - 1) /\ SlotAt(read) \in 0..(Capacity - 1)
  BY <1>1, SlotTypes DEF TypeOK
<1>4. NoReply \in Replies \cup {NoReply}
  OBVIOUS
<1>5. ASSUME Reclaim
      PROVE  /\ recycles' \in [Ordinals -> Nat]
             /\ releases' \subseteq [sequence : Sequences, lease : Ordinals]
             /\ reclaimed' \in Sequences
  BY <1>1, <1>5 DEF TypeOK, Reclaim
<1>6. ASSUME ReturnLease, reply \in Replies
      PROVE  recycles' \in [Ordinals -> Nat]
  BY <1>1, <1>6 DEF TypeOK, ReturnLease, Replies
<1>7. CASE DispatchReclaim
  BY <1>1, <1>5, <1>7
     DEF TypeOK, DispatchReclaim, mailboxVars, readerVars
<1>8. ASSUME NEW kind \in Kinds, BeginReply(kind)
      PROVE  TypeOK'
  <2>1. attempts' \in 0..MaxReplies /\ attempts + 1 \in Ordinals
    BY <1>1, <1>8, Constants DEF TypeOK, BeginReply, Ordinals
  <2>2. reply' \in Replies
    BY <2>1, <1>8 DEF BeginReply, Replies
  <2> QED BY <1>1, <1>5, <1>8, <2>1, <2>2
          DEF TypeOK, BeginReply, mailboxVars, readerVars
<1>9. CASE RefuseReply
  <2>1. reply \in Replies
    BY <1>1, <1>9 DEF WriterOK, Holding, RefuseReply
  <2> QED BY <1>1, <1>4, <1>6, <1>9, <2>1
          DEF TypeOK, RefuseReply, mailboxVars, readerVars
<1>10. CASE ReserveSlot
  BY <1>1, <1>10
     DEF TypeOK, ReserveSlot, mailboxVars, readerVars, leaseVars
<1>11. CASE WriteSlot
  <2>1. reply \in Replies
    BY <1>1, <1>11 DEF WriterOK, Holding, WriteSlot
  <2>2. slots' \in [0..(Capacity - 1) -> Replies \cup {NoReply}]
    BY <1>1, <1>3, <1>11, <2>1 DEF TypeOK, WriteSlot
  <2>3. [sequence |-> Following(written), lease |-> reply.id]
          \in [sequence : Sequences, lease : Ordinals]
    BY <2>1, <1>2 DEF Replies
  <2>4. releases' \subseteq [sequence : Sequences, lease : Ordinals]
        /\ writer' \in {"send", "publish"}
    BY <1>1, <1>11, <2>3 DEF TypeOK, WriteSlot
  <2> QED BY <1>1, <1>11, <2>2, <2>4
          DEF TypeOK, WriteSlot, readerVars, leaseVars
<1>12. CASE RejectReply
  <2>1. reply \in Replies
    BY <1>1, <1>12 DEF WriterOK, Holding, RejectReply
  <2>2. slots' \in [0..(Capacity - 1) -> Replies \cup {NoReply}]
    BY <1>1, <1>3, <1>12, <2>1 DEF TypeOK, RejectReply
  <2> QED BY <1>1, <1>4, <1>6, <1>12, <2>1, <2>2
          DEF TypeOK, RejectReply, readerVars
<1>13. CASE SendEnvelope
  <2>1. reply \in Replies
    BY <1>1, <1>13 DEF WriterOK, Holding, SendEnvelope
  <2>2. [sequence |-> Following(written), id |-> reply.id]
          \in [sequence : Sequences, id : Ordinals]
    BY <2>1, <1>2 DEF Replies
  <2>3. envelopes' \in Seq([sequence : Sequences, id : Ordinals])
    BY <1>1, <1>13, <2>2, AppendProperties DEF TypeOK, SendEnvelope
  <2> QED BY <1>1, <1>13, <2>3
          DEF TypeOK, SendEnvelope, mailboxVars, readerVars, leaseVars
<1>14. CASE PublishSlot
  BY <1>1, <1>2, <1>4, <1>14
     DEF TypeOK, PublishSlot, readerVars, leaseVars
<1>15. CASE NotifyReader
  BY <1>1, <1>15
     DEF TypeOK, NotifyReader, WakeWaiter, mailboxVars, leaseVars
<1>16. CASE LoadWord
  BY <1>1, <1>16
     DEF TypeOK, LoadWord, mailboxVars, writerVars, leaseVars
<1>17. CASE WaitAsync
  BY <1>1, <1>17
     DEF TypeOK, WaitAsync, mailboxVars, writerVars, leaseVars
<1>18. CASE ReadSlot
  BY <1>1, <1>3, <1>18
     DEF TypeOK, ReadSlot, mailboxVars, writerVars, leaseVars
<1>19. CASE CopyLease
  <2>1. response \in Replies
    BY <1>19, <1>1 DEF TypeOK, CopyLease, IInv, Parts, ReaderOK, Replies, NoReply
  <2> QED BY <1>1, <1>19, <2>1
          DEF TypeOK, CopyLease, mailboxVars, writerVars, Replies
<1>20. CASE TakeControl
  BY <1>1, <1>20
     DEF TypeOK, TakeControl, mailboxVars, writerVars, leaseVars
<1>21. CASE AcknowledgeSlot
  BY <1>1, <1>2, <1>21
     DEF TypeOK, AcknowledgeSlot, writerVars, leaseVars
<1>22. CASE Receive
  BY <1>1, <1>4, <1>22
     DEF TypeOK, Receive, mailboxVars, writerVars, leaseVars
<1>23. CASE Accept
  <2>1. /\ envelopes' \in Seq([sequence : Sequences, id : Ordinals])
        /\ Head(envelopes) \in [sequence : Sequences, id : Ordinals]
    BY <1>1, <1>23, HeadTailProperties DEF TypeOK, Accept
  <2>2. /\ native' \subseteq [sequence : Sequences, id : Ordinals]
        /\ control_ready' \in {"unset", "armed", "fired"}
        /\ rejected' \in BOOLEAN
    BY <1>1, <1>23, <2>1 DEF TypeOK, Accept
  <2> QED BY <1>1, <1>23, <2>1, <2>2
          DEF TypeOK, Accept, mailboxVars, writerVars, leaseVars
<1>24. CASE CloseFlag
  BY <1>1, <1>24 DEF TypeOK, CloseFlag, writerVars, leaseVars
<1>25. CASE CloseAdd
  BY <1>1, <1>2, <1>25
     DEF TypeOK, CloseAdd, writerVars, readerVars, leaseVars
<1>26. CASE CloseNotify
  BY <1>1, <1>26
     DEF TypeOK, CloseNotify, WakeWaiter, FireControlReady, mailboxVars,
         writerVars, leaseVars
<1>27. CASE UNCHANGED vars
  BY <1>1, <1>27
     DEF TypeOK, vars, mailboxVars, writerVars, readerVars, leaseVars
<1> QED BY <1>7, <1>8, <1>9, <1>10, <1>11, <1>12, <1>13, <1>14, <1>15, <1>16,
           <1>17, <1>18, <1>19, <1>20, <1>21, <1>22, <1>23, <1>24, <1>25,
           <1>26, <1>27
        DEF Next, WorkerStep, ReaderStep, CloseStep

\* Every step keeps the ring within its capacity.
LEMMA RingStep ==
  ASSUME IInv, [Next]_vars
  PROVE  RingOK'
<1>1. TypeOK /\ RingOK /\ ReaderOK
  BY DEF IInv, Parts
<1>2. Pending \in Nat /\ Held \in Nat /\ Distance(written, reclaimed) = Held + Pending
  BY <1>1, Positions
<1>3. CASE UNCHANGED << acknowledged, read, closing, word, written, reclaimed,
                        writer >>
  BY <1>1, <1>3 DEF RingOK, Pending, Held
<1>4. ASSUME Reclaim, writer' \in {"idle", "reserve"},
             UNCHANGED << slots, written, read, acknowledged, closing, word >>
      PROVE  RingOK'
  <2>1. Pending' = Pending /\ Held' = 0
    BY <1>1, <1>4, AfterReclaim
  <2>2. Pending + Held <= Capacity
    BY <1>1 DEF RingOK
  <2> QED BY <1>1, <1>2, <1>4, <2>1, <2>2, Constants DEF RingOK
<1>5. CASE DispatchReclaim
  BY <1>4, <1>5 DEF DispatchReclaim, mailboxVars, readerVars
<1>6. ASSUME NEW kind \in Kinds, BeginReply(kind)
      PROVE  RingOK'
  BY <1>4, <1>6 DEF BeginReply, mailboxVars, readerVars
<1>7. CASE RefuseReply
  BY <1>1, <1>7 DEF RefuseReply, RingOK, Pending, Held, mailboxVars, readerVars
<1>8. CASE ReserveSlot
  BY <1>1, <1>2, <1>8, Constants
     DEF ReserveSlot, Full, RingOK, Pending, Held, mailboxVars, readerVars
<1>9. CASE WriteSlot
  BY <1>1, <1>9 DEF WriteSlot, RingOK, Pending, Held, readerVars
<1>10. CASE RejectReply
  BY <1>1, <1>10 DEF RejectReply, RingOK, Pending, Held, readerVars
<1>11. CASE SendEnvelope
  BY <1>1, <1>11
     DEF SendEnvelope, RingOK, Pending, Held, mailboxVars, readerVars
<1>12. CASE PublishSlot
  <2>1. Pending + Held < Capacity
    BY <1>1, <1>12 DEF PublishSlot, RingOK
  <2>2. Pending' = Pending + 1 /\ Held' = Held
    BY <1>1, <1>12, <2>1, AfterPublish DEF PublishSlot, readerVars
  <2> QED BY <1>1, <1>2, <1>12, <2>1, <2>2, Constants
          DEF PublishSlot, RingOK, readerVars
<1>13. CASE NotifyReader
  BY <1>1, <1>13 DEF NotifyReader, RingOK, Pending, Held, mailboxVars
<1>14. CASE AcknowledgeSlot
  <2>1. Pending >= 1
    BY <1>1, <1>14 DEF AcknowledgeSlot, ReaderOK, Reading
  <2>2. Pending' = Pending - 1 /\ Held' = Held + 1
    BY <1>1, <1>14, <2>1, AfterAcknowledge DEF AcknowledgeSlot, writerVars
  <2> QED BY <1>1, <1>2, <1>14, <2>1, <2>2, Constants
          DEF AcknowledgeSlot, RingOK, writerVars
<1>15. CASE CloseFlag
  BY <1>1, <1>15 DEF CloseFlag, RingOK, Pending, Held, writerVars
<1>16. CASE CloseAdd
  BY <1>1, <1>16 DEF CloseAdd, RingOK, Pending, Held, writerVars, readerVars
<1>17. CASE CloseNotify
  BY <1>1, <1>17 DEF CloseNotify, RingOK, Pending, Held, mailboxVars, writerVars
<1>18. CASE LoadWord \/ WaitAsync \/ ReadSlot \/ CopyLease \/ TakeControl
            \/ Receive \/ Accept \/ UNCHANGED vars
  BY <1>3, <1>18
     DEF LoadWord, WaitAsync, ReadSlot, CopyLease, TakeControl, Receive,
         Accept, vars, mailboxVars, writerVars, readerVars
<1> QED BY <1>5, <1>6, <1>7, <1>8, <1>9, <1>10, <1>11, <1>12, <1>13, <1>14,
           <1>15, <1>16, <1>17, <1>18
        DEF Next, WorkerStep, ReaderStep, CloseStep

\* Every step keeps what the worker has in hand.
LEMMA WriterStep ==
  ASSUME IInv, [Next]_vars
  PROVE  WriterOK'
<1>1. TypeOK /\ RingOK /\ WriterOK
  BY DEF IInv, Parts
<1>2. CASE UNCHANGED << slots, written, reply, writer, attempts >>
  BY <1>1, <1>2 DEF WriterOK, Holding
<1>3. ASSUME NEW kind \in Kinds, BeginReply(kind)
      PROVE  WriterOK'
  <2>1. attempts' = attempts + 1 /\ attempts + 1 \in Ordinals
    BY <1>1, <1>3, Constants DEF TypeOK, BeginReply, Ordinals
  <2>2. reply' \in Replies /\ reply'.id = attempts' /\ writer' = "reserve"
    BY <2>1, <1>3 DEF BeginReply, Replies
  <2> QED BY <2>2 DEF WriterOK, Holding
<1>4. CASE RefuseReply
  BY <1>4 DEF RefuseReply, WriterOK, Holding
<1>5. CASE ReserveSlot
  BY <1>1, <1>5 DEF ReserveSlot, WriterOK, Holding, mailboxVars
<1>6. CASE WriteSlot
  <2>1. slots'[SlotAt(written)] = reply
    BY <1>1, <1>6, SlotTypes DEF WriteSlot, TypeOK
  <2>2. writer' \in {"send", "publish"}
        /\ (writer' = "send" => reply.kind = "control")
    BY <1>6 DEF WriteSlot
  <2> QED BY <1>1, <1>6, <2>1, <2>2 DEF WriteSlot, WriterOK, Holding
<1>7. CASE RejectReply
  BY <1>7 DEF RejectReply, WriterOK, Holding
<1>8. CASE SendEnvelope
  BY <1>1, <1>8 DEF SendEnvelope, WriterOK, Holding, mailboxVars
<1>9. CASE PublishSlot
  BY <1>9 DEF PublishSlot, WriterOK, Holding
<1>10. CASE NotifyReader
  BY <1>1, <1>10 DEF NotifyReader, WriterOK, Holding
<1>11. CASE DispatchReclaim \/ ReaderStep \/ Accept \/ CloseFlag \/ CloseStep
            \/ UNCHANGED vars
  BY <1>2, <1>11
     DEF DispatchReclaim, ReaderStep, CloseStep, LoadWord, WaitAsync, ReadSlot,
         CopyLease, TakeControl, AcknowledgeSlot, Receive, Accept, CloseFlag,
         CloseAdd, CloseNotify, vars, mailboxVars, writerVars, readerVars
<1> QED BY <1>3, <1>4, <1>5, <1>6, <1>7, <1>8, <1>9, <1>10, <1>11
        DEF Next, WorkerStep

\* Every step keeps the unread replies in order.
LEMMA OrderStep ==
  ASSUME IInv, [Next]_vars
  PROVE  OrderOK'
<1>1. TypeOK /\ RingOK /\ WriterOK /\ OrderOK /\ ReaderOK
  BY DEF IInv, Parts
<1>2. Pending \in Nat /\ attempts \in Nat
  BY <1>1, Positions DEF TypeOK
<1>3. ASSUME UNCHANGED << slots, written, read, attempts >>, Holding' => Holding
      PROVE  OrderOK'
  <2>1. Pending' = Pending /\ \A i : Entry(i)' = Entry(i)
    BY <1>3 DEF Pending, Entry
  <2> QED BY <1>1, <1>3, <2>1 DEF OrderOK
<1>4. ASSUME slots' = [slots EXCEPT ![SlotAt(written)] = reply], Holding,
             writer = "write", UNCHANGED << written, read, reclaimed, attempts >>
      PROVE  OrderOK'
  <2>1. Pending' = Pending /\ \A i \in 1..Pending : Entry(i)' = Entry(i)
    BY <1>1, <1>4, AfterFill DEF RingOK
  <2> QED BY <1>1, <1>4, <2>1 DEF OrderOK
<1>5. ASSUME NEW kind \in Kinds, BeginReply(kind)
      PROVE  OrderOK'
  <2>1. Pending' = Pending /\ (\A i : Entry(i)' = Entry(i))
        /\ attempts' = attempts + 1
    BY <1>5 DEF BeginReply, Pending, Entry, mailboxVars, readerVars
  <2>2. \A i \in 1..Pending : Entry(i).id \in Int
    BY <1>1 DEF OrderOK, Replies, Ordinals
  <2> QED BY <1>1, <1>2, <2>1, <2>2 DEF OrderOK
<1>6. CASE RefuseReply
  BY <1>3, <1>6 DEF RefuseReply, Holding, mailboxVars, readerVars
<1>7. CASE ReserveSlot
  BY <1>3, <1>7 DEF ReserveSlot, Holding, mailboxVars, readerVars
<1>8. CASE WriteSlot
  BY <1>4, <1>8 DEF WriteSlot, Holding, readerVars
<1>9. CASE RejectReply
  BY <1>4, <1>9 DEF RejectReply, Holding, readerVars
<1>10. CASE SendEnvelope
  BY <1>3, <1>10 DEF SendEnvelope, Holding, mailboxVars, readerVars
<1>11. CASE PublishSlot
  <2>1. Pending + Held < Capacity /\ Holding /\ ~Holding' /\ attempts' = attempts
    BY <1>1, <1>11 DEF PublishSlot, RingOK, Holding
  <2>2. Pending' = Pending + 1 /\ \A i : Entry(i)' = Entry(i)
    BY <1>1, <1>11, <2>1, AfterPublish DEF PublishSlot, readerVars
  <2>3. reply \in Replies /\ reply.id = attempts /\ slots[SlotAt(written)] = reply
    BY <1>1, <1>11, <2>1 DEF WriterOK, PublishSlot
  <2>4. ASSUME NEW i \in 1..(Pending + 1), i \notin 1..Pending
        PROVE  i = Pending + 1 /\ Entry(i) = reply
    <3>1. i = Pending + 1 /\ i - 1 = Pending
      BY <2>4, <1>2
    <3>2. At(read, i - 1) = written
      BY <3>1, <1>1, Positions
    <3> QED BY <3>1, <3>2, <2>3 DEF Entry
  <2>5. \A i \in 1..(Pending + 1) : Entry(i) \in Replies /\ Entry(i).id <= attempts
    BY <2>3, <2>4, <1>1, <1>2 DEF OrderOK
  <2>6. ASSUME NEW i \in 1..(Pending + 1), NEW j \in 1..(Pending + 1), i < j
        PROVE  Entry(i).id < Entry(j).id
    <3>1. CASE j \in 1..Pending
      BY <3>1, <2>6, <1>1, <1>2 DEF OrderOK
    <3>2. CASE j \notin 1..Pending
      <4>1. Entry(j) = reply /\ i \in 1..Pending
        BY <3>2, <2>4, <2>6, <1>2
      <4> QED BY <4>1, <2>1, <2>3, <1>1 DEF OrderOK
    <3> QED BY <3>1, <3>2
  <2> QED BY <2>1, <2>2, <2>5, <2>6 DEF OrderOK
<1>12. CASE NotifyReader
  BY <1>3, <1>12 DEF NotifyReader, Holding, mailboxVars
<1>13. CASE AcknowledgeSlot
  <2>1. Pending >= 1
    BY <1>1, <1>13 DEF AcknowledgeSlot, ReaderOK, Reading
  <2>2. Pending' = Pending - 1 /\ \A i \in Int : Entry(i)' = Entry(i + 1)
    BY <1>1, <1>13, <2>1, AfterAcknowledge DEF AcknowledgeSlot, writerVars
  <2>3. attempts' = attempts /\ Holding' = Holding
    BY <1>13 DEF AcknowledgeSlot, Holding, writerVars
  <2>4. ASSUME NEW i \in 1..(Pending - 1)
        PROVE  /\ i + 1 \in 1..Pending /\ Entry(i)' = Entry(i + 1)
    BY <2>1, <2>2, <1>2
  <2>5. \A i \in 1..(Pending - 1) :
          /\ Entry(i)' \in Replies
          /\ Entry(i)'.id <= attempts
          /\ Holding => Entry(i)'.id < attempts
    BY <2>4, <1>1 DEF OrderOK
  <2>6. ASSUME NEW i \in 1..(Pending - 1), NEW j \in 1..(Pending - 1), i < j
        PROVE  Entry(i)'.id < Entry(j)'.id
    <3>1. i + 1 < j + 1
      BY <2>6
    <3> QED BY <3>1, <2>4, <1>1 DEF OrderOK
  <2> QED BY <2>2, <2>3, <2>5, <2>6 DEF OrderOK
<1>14. CASE LoadWord \/ WaitAsync \/ ReadSlot \/ CopyLease \/ TakeControl
            \/ Receive \/ Accept \/ DispatchReclaim \/ CloseFlag \/ CloseStep
            \/ UNCHANGED vars
  BY <1>3, <1>14
     DEF LoadWord, WaitAsync, ReadSlot, CopyLease, TakeControl, Receive,
         Accept, DispatchReclaim, CloseFlag, CloseStep, CloseAdd, CloseNotify,
         Holding, vars, mailboxVars, writerVars, readerVars
<1> QED BY <1>5, <1>6, <1>7, <1>8, <1>9, <1>10, <1>11, <1>12, <1>13, <1>14
        DEF Next, WorkerStep, ReaderStep

-----------------------------------------------------------------------------

\* The first place is the one after read.
LEMMA NextPlace ==
  ASSUME TypeOK, NEW e, e.sequence \in Sequences
  PROVE  /\ Place(e) = 1 <=> e.sequence = Following(read)
         /\ Place(e) \in 0..(Modulus - 1)
<1>1. read \in Sequences /\ 1 \in 0..(Modulus - 1)
  BY Constants DEF TypeOK
<1>2. Following(read) \in Sequences /\ Distance(Following(read), read) = 1
  BY <1>1, FollowingIsAt, DistanceOfAt
<1>3. Place(e) = 1 => e.sequence = Following(read)
  BY <1>1, <1>2, DistanceInjective DEF Place
<1> QED BY <1>1, <1>2, <1>3, AtDistance DEF Place

\* The control the loop waits for is the one it finds.
LEMMA AwaitedControl ==
  ASSUME IInv, ~closed, reader \in {"control", "take"}, HasNative
  PROVE  /\ [sequence |-> Following(read), id |-> response.id] \in native
         /\ response = Entry(1)
<1>1. TypeOK /\ ControlsOK /\ ReaderOK
  BY DEF IInv, Parts
<1>2. PICK e \in native : e.sequence = Following(read)
  BY DEF HasNative
<1>3. e \in [sequence : Sequences, id : Ordinals]
  BY <1>1 DEF TypeOK
<1>4. Place(e) = 1
  BY <1>1, <1>2, <1>3, NextPlace
<1>5. Entry(1) = [kind |-> "control", id |-> e.id]
  BY <1>1, <1>4 DEF ControlsOK, Carried
<1>6. response = Entry(1)
  BY <1>1 DEF ReaderOK, Reading
<1> QED BY <1>2, <1>3, <1>5, <1>6

\* The next control message is in the window, new, and the awaited one.
LEMMA NextMessage ==
  ASSUME IInv, ~closed, envelopes # << >>
  PROVE  /\ Place(Head(envelopes)) \in 1..Capacity
         /\ \A e \in native : e.sequence # Head(envelopes).sequence
         /\ control_ready = "armed" =>
              Head(envelopes).sequence = Following(read)
<1>1. TypeOK /\ RingOK /\ ControlsOK /\ ReaderOK
  BY DEF IInv, Parts
<1>2. /\ envelopes \in Seq([sequence : Sequences, id : Ordinals])
      /\ Head(envelopes) = envelopes[1] /\ 1 \in DOMAIN envelopes
      /\ \A k \in DOMAIN envelopes : k = 1 \/ 1 < k
      /\ Head(envelopes) \in [sequence : Sequences, id : Ordinals]
  <2>1. envelopes \in Seq([sequence : Sequences, id : Ordinals])
    BY <1>1 DEF TypeOK
  <2>2. /\ Len(envelopes) \in Nat \ {0}
        /\ Head(envelopes) \in [sequence : Sequences, id : Ordinals]
    BY <2>1, EmptySeq, HeadTailProperties
  <2>3. DOMAIN envelopes = 1..Len(envelopes) /\ Head(envelopes) = envelopes[1]
    BY <2>1
  <2> QED BY <2>1, <2>2, <2>3
<1>3. Place(Head(envelopes)) \in First..Filled /\ First \in {1, 2}
  BY <1>1, <1>2 DEF ControlsOK, Carried, First
<1>4. Place(Head(envelopes)) \in 1..Capacity
  BY <1>1, <1>3, Positions, Constants
<1>5. ASSUME NEW e \in native
      PROVE  e.sequence # Head(envelopes).sequence
  <2>1. Place(e) < Place(Head(envelopes)) /\ Place(e) \in First..Filled
    BY <1>1, <1>2 DEF ControlsOK, Carried
  <2> QED BY <2>1, <1>3, <1>1, Positions DEF Place
<1>6. ASSUME control_ready = "armed"
      PROVE  Head(envelopes).sequence = Following(read)
  <2>1. /\ reader = "control" /\ ~HasNative /\ Pending >= 1
        /\ Entry(1).kind = "control" /\ First = 1
    BY <1>1, <1>6 DEF ReaderOK, Reading, First
  <2>2. 1 \in First..Filled
    BY <2>1, <1>1, Positions
  <2>3. ~\E e \in native : Place(e) = 1
    BY <2>1, <1>1, NextPlace DEF HasNative, TypeOK
  <2>4. PICK k \in DOMAIN envelopes : Place(envelopes[k]) = 1
    BY <2>1, <2>2, <2>3, <1>1 DEF ControlsOK
  <2>5. k = 1
    <3>1. 1 < k => Place(envelopes[1]) < 1
      BY <2>4, <1>1, <1>2 DEF ControlsOK
    <3> QED BY <3>1, <1>2, <1>4
  <2> QED BY <2>4, <2>5, <1>1, <1>2, NextPlace
<1> QED BY <1>4, <1>5, <1>6

\* Every step keeps what the loop knows; no error of the protocol is thrown.
LEMMA LoopStep ==
  ASSUME IInv, [Next]_vars
  PROVE  ReaderOK'
<1>1. TypeOK /\ RingOK /\ WriterOK /\ OrderOK /\ ReaderOK /\ ControlsOK
  BY DEF IInv, Parts
<1>2. Pending \in Nat
  BY <1>1, Positions
<1>3. ASSUME UNCHANGED << readerVars, closing, rejected >>,
             Pending' >= Pending, Pending' \in Int,
             Pending >= 1 => Entry(1)' = Entry(1)
      PROVE  ReaderOK'
  <2>1. HasNative' = HasNative /\ closed' = closed
    BY <1>3 DEF HasNative, closed, readerVars
  <2> QED BY <1>1, <1>2, <1>3, <2>1 DEF ReaderOK, readerVars
<1>4. ASSUME slots' = [slots EXCEPT ![SlotAt(written)] = reply],
             writer = "write", UNCHANGED << written, read, reclaimed >>
      PROVE  /\ Pending' >= Pending /\ Pending' \in Int
             /\ Pending >= 1 => Entry(1)' = Entry(1)
  <2>1. Pending' = Pending /\ \A i \in 1..Pending : Entry(i)' = Entry(i)
    BY <1>1, <1>4, AfterFill DEF RingOK
  <2> QED BY <2>1, <1>2
<1>5. ASSUME UNCHANGED << slots, written, read >>
      PROVE  Pending' = Pending /\ Entry(1)' = Entry(1)
  BY <1>5 DEF Pending, Entry
<1>6. CASE DispatchReclaim \/ RefuseReply \/ ReserveSlot \/ SendEnvelope
  <2>1. UNCHANGED << slots, written, readerVars, closing, rejected >>
    BY <1>6 DEF DispatchReclaim, RefuseReply, ReserveSlot, SendEnvelope,
                mailboxVars
  <2>2. UNCHANGED << slots, written, read >>
    BY <2>1 DEF readerVars
  <2> QED BY <1>2, <1>3, <1>5, <2>1, <2>2
<1>7. ASSUME NEW kind \in Kinds, BeginReply(kind)
      PROVE  ReaderOK'
  <2>1. UNCHANGED << slots, written, readerVars, closing, rejected >>
    BY <1>7 DEF BeginReply, mailboxVars
  <2>2. UNCHANGED << slots, written, read >>
    BY <2>1 DEF readerVars
  <2> QED BY <1>2, <1>3, <1>5, <2>1, <2>2
<1>8. CASE WriteSlot
  <2>1. UNCHANGED << readerVars, closing, rejected >>
        /\ UNCHANGED << written, read, reclaimed >>
    BY <1>8 DEF WriteSlot, readerVars
  <2> QED BY <1>3, <1>4, <1>8, <2>1 DEF WriteSlot
<1>9. CASE RejectReply
  <2>1. UNCHANGED << readerVars, closing, rejected >>
        /\ UNCHANGED << written, read, reclaimed >>
    BY <1>9 DEF RejectReply, readerVars
  <2> QED BY <1>3, <1>4, <1>9, <2>1 DEF RejectReply
<1>10. CASE PublishSlot
  <2>1. UNCHANGED << readerVars, closing, rejected >> /\ Pending + Held < Capacity
    BY <1>1, <1>10 DEF PublishSlot, RingOK
  <2>2. Pending' = Pending + 1 /\ \A i : Entry(i)' = Entry(i)
    BY <1>1, <1>10, <2>1, AfterPublish DEF PublishSlot, readerVars
  <2> QED BY <1>2, <1>3, <2>1, <2>2
<1>11. ASSUME UNCHANGED << slots, written, read, native, rejected >>
       PROVE  /\ Pending' = Pending /\ Entry(1)' = Entry(1)
              /\ HasNative' = HasNative /\ rejected' = rejected
  BY <1>5, <1>11 DEF HasNative
<1>12. CASE NotifyReader
  <2>1. UNCHANGED << slots, written, read, native, rejected, control_ready,
                     response, closing >>
    BY <1>12 DEF NotifyReader, mailboxVars
  <2>2. reader' = reader \/ (reader = "waiting" /\ reader' = "woken")
    BY <1>12 DEF NotifyReader, WakeWaiter
  <2> QED BY <1>1, <1>11, <2>1, <2>2 DEF ReaderOK, Reading, closed
<1>13. CASE LoadWord
  <2>1. UNCHANGED << slots, written, read, native, rejected, control_ready,
                     response, closing >>
    BY <1>13 DEF LoadWord, mailboxVars, writerVars
  <2>2. closed => reader' = "returned"
    BY <1>13 DEF LoadWord
  <2>3. ASSUME ~closed
        PROVE  reader' \in {"wait", "slot"} /\ (reader' = "slot" => Pending >= 1)
    <3>1. word = written /\ Distance(word, read) = Pending /\ Pending <= Capacity
      BY <1>1, <2>3, Positions, Constants DEF RingOK, closed, Pending
    <3>2. Pending = 0 => written = read
      BY <1>1, Positions, AtZero DEF TypeOK
    <3> QED BY <1>2, <1>13, <2>3, <3>1, <3>2, Constants DEF LoadWord
  <2>4. control_ready = "unset"
    BY <1>1, <1>13 DEF ReaderOK, LoadWord
  <2> QED BY <1>1, <1>11, <2>1, <2>2, <2>3, <2>4 DEF ReaderOK, Reading, closed
<1>14. CASE WaitAsync
  <2>1. UNCHANGED << slots, written, read, native, rejected, control_ready,
                     response, closing >>
    BY <1>14 DEF WaitAsync, mailboxVars, writerVars
  <2>2. reader = "wait" /\ reader' \in {"waiting", "head"} /\ ~closed
    BY <1>1, <1>14 DEF WaitAsync, ReaderOK
  <2> QED BY <1>1, <1>11, <2>1, <2>2 DEF ReaderOK, Reading, closed
<1>15. CASE ReadSlot
  <2>1. UNCHANGED << slots, written, read, native, rejected, closing >>
        /\ reader = "slot" /\ ~closed
    BY <1>1, <1>15 DEF ReadSlot, mailboxVars, writerVars, ReaderOK
  <2>2. Pending >= 1 /\ control_ready = "unset"
    BY <1>1, <2>1 DEF ReaderOK, Reading
  <2>3. SlotAt(read) = SlotAt(At(read, 1 - 1))
    BY <1>1, AtZero DEF TypeOK
  <2>4. response' = Entry(1)
    BY <1>15, <2>3 DEF ReadSlot, Entry
  <2>5. Entry(1) \in Replies
    BY <1>1, <1>2, <2>2 DEF OrderOK
  <2>6. \/ /\ response'.kind = "shared" /\ reader' = "copy"
           /\ control_ready' = "unset"
        \/ /\ response'.kind = "control" /\ reader' = "take" /\ HasNative
           /\ control_ready' = "unset"
        \/ /\ response'.kind = "control" /\ reader' = "control" /\ ~HasNative
           /\ control_ready' = "armed"
    BY <1>15, <2>2, <2>4, <2>5 DEF ReadSlot, Replies, Kinds
  <2>7. closed' = closed
    BY <2>1 DEF closed
  <2> QED BY <1>1, <1>2, <1>11, <2>1, <2>2, <2>4, <2>6, <2>7 DEF ReaderOK, Reading
<1>16. CASE CopyLease
  <2>1. UNCHANGED << slots, written, read, native, rejected, closing, response,
                     control_ready >>
        /\ reader = "copy" /\ reader' = "acknowledge" /\ ~closed
    BY <1>1, <1>16 DEF CopyLease, mailboxVars, writerVars, ReaderOK
  <2> QED BY <1>1, <1>11, <2>1 DEF ReaderOK, Reading, closed
<1>17. CASE TakeControl
  <2>1. UNCHANGED << slots, written, read, rejected, closing, response >>
        /\ control_ready' = "unset" /\ reader \in {"take", "control"}
    BY <1>17 DEF TakeControl, mailboxVars, writerVars
  <2>2. Pending' = Pending /\ Entry(1)' = Entry(1) /\ closed' = closed
    BY <2>1, <1>5 DEF closed
  <2>3. CASE closed
    <3>1. reader' = "returned"
      BY <2>3, <1>17 DEF TakeControl
    <3> QED BY <1>1, <2>1, <2>2, <2>3, <3>1 DEF ReaderOK, Reading
  <2>4. CASE ~closed
    <3>1. HasNative
      BY <1>1, <1>17, <2>4 DEF TakeControl, ReaderOK
    <3>2. reader' = "acknowledge"
      BY <2>1, <2>4, <3>1, <1>17, AwaitedControl DEF TakeControl
    <3> QED BY <1>1, <2>1, <2>2, <2>4, <3>2 DEF ReaderOK, Reading
  <2> QED BY <2>3, <2>4
<1>18. CASE AcknowledgeSlot
  <2>1. UNCHANGED << slots, written, rejected, closing, response,
                     control_ready, native >>
        /\ reader = "acknowledge" /\ reader' = "receive" /\ ~closed
    BY <1>1, <1>18 DEF AcknowledgeSlot, writerVars, ReaderOK
  <2>2. Pending >= 1 /\ response = Entry(1)
    BY <1>1, <2>1 DEF ReaderOK, Reading
  <2>3. response' \in Replies
    BY <1>1, <1>2, <2>1, <2>2 DEF OrderOK
  <2>4. control_ready' = "unset"
    BY <1>1, <2>1 DEF ReaderOK, TypeOK
  <2> QED BY <1>1, <2>1, <2>3, <2>4 DEF ReaderOK, Reading, closed
<1>19. CASE Receive
  <2>1. UNCHANGED << slots, written, read, native, rejected, closing,
                     control_ready >>
        /\ reader = "receive" /\ reader' = "yielded" /\ ~closed
    BY <1>1, <1>19 DEF Receive, mailboxVars, writerVars, ReaderOK
  <2> QED BY <1>1, <1>11, <2>1 DEF ReaderOK, Reading, closed
<1>20. CASE Accept
  <2>1. UNCHANGED << slots, written, read, closing, response, reader >>
        /\ envelopes # << >> /\ closed' = closed
    BY <1>20 DEF Accept, mailboxVars, writerVars, closed
  <2>2. Pending' = Pending /\ Entry(1)' = Entry(1)
    BY <2>1, <1>5
  <2>3. CASE closed
    <3>1. UNCHANGED << native, control_ready, rejected >>
      BY <2>3, <1>20 DEF Accept
    <3> QED BY <1>1, <1>11, <2>1, <2>2, <2>3, <3>1 DEF ReaderOK, Reading
  <2>4. CASE ~closed
    <3>1. /\ native' = native \cup {Head(envelopes)}
          /\ control_ready' =
                IF control_ready = "armed" THEN "fired" ELSE control_ready
          /\ UNCHANGED rejected
      <4>1. Distance(Head(envelopes).sequence, read) \in 1..Capacity
            /\ \A e \in native : e.sequence # Head(envelopes).sequence
        BY <2>1, <2>4, NextMessage DEF Place
      <4> QED BY <4>1, <2>4, <1>20 DEF Accept
    <3>2. HasNative => HasNative'
      BY <3>1, <2>1 DEF HasNative
    <3>3. control_ready = "armed" => HasNative'
      <4>1. ASSUME control_ready = "armed"
            PROVE  Head(envelopes).sequence = Following(read)
        BY <4>1, <2>1, <2>4, NextMessage
      <4> QED BY <4>1, <3>1, <2>1 DEF HasNative
    <3> QED BY <1>1, <2>1, <2>2, <2>4, <3>1, <3>2, <3>3
            DEF ReaderOK, Reading, TypeOK
  <2> QED BY <2>3, <2>4
<1>21. CASE CloseFlag
  <2>1. UNCHANGED << reader, rejected, response, control_ready >>
        /\ closed' /\ reader \in {"waiting", "woken", "control", "yielded"}
    BY <1>1, <1>21 DEF CloseFlag, closed, ReaderOK
  <2> QED BY <1>1, <2>1 DEF ReaderOK, Reading
<1>22. CASE CloseAdd
  <2>1. UNCHANGED << reader, rejected, response, control_ready >> /\ closed /\ closed'
    BY <1>22 DEF CloseAdd, closed, readerVars
  <2> QED BY <1>1, <2>1 DEF ReaderOK, Reading
<1>23. CASE CloseNotify
  <2>1. UNCHANGED << rejected, response >> /\ closed /\ closed'
    BY <1>23 DEF CloseNotify, closed
  <2>2. reader' = reader \/ (reader = "waiting" /\ reader' = "woken")
    BY <1>23 DEF CloseNotify, WakeWaiter
  <2>3. control_ready' # "unset" <=> control_ready # "unset"
    BY <1>23 DEF CloseNotify, FireControlReady
  <2> QED BY <1>1, <2>1, <2>2, <2>3 DEF ReaderOK, Reading
<1>24. CASE UNCHANGED vars
  <2>1. UNCHANGED << slots, written, readerVars, closing, rejected >>
    BY <1>24 DEF vars, mailboxVars, writerVars
  <2>2. UNCHANGED << slots, written, read >>
    BY <2>1 DEF readerVars
  <2> QED BY <1>2, <1>3, <1>5, <2>1, <2>2
<1> QED BY <1>6, <1>7, <1>8, <1>9, <1>10, <1>12, <1>13, <1>14, <1>15, <1>16,
           <1>17, <1>18, <1>19, <1>20, <1>21, <1>22, <1>23, <1>24
        DEF Next, WorkerStep, ReaderStep, CloseStep

\* Every step keeps the messages in step with the ring.
LEMMA ControlsStep ==
  ASSUME IInv, [Next]_vars
  PROVE  ControlsOK'
<1> SUFFICES ASSUME ~closed', ~closed
             PROVE  ControlsOK'
  <2>1. CASE closed'
    BY <2>1 DEF ControlsOK
  <2>2. CASE closed
    <3>1. closing' # "open"
      BY <2>2
         DEF closed, vars, Next, WorkerStep, ReaderStep, CloseStep,
             DispatchReclaim, BeginReply, RefuseReply, ReserveSlot, WriteSlot,
             RejectReply, SendEnvelope, PublishSlot, NotifyReader, LoadWord,
             WaitAsync, ReadSlot, CopyLease, TakeControl, AcknowledgeSlot,
             Receive, Accept, CloseFlag, CloseAdd, CloseNotify
    <3> QED BY <3>1 DEF ControlsOK, closed
  <2> QED BY <2>1, <2>2
<1>1. TypeOK /\ RingOK /\ WriterOK /\ OrderOK /\ ReaderOK /\ ControlsOK
  BY DEF IInv, Parts
<1>2. /\ Pending \in Nat /\ Filled \in Nat /\ Filled \in {Pending, Pending + 1}
      /\ First \in {1, 2}
  BY <1>1, Positions DEF First
<1>3. /\ \A e \in native : e \in [sequence : Sequences, id : Ordinals]
      /\ envelopes \in Seq([sequence : Sequences, id : Ordinals])
      /\ \A k \in DOMAIN envelopes :
           envelopes[k] \in [sequence : Sequences, id : Ordinals]
  <2>1. native \subseteq [sequence : Sequences, id : Ordinals]
        /\ envelopes \in Seq([sequence : Sequences, id : Ordinals])
    BY <1>1 DEF TypeOK
  <2>2. \A k \in DOMAIN envelopes :
          envelopes[k] \in [sequence : Sequences, id : Ordinals]
    BY <2>1, LenProperties, ElementOfSeq
  <2> QED BY <2>1, <2>2
<1>4. /\ \A e \in native : \E i \in First..Filled : Carried(e, i)
      /\ \A k \in DOMAIN envelopes :
           \E i \in First..Filled : Carried(envelopes[k], i)
      /\ \A k, l \in DOMAIN envelopes :
           k < l => Place(envelopes[k]) < Place(envelopes[l])
      /\ \A e \in native, k \in DOMAIN envelopes :
           Place(e) < Place(envelopes[k])
      /\ \A i \in First..Filled : Entry(i).kind = "control" =>
           \/ \E e \in native : Place(e) = i
           \/ \E k \in DOMAIN envelopes : Place(envelopes[k]) = i
  BY <1>1 DEF ControlsOK
<1>5. ASSUME UNCHANGED << native, envelopes, read >>, First' = First,
             Filled' \in Int, Filled' >= Filled,
             \A i \in First..Filled : Entry(i)' = Entry(i),
             \A i \in Filled + 1..Filled' : Entry(i)'.kind # "control"
      PROVE  ControlsOK'
  <2>1. \A e : Place(e)' = Place(e)
    BY <1>5 DEF Place
  <2>2. \A e, i : i \in First..Filled /\ Carried(e, i) =>
                    i \in First'..Filled' /\ Carried(e, i)'
    BY <1>2, <1>5, <2>1 DEF Carried
  <2>3. \A i \in First'..Filled' : Entry(i)'.kind = "control" =>
          i \in First..Filled /\ Entry(i).kind = "control"
    BY <1>2, <1>5
  <2>4. /\ \A e \in native' : \E i \in First'..Filled' : Carried(e, i)'
        /\ \A k \in DOMAIN envelopes' :
             \E i \in First'..Filled' : Carried(envelopes[k], i)'
    <3>1. ASSUME NEW e, \E i \in First..Filled : Carried(e, i)
          PROVE  \E i \in First'..Filled' : Carried(e, i)'
      BY <3>1, <2>2
    <3> QED BY <3>1, <1>4, <1>5
  <2> QED BY <1>4, <1>5, <2>1, <2>3, <2>4 DEF ControlsOK
<1>6. ASSUME UNCHANGED << slots, written, read, native, envelopes >>,
             (writer' = "publish") <=> (writer = "publish"), First' = First
      PROVE  ControlsOK'
  <2>1. Filled' = Filled /\ \A i : Entry(i)' = Entry(i)
    BY <1>6 DEF Filled, Pending, Entry
  <2>2. \A i \in Filled + 1..Filled' : FALSE
    BY <2>1, <1>2
  <2> QED BY <1>2, <1>5, <1>6, <2>1, <2>2
<1>7. ASSUME reader \in {"copy", "control", "take"}, reader' = "acknowledge",
             UNCHANGED << slots, written, read, writer, envelopes >>,
             native' \subseteq native,
             \A e \in native : Place(e) # 1 => e \in native',
             \A e \in native' : Place(e) # 1,
             \A k \in DOMAIN envelopes : Place(envelopes[k]) # 1
      PROVE  ControlsOK'
  <2>1. First = 1 /\ First' = 2
    BY <1>7 DEF First
  <2>2. Filled' = Filled /\ (\A i : Entry(i)' = Entry(i))
        /\ (\A e : Place(e)' = Place(e))
    BY <1>7 DEF Filled, Pending, Entry, Place
  <2>3. \A e, i : i \in 1..Filled /\ Carried(e, i) /\ Place(e) # 1 =>
                    i \in 2..Filled /\ Carried(e, i)'
    BY <1>2, <2>2 DEF Carried
  <2>4. /\ \A e \in native' : \E i \in 2..Filled : Carried(e, i)'
        /\ \A k \in DOMAIN envelopes' :
             \E i \in 2..Filled : Carried(envelopes[k], i)'
    <3>1. ASSUME NEW e, Place(e) # 1, \E i \in 1..Filled : Carried(e, i)
          PROVE  \E i \in 2..Filled : Carried(e, i)'
      BY <3>1, <2>3
    <3> QED BY <3>1, <1>4, <1>7, <2>1
  <2>5. ASSUME NEW i \in 2..Filled, Entry(i).kind = "control"
        PROVE  \/ \E e \in native' : Place(e) = i
               \/ \E k \in DOMAIN envelopes' : Place(envelopes[k]) = i
    BY <2>1, <2>5, <1>2, <1>4, <1>7
  <2> QED BY <1>4, <1>7, <2>1, <2>2, <2>4, <2>5 DEF ControlsOK
<1>8. CASE DispatchReclaim \/ RefuseReply \/ ReserveSlot \/ NotifyReader
           \/ LoadWord \/ WaitAsync \/ ReadSlot \/ Receive \/ UNCHANGED vars
  <2>1. UNCHANGED << slots, written, read, native, envelopes >>
        /\ ((writer' = "publish") <=> (writer = "publish"))
    BY <1>8
       DEF DispatchReclaim, RefuseReply, ReserveSlot, NotifyReader, LoadWord,
           WaitAsync, ReadSlot, Receive, vars, mailboxVars, writerVars,
           readerVars
  <2>2. First' = First
    BY <1>8, <1>1
       DEF First, DispatchReclaim, RefuseReply, ReserveSlot, NotifyReader,
           WakeWaiter, LoadWord, WaitAsync, ReadSlot, Receive, vars, readerVars
  <2> QED BY <1>6, <2>1, <2>2
<1>9. ASSUME NEW kind \in Kinds, BeginReply(kind)
      PROVE  ControlsOK'
  BY <1>6, <1>9 DEF BeginReply, First, mailboxVars, readerVars
<1>10. CASE WriteSlot \/ RejectReply
  <2>1. /\ Pending' = Pending /\ Filled = Pending
        /\ \A i \in 1..Pending : Entry(i)' = Entry(i)
        /\ \A i : i = Pending + 1 => Entry(i)' = reply
    BY <1>1, <1>10, AfterFill
       DEF WriteSlot, RejectReply, RingOK, Filled, readerVars
  <2>2. UNCHANGED << native, envelopes, read >> /\ First' = First
    BY <1>10 DEF WriteSlot, RejectReply, First, readerVars
  <2>3. \/ Filled' = Filled
        \/ Filled' = Filled + 1 /\ reply.kind # "control"
    BY <1>10, <2>1 DEF Filled, WriteSlot, RejectReply
  <2>4. \A i \in First..Filled : Entry(i)' = Entry(i)
    BY <1>2, <2>1
  <2>5. \A i \in Filled + 1..Filled' : Entry(i)'.kind # "control"
    BY <1>2, <2>1, <2>3
  <2> QED BY <1>2, <1>5, <2>2, <2>3, <2>4, <2>5
<1>11. CASE SendEnvelope
  <2> PICK sent : sent = [sequence |-> Following(written), id |-> reply.id]
    OBVIOUS
  <2> PICK n : n = Len(envelopes)
    OBVIOUS
  <2>1. UNCHANGED << slots, written, read, native, reply, reader >>
        /\ envelopes' = Append(envelopes, sent)
    BY <1>11 DEF SendEnvelope, mailboxVars, readerVars
  <2>2. Filled = Pending /\ Filled' = Pending + 1 /\ First' = First
        /\ (\A i : Entry(i)' = Entry(i)) /\ (\A e : Place(e)' = Place(e))
    BY <1>11, <2>1 DEF SendEnvelope, Filled, Pending, Entry, Place, First
  <2>3. /\ reply \in Replies /\ reply.kind = "control"
        /\ reply = [kind |-> "control", id |-> reply.id]
        /\ slots[SlotAt(written)] = reply
    BY <1>1, <1>11 DEF SendEnvelope, WriterOK, Holding, Replies
  <2>4. sent \in [sequence : Sequences, id : Ordinals]
    BY <1>1, <2>3, FollowingIsAt DEF Replies, TypeOK
  <2>5. /\ n \in Nat /\ DOMAIN envelopes = 1..n /\ DOMAIN envelopes' = 1..(n + 1)
        /\ \A k \in 1..n : envelopes'[k] = envelopes[k]
        /\ envelopes'[n + 1] = sent
    <3>1. /\ envelopes' \in Seq([sequence : Sequences, id : Ordinals])
          /\ Len(envelopes') = n + 1
          /\ \A k \in 1..n : envelopes'[k] = envelopes[k]
          /\ envelopes'[n + 1] = sent
      BY <1>3, <2>1, <2>4, AppendProperties
    <3> QED BY <1>3, <3>1, LenProperties
  <2>6. Place(sent) = Pending + 1
    <3>1. Pending < Modulus - 1 /\ Pending = Distance(written, read)
      BY <1>1, <1>2, <1>11, Positions, Constants
         DEF SendEnvelope, RingOK, Pending
    <3> QED BY <3>1, <1>1, DistanceOfFollowing DEF Place, TypeOK
  <2>7. \A i : i = Pending + 1 => Entry(i) = reply
    <3>1. ASSUME NEW i, i = Pending + 1
          PROVE  Entry(i) = reply
      <4>1. i - 1 = Pending
        BY <3>1, <1>2
      <4> QED BY <4>1, <2>3, <1>1, Positions DEF Entry
    <3> QED BY <3>1
  <2>8. /\ \A e, i : i \in First..Filled /\ Carried(e, i) =>
                        i \in First'..Filled' /\ Carried(e, i)'
        /\ \A i : i = Pending + 1 => i \in First'..Filled' /\ Carried(sent, i)'
    <3>1. \A e, i : Carried(e, i) => Carried(e, i)'
      BY <2>2 DEF Carried
    <3>2. ASSUME NEW i, i = Pending + 1
          PROVE  Carried(sent, i)'
      <4>1. sent.id = reply.id
        OBVIOUS
      <4> QED BY <2>2, <2>3, <2>6, <2>7, <3>2, <4>1 DEF Carried
    <3>3. First <= Pending + 1
      BY <1>1, <1>2 DEF First, ReaderOK, Reading
    <3> QED BY <1>2, <2>2, <3>1, <3>2, <3>3
  <2>9. /\ \A e \in native' : \E i \in First'..Filled' : Carried(e, i)'
        /\ \A k \in 1..n : \E i \in First'..Filled' : Carried(envelopes[k], i)'
        /\ \E i \in First'..Filled' : Carried(sent, i)'
    <3>1. ASSUME NEW e, \E i \in First..Filled : Carried(e, i)
          PROVE  \E i \in First'..Filled' : Carried(e, i)'
      BY <3>1, <2>8
    <3>2. \A k \in 1..n : \E i \in First'..Filled' : Carried(envelopes[k], i)'
      <4>1. ASSUME NEW k \in 1..n
            PROVE  \E i \in First'..Filled' : Carried(envelopes[k], i)'
        <5>1. PICK i \in First..Filled : Carried(envelopes[k], i)
          BY <1>4, <2>5
        <5>2. i \in First'..Filled'
          BY <1>2, <2>2
        <5>3. Carried(envelopes[k], i)'
          BY <5>1, <2>1, <2>2, <2>5 DEF Carried, Place
        <5> QED BY <5>2, <5>3
      <4> QED BY <4>1
    <3> QED BY <3>1, <3>2, <1>4, <2>1, <2>2, <2>8, <1>2
  <2>10. ASSUME NEW e, \E i \in First..Filled : Carried(e, i)
         PROVE  Place(e) < Pending + 1
    BY <1>2, <2>2, <2>10 DEF Carried
  <2>11. ASSUME NEW k \in 1..(n + 1), NEW l \in 1..(n + 1), k < l
         PROVE  Place(envelopes'[k]) < Place(envelopes'[l])
    <3>1. CASE l \in 1..n
      <4>1. k \in 1..n
        BY <3>1, <2>5, <2>11
      <4>2. /\ envelopes'[k] = envelopes[k] /\ envelopes'[l] = envelopes[l]
            /\ k \in DOMAIN envelopes /\ l \in DOMAIN envelopes
        BY <3>1, <4>1, <2>5
      <4>3. Place(envelopes[k]) < Place(envelopes[l])
        BY <4>2, <2>11, <1>4
      <4> QED BY <4>2, <4>3
    <3>2. CASE l = n + 1
      <4>1. k \in 1..n /\ envelopes'[l] = sent /\ envelopes'[k] = envelopes[k]
        BY <3>2, <2>5, <2>11
      <4>2. Place(envelopes[k]) < Pending + 1
        BY <4>1, <2>5, <2>10, <1>4
      <4> QED BY <4>1, <4>2, <2>6
    <3> QED BY <3>1, <3>2, <2>5
  <2>12. ASSUME NEW e \in native, NEW k \in 1..(n + 1)
         PROVE  Place(e) < Place(envelopes'[k])
    <3>1. CASE k \in 1..n
      BY <3>1, <2>5, <1>4
    <3>2. CASE k = n + 1
      BY <3>2, <2>5, <2>6, <2>10, <1>4
    <3> QED BY <3>1, <3>2, <2>5
  <2>13. ASSUME NEW i \in First'..Filled', Entry(i)'.kind = "control"
         PROVE  \/ \E e \in native : Place(e) = i
                \/ \E k \in 1..(n + 1) : Place(envelopes'[k]) = i
    <3>1. CASE i \in First..Filled
      BY <3>1, <2>2, <2>5, <2>13, <1>4
    <3>2. CASE i = Pending + 1
      BY <3>2, <2>5, <2>6
    <3> QED BY <3>1, <3>2, <1>2, <2>2, <2>13
  <2>14. /\ \A e : Place(e)' = Place(e)
         /\ \A k : Place(envelopes[k])' = Place(envelopes'[k])
    BY <2>1 DEF Place
  <2>15. \A k \in 1..(n + 1) : \E i \in First'..Filled' : Carried(envelopes[k], i)'
    <3>1. \A i : Carried(sent, i)' => Carried(envelopes[n + 1], i)'
      BY <2>1, <2>5 DEF Carried, Place
    <3> QED BY <2>5, <2>9, <3>1
  <2> QED BY <2>1, <2>5, <2>9, <2>11, <2>12, <2>13, <2>14, <2>15, ZenonT(30)
          DEF ControlsOK
<1>12. CASE PublishSlot
  <2>1. Pending + Held < Capacity /\ Filled = Pending + 1
    BY <1>1, <1>12 DEF PublishSlot, RingOK, Filled
  <2>2. /\ Pending' = Pending + 1 /\ Filled' = Pending'
        /\ \A i : Entry(i)' = Entry(i)
    BY <1>1, <1>12, <2>1, AfterPublish DEF PublishSlot, Filled, readerVars
  <2>3. UNCHANGED << native, envelopes, read >> /\ First' = First
    BY <1>12 DEF PublishSlot, First, readerVars
  <2>4. \A i \in Filled + 1..Filled' : FALSE
    BY <1>2, <2>1, <2>2
  <2> QED BY <1>2, <1>5, <2>1, <2>2, <2>3, <2>4
<1>13. CASE CopyLease
  <2>1. /\ reader = "copy" /\ reader' = "acknowledge" /\ Pending >= 1
        /\ UNCHANGED << slots, written, read, writer, envelopes, native >>
    BY <1>1, <1>13
       DEF CopyLease, ReaderOK, Reading, mailboxVars, writerVars
  <2>2. Entry(1).kind = "shared"
    BY <1>1, <2>1 DEF ReaderOK, Reading
  <2>3. \A e : Place(e) = 1 => ~\E i \in First..Filled : Carried(e, i)
    BY <2>2 DEF Carried
  <2> QED BY <1>4, <1>7, <2>1, <2>3
<1>14. CASE TakeControl
  <2>1. /\ reader \in {"control", "take"}
        /\ native' = {e \in native : e.sequence # Following(read)}
        /\ UNCHANGED << slots, written, read, writer, envelopes >>
    BY <1>14 DEF TakeControl, mailboxVars, writerVars
  <2>2. HasNative
    BY <1>1, <1>14 DEF TakeControl, ReaderOK
  <2>3. [sequence |-> Following(read), id |-> response.id] \in native
    BY <2>1, <2>2, AwaitedControl
  <2>4. reader' = "acknowledge"
    BY <1>14, <2>3 DEF TakeControl
  <2>5. Place([sequence |-> Following(read), id |-> response.id]) = 1
    BY <1>1, <1>3, <2>3, NextPlace
  <2>6. \A k \in DOMAIN envelopes : Place(envelopes[k]) # 1
    BY <1>4, <2>3, <2>5
  <2>7. \A e \in native : Place(e) = 1 <=> e.sequence = Following(read)
    BY <1>1, <1>3, NextPlace
  <2> QED BY <1>7, <2>1, <2>4, <2>6, <2>7
<1>15. CASE AcknowledgeSlot
  <2>1. /\ reader = "acknowledge" /\ First = 2 /\ First' = 1 /\ Pending >= 1
        /\ UNCHANGED << native, envelopes, slots, written, reclaimed, writer >>
    BY <1>1, <1>15
       DEF AcknowledgeSlot, First, ReaderOK, Reading, writerVars
  <2>2. /\ Filled' = Filled - 1 /\ \A i \in Int : Entry(i)' = Entry(i + 1)
        /\ \A s \in Sequences : Distance(s, read) >= 1 =>
             Distance(s, read)' = Distance(s, read) - 1
    BY <1>1, <1>2, <1>15, <2>1, AfterAcknowledge DEF AcknowledgeSlot, Filled
  <2>3. ASSUME NEW e \in [sequence : Sequences, id : Ordinals],
               NEW i \in 2..Filled, Carried(e, i)
        PROVE  i - 1 \in 1..(Filled - 1) /\ Carried(e, i - 1)'
    <3>1. Distance(e.sequence, read) = i /\ i - 1 \in Int /\ i - 1 + 1 = i
      BY <2>3, <1>2 DEF Carried, Place
    <3>2. Distance(e.sequence, read)' = i - 1
      BY <3>1, <2>2
    <3>3. Entry(i - 1)' = [kind |-> "control", id |-> e.id]
      BY <3>1, <2>2, <2>3 DEF Carried
    <3> QED BY <3>2, <3>3, <1>2 DEF Carried, Place
  <2>4. ASSUME NEW e \in [sequence : Sequences, id : Ordinals],
               \E i \in First..Filled : Carried(e, i)
        PROVE  /\ \E i \in First'..Filled' : Carried(e, i)'
               /\ Place(e)' = Place(e) - 1 /\ Place(e) \in 2..Filled
    <3>1. PICK i \in 2..Filled : Carried(e, i)
      BY <2>1, <2>4
    <3>2. Place(e) = i /\ Place(e)' = i - 1
      BY <3>1, <1>2, <2>2 DEF Carried, Place
    <3> QED BY <2>1, <2>2, <2>3, <3>1, <3>2
  <2>5. ASSUME NEW i \in First'..Filled', Entry(i)'.kind = "control"
        PROVE  \/ \E e \in native : Place(e)' = i
               \/ \E k \in DOMAIN envelopes : Place(envelopes[k])' = i
    <3>1. i + 1 \in First..Filled /\ Entry(i + 1).kind = "control"
      BY <2>1, <2>2, <2>5, <1>2
    <3>2. CASE \E e \in native : Place(e) = i + 1
      <4>1. PICK e \in native : Place(e) = i + 1
        BY <3>2
      <4>2. Place(e)' = Place(e) - 1
        BY <1>3, <1>4, <2>4
      <4> QED BY <4>1, <4>2, <2>1, <2>5
    <3>3. CASE \E k \in DOMAIN envelopes : Place(envelopes[k]) = i + 1
      <4>1. PICK k \in DOMAIN envelopes : Place(envelopes[k]) = i + 1
        BY <3>3
      <4>2. PICK e : e = envelopes[k] /\ e = envelopes'[k]
        BY <2>1
      <4>3. Place(e)' = Place(e) - 1
        BY <4>1, <4>2, <1>3, <1>4, <2>4
      <4>4. Place(envelopes[k])' = i
        BY <4>1, <4>2, <4>3, <2>5 DEF Place
      <4> QED BY <4>4
    <3> QED BY <3>1, <3>2, <3>3, <1>4
  <2>6. ASSUME NEW k \in DOMAIN envelopes
        PROVE  /\ \E i \in First'..Filled' : Carried(envelopes[k], i)'
               /\ Place(envelopes[k])' = Place(envelopes[k]) - 1
               /\ Place(envelopes[k]) \in Int
    <3>1. PICK e : e = envelopes[k] /\ e = envelopes'[k]
      BY <2>1
    <3>2. PICK i \in First'..Filled' : Carried(e, i)'
      BY <3>1, <1>3, <1>4, <2>4
    <3>3. Carried(envelopes[k], i)'
      BY <3>1, <3>2 DEF Carried, Place
    <3>4. Place(e)' = Place(e) - 1 /\ Place(e) \in Int
      <4>1. e \in [sequence : Sequences, id : Ordinals]
            /\ \E j \in First..Filled : Carried(e, j)
        BY <3>1, <1>3, <1>4
      <4>2. Place(e)' = Place(e) - 1 /\ Place(e) \in 2..Filled
        BY <4>1, <2>4
      <4> QED BY <4>2, <1>2
    <3>5. Place(envelopes[k])' = Place(e)'
      BY <3>1 DEF Place
    <3> QED BY <3>1, <3>2, <3>3, <3>4, <3>5
  <2>7. ASSUME NEW e \in native
        PROVE  /\ \E i \in First'..Filled' : Carried(e, i)'
               /\ Place(e)' = Place(e) - 1 /\ Place(e) \in Int
    BY <1>2, <1>3, <1>4, <2>4
  <2> QED BY <1>4, <2>1, <2>5, <2>6, <2>7 DEF ControlsOK
<1>16. CASE Accept
  <2>1. UNCHANGED << slots, written, read, writer, reader >>
        /\ envelopes # << >> /\ envelopes' = Tail(envelopes)
    BY <1>16 DEF Accept, mailboxVars, writerVars
  <2>2. Filled' = Filled /\ First' = First /\ (\A i : Entry(i)' = Entry(i))
        /\ (\A e : Place(e)' = Place(e))
        /\ (\A e, i : Carried(e, i)' <=> Carried(e, i))
    BY <2>1 DEF Filled, First, Pending, Entry, Place, Carried
  <2> PICK n : n = Len(envelopes)
    OBVIOUS
  <2>3. /\ n \in Nat \ {0} /\ DOMAIN envelopes = 1..n
        /\ DOMAIN envelopes' = 1..(n - 1) /\ Head(envelopes) = envelopes[1]
        /\ \A k \in 1..(n - 1) : envelopes'[k] = envelopes[k + 1]
    <3>1. /\ n \in Nat \ {0} /\ Len(envelopes') = n - 1
          /\ envelopes' \in Seq([sequence : Sequences, id : Ordinals])
          /\ \A k \in 1..(n - 1) : envelopes'[k] = envelopes[k + 1]
      BY <1>3, <2>1, EmptySeq, HeadTailProperties
    <3> QED BY <1>3, <3>1, LenProperties
  <2>4. native' = native \cup {envelopes[1]}
    <3>1. Distance(Head(envelopes).sequence, read) \in 1..Capacity
          /\ \A e \in native : e.sequence # Head(envelopes).sequence
      BY <2>1, NextMessage DEF Place
    <3> QED BY <3>1, <2>3, <1>16 DEF Accept
  <2>5. /\ 1 \in DOMAIN envelopes
        /\ \A k \in 1..(n - 1) : k + 1 \in DOMAIN envelopes /\ 1 < k + 1
        /\ \A k \in DOMAIN envelopes : k = 1 \/ k - 1 \in 1..(n - 1)
    BY <2>3
  <2>6. \A e \in native' : \E i \in First'..Filled' : Carried(e, i)'
    <3>1. ASSUME NEW e \in native'
          PROVE  \E i \in First..Filled : Carried(e, i)
      BY <2>4, <2>5, <1>4
    <3> QED BY <3>1, <2>2
  <2>7. \A k \in DOMAIN envelopes' :
          \E i \in First'..Filled' : Carried(envelopes[k], i)'
    <3>1. ASSUME NEW k \in 1..(n - 1)
          PROVE  \E i \in First'..Filled' : Carried(envelopes[k], i)'
      <4>1. PICK e : e = envelopes'[k] /\ e = envelopes[k + 1]
        BY <2>3
      <4>2. PICK i \in First..Filled : Carried(e, i)
        BY <4>1, <2>5, <1>4
      <4>3. Carried(envelopes[k], i)'
        BY <4>1, <4>2, <2>2 DEF Carried, Place
      <4> QED BY <4>3, <2>2
    <3> QED BY <3>1, <2>3
  <2>8. \A k, l \in 1..(n - 1) :
          k < l => Place(envelopes'[k]) < Place(envelopes'[l])
    BY <2>3, <2>5, <1>4, SMTT(30)
  <2>9. \A e \in native', k \in 1..(n - 1) : Place(e) < Place(envelopes'[k])
    BY <2>3, <2>4, <2>5, <1>4
  <2>10. ASSUME NEW i \in First..Filled, Entry(i).kind = "control"
         PROVE  \/ \E e \in native' : Place(e) = i
                \/ \E k \in 1..(n - 1) : Place(envelopes'[k]) = i
    <3>1. CASE \E e \in native : Place(e) = i
      BY <3>1, <2>4
    <3>2. CASE \E k \in DOMAIN envelopes : Place(envelopes[k]) = i
      <4>1. PICK k \in DOMAIN envelopes : Place(envelopes[k]) = i
        BY <3>2
      <4>2. CASE k = 1
        BY <4>1, <4>2, <2>4
      <4>3. CASE k # 1
        <5>1. k - 1 \in 1..(n - 1) /\ k - 1 + 1 = k
          BY <4>1, <4>3, <2>3, <2>5
        <5>2. envelopes'[k - 1] = envelopes[k]
          BY <5>1, <2>3
        <5> QED BY <4>1, <5>1, <5>2
      <4> QED BY <4>2, <4>3
    <3> QED BY <2>10, <3>1, <3>2, <1>4
  <2>11. \A k : Place(envelopes[k])' = Place(envelopes'[k])
    BY <2>1 DEF Place
  <2> QED BY <2>2, <2>3, <2>6, <2>7, <2>8, <2>9, <2>10, <2>11 DEF ControlsOK
<1>17. CASE CloseFlag \/ CloseAdd \/ CloseNotify
  BY <1>17 DEF CloseFlag, CloseAdd, CloseNotify, closed
<1> QED BY <1>8, <1>9, <1>10, <1>11, <1>12, <1>13, <1>14, <1>15, <1>16, <1>17
        DEF Next, WorkerStep, ReaderStep, CloseStep

\* Every step keeps the releases in step with the ring.
LEMMA LeasesStep ==
  ASSUME IInv, [Next]_vars
  PROVE  LeasesOK'
<1>1. TypeOK /\ RingOK /\ WriterOK /\ OrderOK /\ ReaderOK /\ LeasesOK
  BY DEF IInv, Parts
<1>2. /\ Pending \in Nat /\ Held \in Nat /\ Filled \in Nat /\ attempts \in Nat
      /\ Filled \in {Pending, Pending + 1}
      /\ recycles \in [Ordinals -> Nat]
      /\ Ordinals \subseteq Nat
  BY <1>1, Positions, SMT DEF TypeOK, Ordinals
<1>3. /\ \A r \in releases :
           /\ \/ \E i \in 1..Filled : Leased(r, i)
              \/ Age(r) \in 1..Held
                 /\ \A i \in 1..Pending : Entry(i).id # r.lease
           /\ recycles[r.lease] = 0 /\ r.lease <= attempts
           /\ Age(r) <= Held + Pending /\ Holding => r.lease < attempts
      /\ \A i \in 1..Filled : Entry(i).kind = "shared" =>
           \E r \in releases : Leased(r, i)
      /\ \A n \in Ordinals :
           /\ recycles[n] <= 1
           /\ recycles[n] = 1 => \A i \in 1..Pending : Entry(i).id # n
           /\ n > attempts \/ (Holding /\ n = attempts) => recycles[n] = 0
      /\ NoLeaseLeaked
  BY <1>1 DEF LeasesOK
<1>4. \A r \in releases : r.sequence \in Sequences /\ r.lease \in Ordinals
  BY <1>1 DEF TypeOK
<1>5. ASSUME NEW r \in releases
      PROVE  /\ Age(r) \in 1..(Held + Filled)
             /\ Filled = Pending /\ Holding => r.lease < attempts
  <2>1. ASSUME NEW i \in 1..Filled, Leased(r, i)
        PROVE  Age(r) \in 1..(Held + Filled)
    BY <2>1, <1>2 DEF Leased
  <2>2. Age(r) \in 1..Held => Age(r) \in 1..(Held + Filled)
    BY <1>2
  <2>3. Age(r) \in 1..(Held + Filled)
    BY <1>3, <2>1, <2>2
  <2> QED BY <1>2, <1>3, <2>3
<1>6. ASSUME UNCHANGED << releases, recycles, attempts >>, Held' = Held,
             Pending' = Pending, Filled' = Filled, \A r : Age(r)' = Age(r),
             \A i \in 1..Filled : Entry(i)' = Entry(i),
             Holding' => Holding, NoLeaseLeaked'
      PROVE  LeasesOK'
  <2>1. \A r : \A i \in 1..Filled : Leased(r, i)' <=> Leased(r, i)
    BY <1>6 DEF Leased
  <2>2. \A i \in 1..Pending : Entry(i)' = Entry(i)
    BY <1>2, <1>6
  <2> QED BY <1>3, <1>6, <2>1, <2>2 DEF LeasesOK
<1>7. ASSUME UNCHANGED << slots, written, read, reclaimed, releases, leaseVars,
                          attempts >>,
             (writer' = "publish") <=> (writer = "publish"), Holding' => Holding
      PROVE  LeasesOK'
  <2>1. /\ Held' = Held /\ Pending' = Pending /\ Filled' = Filled
        /\ (\A r : Age(r)' = Age(r)) /\ (\A i : Entry(i)' = Entry(i))
    BY <1>7, Still DEF Filled
  <2>2. NoLeaseLeaked'
    BY <1>3, <1>7 DEF NoLeaseLeaked, leaseVars
  <2> QED BY <1>6, <1>7, <2>1, <2>2 DEF leaseVars
<1>8. ASSUME Reclaim, writer = "idle",
             UNCHANGED << slots, written, read, copied >>,
             \/ writer' = "idle" /\ attempts' = attempts
             \/ writer' = "reserve" /\ attempts' = attempts + 1
      PROVE  LeasesOK'
  <2>1. /\ Pending' = Pending /\ Held' = 0 /\ (\A i : Entry(i)' = Entry(i))
        /\ \A r \in releases :
             /\ Acknowledged(r) <=> Age(r) \in 1..Held
             /\ Age(r) > Held => Age(r)' = Age(r) - Held
    BY <1>1, <1>8, AfterReclaim
  <2>2. Filled = Pending /\ Filled' = Pending /\ ~Holding
    BY <1>8, <2>1 DEF Filled, Holding
  <2>3. /\ releases' = {r \in releases : ~Acknowledged(r)}
        /\ \A n \in Ordinals : recycles'[n] =
             IF \E r \in releases : r.lease = n /\ Acknowledged(r)
             THEN recycles[n] + 1 ELSE recycles[n]
    BY <1>8 DEF Reclaim
  <2>4. ASSUME NEW r \in releases, NEW i \in 1..Filled, Leased(r, i)
        PROVE  r \in releases' /\ Leased(r, i)'
    <3>1. Age(r) = Held + i /\ Age(r) > Held
      BY <2>4, <1>2 DEF Leased
    <3>2. Age(r)' = i /\ ~Acknowledged(r)
      BY <3>1, <2>1, <1>2
    <3> QED BY <3>2, <2>1, <2>3, <2>4, <1>2 DEF Leased
  <2>5. ASSUME NEW r \in releases
        PROVE  /\ r \notin releases' => Age(r) \in 1..Held
                    /\ \A i \in 1..Pending : Entry(i).id # r.lease
               /\ r \in releases' => \E i \in 1..Filled : Leased(r, i)
    <3>1. ASSUME NEW i \in 1..Filled, Leased(r, i)
          PROVE  ~(Age(r) \in 1..Held)
      BY <3>1, <1>2 DEF Leased
    <3> QED BY <3>1, <2>1, <2>3, <2>4, <1>3
  <2>6. ASSUME NEW n \in Ordinals
        PROVE  \/ recycles'[n] = recycles[n]
                  /\ \A r \in releases : r.lease = n => r \in releases'
               \/ /\ recycles[n] = 0 /\ recycles'[n] = 1 /\ n <= attempts
                  /\ \A i \in 1..Pending : Entry(i).id # n
    <3>1. CASE \E r \in releases : r.lease = n /\ Acknowledged(r)
      <4>1. PICK r \in releases : r.lease = n /\ Acknowledged(r)
        BY <3>1
      <4>2. r \notin releases' /\ recycles'[n] = recycles[n] + 1
        BY <4>1, <2>3
      <4> QED BY <4>1, <4>2, <2>5, <1>2, <1>3
    <3>2. CASE ~\E r \in releases : r.lease = n /\ Acknowledged(r)
      BY <3>2, <2>3
    <3> QED BY <3>1, <3>2
  <2>7. ASSUME NEW r \in releases'
        PROVE  /\ \E i \in 1..Filled' : Leased(r, i)'
               /\ recycles'[r.lease] = 0 /\ r.lease <= attempts'
               /\ Holding' => r.lease < attempts'
    <3>1. r \in releases
      BY <2>3
    <3>2. PICK i \in 1..Filled : Leased(r, i)
      BY <2>5, <3>1
    <3>3. Leased(r, i)' /\ i \in 1..Filled'
      BY <3>1, <3>2, <2>2, <2>4
    <3>4. recycles'[r.lease] = 0
      <4>1. i \in 1..Pending /\ Entry(i).id = r.lease
        BY <3>2, <2>2 DEF Leased
      <4> QED BY <4>1, <3>1, <2>6, <1>3, <1>4
    <3>5. r.lease <= attempts' /\ (Holding' => r.lease < attempts')
      <4>1. r.lease <= attempts /\ r.lease \in Nat
        BY <3>1, <1>2, <1>3, <1>4
      <4> QED BY <4>1, <1>2, <1>8 DEF Holding
    <3> QED BY <3>3, <3>4, <3>5
  <2>8. ASSUME NEW i \in 1..Filled, Entry(i).kind = "shared"
        PROVE  \E r \in releases' : Leased(r, i)'
    BY <2>4, <2>8, <1>3
  <2>9. ASSUME NEW n \in Ordinals
        PROVE  /\ recycles'[n] <= 1
               /\ recycles'[n] = 1 => \A i \in 1..Pending : Entry(i).id # n
               /\ n > attempts' \/ (Holding' /\ n = attempts') => recycles'[n] = 0
    <3>1. n > attempts' \/ (Holding' /\ n = attempts') => n > attempts
      BY <1>2, <1>8 DEF Holding
    <3> QED BY <3>1, <2>6, <1>2, <1>3
  <2>10. NoLeaseLeaked'
    <3>1. ASSUME NEW n \in copied
          PROVE  recycles'[n] = 1 \/ \E r \in releases' : r.lease = n
      <4>1. n \in Ordinals
        BY <1>1 DEF TypeOK
      <4>2. recycles[n] = 1 \/ \E r \in releases : r.lease = n
        BY <1>3 DEF NoLeaseLeaked
      <4> QED BY <4>1, <4>2, <2>6
    <3> QED BY <3>1, <1>8 DEF NoLeaseLeaked
  <2> QED BY <2>1, <2>2, <2>7, <2>8, <2>9, <2>10 DEF LeasesOK
<1>9. ASSUME ReturnLease, Holding, ~Holding', Filled = Pending,
             UNCHANGED << written, read, reclaimed, releases, copied, attempts >>,
             \A i \in 1..Pending : Entry(i)' = Entry(i)
      PROVE  LeasesOK'
  <2>1. /\ Pending' = Pending /\ Held' = Held /\ \A r : Age(r)' = Age(r)
    BY <1>9 DEF Pending, Held, Age
  <2>2. Filled' = Pending
    BY <1>9, <2>1 DEF Filled, Holding
  <2>3. reply \in Replies /\ reply.id = attempts /\ attempts \in Ordinals
        /\ recycles[attempts] = 0
    <3>1. reply \in Replies /\ reply.id = attempts
      BY <1>1, <1>9 DEF WriterOK
    <3> QED BY <3>1, <1>3, <1>9 DEF Replies
  <2>4. ASSUME NEW n \in Ordinals
        PROVE  /\ n # attempts => recycles'[n] = recycles[n]
               /\ n = attempts => recycles'[n] \in {0, 1}
    BY <1>2, <1>9, <2>3, <2>4 DEF ReturnLease
  <2>5. \A r : \A i \in 1..Pending : Leased(r, i)' <=> Leased(r, i)
    BY <1>9, <2>1 DEF Leased
  <2>6. ASSUME NEW r \in releases
        PROVE  r.lease < attempts /\ recycles'[r.lease] = 0
    <3>1. r.lease < attempts /\ r.lease \in Ordinals /\ recycles[r.lease] = 0
      BY <1>3, <1>4, <1>5, <1>9
    <3>2. r.lease # attempts
      BY <3>1, <1>2
    <3> QED BY <3>1, <3>2, <2>4
  <2>7. ASSUME NEW n \in Ordinals
        PROVE  /\ recycles'[n] <= 1
               /\ recycles'[n] = 1 => \A i \in 1..Pending : Entry(i).id # n
               /\ n > attempts => recycles'[n] = 0
    <3>1. \A i \in 1..Pending : Entry(i).id < attempts /\ Entry(i).id \in Nat
      BY <1>1, <1>2, <1>9 DEF OrderOK, Replies
    <3> QED BY <3>1, <2>4, <1>2, <1>3
  <2>8. NoLeaseLeaked'
    <3>1. ASSUME NEW n \in copied
          PROVE  recycles'[n] = 1 \/ \E r \in releases : r.lease = n
      <4>1. n \in Ordinals
        BY <1>1 DEF TypeOK
      <4> QED BY <4>1, <2>3, <2>4, <1>3 DEF NoLeaseLeaked
    <3> QED BY <3>1, <1>9 DEF NoLeaseLeaked
  <2>9. \A r \in releases :
          /\ \/ \E i \in 1..Pending : Leased(r, i)'
             \/ Age(r)' \in 1..Held' /\ \A i \in 1..Pending : Entry(i)'.id # r.lease
          /\ r.lease <= attempts
    BY <1>3, <1>9, <2>1, <2>5
  <2>10. \A i \in 1..Pending : Entry(i)'.kind = "shared" =>
           \E r \in releases : Leased(r, i)'
    BY <1>3, <1>9, <2>5
  <2>11. \A n \in Ordinals :
           recycles'[n] = 1 => \A i \in 1..Pending : Entry(i)'.id # n
    BY <1>9, <2>7
  <2> QED BY <1>9, <2>1, <2>2, <2>6, <2>7, <2>8, <2>9, <2>10, <2>11 DEF LeasesOK
<1>10. CASE DispatchReclaim
  BY <1>8, <1>10 DEF DispatchReclaim, mailboxVars, readerVars
<1>11. ASSUME NEW kind \in Kinds, BeginReply(kind)
       PROVE  LeasesOK'
  BY <1>8, <1>11 DEF BeginReply, mailboxVars, readerVars
<1>12. CASE RefuseReply
  <2>1. \A i : Entry(i)' = Entry(i)
    BY <1>12 DEF RefuseReply, Entry, mailboxVars, readerVars
  <2> QED BY <1>9, <1>12, <2>1
          DEF RefuseReply, Holding, Filled, mailboxVars, readerVars
<1>13. CASE RejectReply
  <2>1. \A i \in 1..Pending : Entry(i)' = Entry(i)
    BY <1>1, <1>13, AfterFill DEF RejectReply, RingOK, readerVars
  <2> QED BY <1>9, <1>13, <2>1
          DEF RejectReply, Holding, Filled, readerVars
<1>14. CASE ReserveSlot
  BY <1>7, <1>14 DEF ReserveSlot, Holding, mailboxVars, readerVars
<1>15. CASE WriteSlot
  <2>1. /\ Pending' = Pending /\ Held' = Held /\ (\A r : Age(r)' = Age(r))
        /\ (\A i \in 1..Pending : Entry(i)' = Entry(i))
        /\ (\A i : i = Pending + 1 => Entry(i)' = reply)
        /\ Pending + Held < Capacity
    BY <1>1, <1>15, AfterFill DEF WriteSlot, RingOK, readerVars
  <2>2. /\ Filled = Pending /\ Holding /\ Holding'
        /\ UNCHANGED << written, reclaimed, recycles, copied, attempts >>
    BY <1>15 DEF WriteSlot, Filled, Holding, leaseVars
  <2>3. reply \in Replies /\ reply.id = attempts /\ attempts \in Ordinals
    BY <1>1, <2>2 DEF WriterOK, Replies
  <2>4. CASE reply.kind = "control"
    <3>1. writer' = "send" /\ UNCHANGED releases
      BY <1>15, <2>4 DEF WriteSlot
    <3>2. Filled' = Filled /\ NoLeaseLeaked'
      BY <1>3, <2>1, <2>2, <3>1 DEF Filled, NoLeaseLeaked
    <3> QED BY <1>6, <2>1, <2>2, <3>1, <3>2
  <2>5. CASE reply.kind # "control"
    <3> PICK new : new = [sequence |-> Following(written), lease |-> attempts]
      OBVIOUS
    <3>1. /\ writer' = "publish" /\ Filled' = Pending + 1
          /\ reply = [kind |-> "shared", id |-> attempts]
      BY <1>15, <2>1, <2>3, <2>5 DEF WriteSlot, Filled, Replies, Kinds
    <3>2. Age(new) = Held + Pending + 1
      <4>1. Distance(written, reclaimed) = Held + Pending
            /\ Held + Pending < Modulus - 1
        BY <1>1, <1>2, <2>1, Positions, Constants
      <4> QED BY <4>1, <1>1, DistanceOfFollowing DEF Age, TypeOK
    <3>3. \A r \in releases : r.sequence # Following(written)
      BY <1>2, <1>5, <2>2, <3>2 DEF Age
    <3>4. releases' = releases \cup {new}
      BY <1>15, <2>3, <2>5, <3>3 DEF WriteSlot
    <3>5. \A r : \A i \in 1..Filled : Leased(r, i)' <=> Leased(r, i)
      BY <2>1, <2>2 DEF Leased
    <3>6. \A i : i = Pending + 1 => i \in 1..Filled' /\ Leased(new, i)'
      <4>1. ASSUME NEW i, i = Pending + 1
            PROVE  Leased(new, i)'
        <5>1. Age(new)' = Held' + i
          BY <1>2, <2>1, <3>2, <4>1
        <5>2. Entry(i)' = [kind |-> "shared", id |-> new.lease]
          BY <2>1, <3>1, <4>1
        <5> QED BY <5>1, <5>2 DEF Leased
      <4> QED BY <4>1, <1>2, <3>1
    <3>7. ASSUME NEW r \in releases'
          PROVE  /\ \/ \E i \in 1..Filled' : Leased(r, i)'
                    \/ Age(r)' \in 1..Held'
                       /\ \A i \in 1..Pending : Entry(i).id # r.lease
                 /\ recycles[r.lease] = 0 /\ r.lease <= attempts
                 /\ Age(r)' <= Held + Pending => r.lease < attempts
      <4>1. CASE r \in releases
        <5>1. ASSUME NEW i \in 1..Filled, Leased(r, i)
              PROVE  \E j \in 1..Filled' : Leased(r, j)'
          BY <5>1, <1>2, <2>2, <3>1, <3>5
        <5> QED BY <4>1, <5>1, <1>3, <1>5, <2>1, <2>2
      <4>2. CASE r = new
        BY <4>2, <1>2, <1>3, <2>1, <2>2, <2>3, <3>2, <3>6
      <4> QED BY <3>4, <4>1, <4>2
    <3>8. ASSUME NEW i \in 1..Filled', Entry(i)'.kind = "shared"
          PROVE  \E r \in releases' : Leased(r, i)'
      <4>1. CASE i \in 1..Filled
        BY <4>1, <1>3, <2>1, <2>2, <3>4, <3>5, <3>8
      <4>2. CASE i = Pending + 1
        BY <4>2, <3>4, <3>6
      <4> QED BY <4>1, <4>2, <1>2, <2>2, <3>1
    <3>9. NoLeaseLeaked'
      BY <1>3, <2>2, <3>4 DEF NoLeaseLeaked
    <3> QED BY <1>3, <2>1, <2>2, <3>7, <3>8, <3>9 DEF LeasesOK
  <2> QED BY <2>4, <2>5
<1>16. CASE SendEnvelope
  <2>1. /\ Filled = Pending /\ Filled' = Pending + 1 /\ Pending' = Pending
        /\ Held' = Held /\ (\A r : Age(r)' = Age(r))
        /\ (\A i : Entry(i)' = Entry(i))
        /\ Holding /\ Holding'
        /\ UNCHANGED << releases, recycles, copied, attempts >>
    BY <1>16, Still
       DEF SendEnvelope, Filled, Pending, Holding, mailboxVars, readerVars,
           leaseVars
  <2>2. \A r : \A i \in 1..Filled : Leased(r, i) => i \in 1..Filled' /\ Leased(r, i)'
    BY <1>2, <2>1 DEF Leased
  <2>3. ASSUME NEW i \in 1..Filled', Entry(i).kind = "shared"
        PROVE  i \in 1..Filled
    <3>1. ASSUME i = Pending + 1
          PROVE  FALSE
      <4>1. i - 1 = Pending
        BY <3>1, <1>2
      <4>2. Entry(i) = reply /\ reply.kind = "control"
        BY <4>1, <1>1, <1>16, Positions DEF Entry, WriterOK, SendEnvelope
      <4> QED BY <4>2, <2>3
    <3> QED BY <3>1, <1>2, <2>1
  <2>4. ASSUME NEW r \in releases
        PROVE  \/ \E i \in 1..Filled' : Leased(r, i)'
               \/ Age(r)' \in 1..Held'
                  /\ \A i \in 1..Pending : Entry(i).id # r.lease
    BY <1>3, <2>1, <2>2
  <2>5. \A i \in 1..Filled' : Entry(i)'.kind = "shared" =>
          \E r \in releases : Leased(r, i)'
    BY <1>3, <2>1, <2>2, <2>3
  <2>6. NoLeaseLeaked'
    BY <1>3, <2>1 DEF NoLeaseLeaked
  <2> QED BY <1>3, <2>1, <2>4, <2>5, <2>6 DEF LeasesOK
<1>17. CASE PublishSlot
  <2>1. /\ Pending + Held < Capacity /\ Holding /\ ~Holding'
        /\ Filled = Pending + 1 /\ Filled' = Pending'
        /\ UNCHANGED << releases, recycles, copied, attempts >>
    BY <1>1, <1>17 DEF PublishSlot, RingOK, Filled, Holding, leaseVars
  <2>2. /\ Pending' = Pending + 1 /\ Held' = Held
        /\ (\A i : Entry(i)' = Entry(i)) /\ (\A r : Age(r)' = Age(r))
    BY <1>1, <1>17, <2>1, AfterPublish DEF PublishSlot, readerVars
  <2>3. \A i : i = Pending + 1 => Entry(i).id = attempts
    <3>1. ASSUME NEW i, i = Pending + 1
          PROVE  Entry(i).id = attempts
      <4>1. i - 1 = Pending
        BY <3>1, <1>2
      <4> QED BY <4>1, <1>1, <1>17, <2>1, Positions
              DEF Entry, WriterOK, PublishSlot
    <3> QED BY <3>1
  <2>4. \A r : \A i : Leased(r, i)' <=> Leased(r, i)
    BY <2>2 DEF Leased
  <2>5. ASSUME NEW r \in releases, Age(r) \in 1..Held,
               \A i \in 1..Pending : Entry(i).id # r.lease
        PROVE  \A i \in 1..(Pending + 1) : Entry(i).id # r.lease
    <3>1. r.lease < attempts /\ r.lease \in Nat
      <4>1. Age(r) <= Held + Pending
        BY <2>5, <1>2
      <4> QED BY <4>1, <2>1, <1>2, <1>3, <1>4
    <3> QED BY <3>1, <2>3, <2>5, <1>2
  <2>6. ASSUME NEW n \in Ordinals, recycles[n] = 1
        PROVE  \A i \in 1..(Pending + 1) : Entry(i).id # n
    <3>1. n # attempts
      BY <2>1, <2>6, <1>3
    <3> QED BY <3>1, <2>3, <2>6, <1>2, <1>3
  <2>7. NoLeaseLeaked'
    BY <1>3, <2>1 DEF NoLeaseLeaked
  <2> QED BY <1>3, <2>1, <2>2, <2>4, <2>5, <2>6, <2>7 DEF LeasesOK
<1>18. CASE NotifyReader
  BY <1>7, <1>18 DEF NotifyReader, Holding, mailboxVars
<1>19. CASE CopyLease
  <2>1. /\ UNCHANGED << slots, written, read, reclaimed, releases, recycles,
                        attempts, writer >>
        /\ copied' = copied \cup {response.id}
        /\ Pending >= 1 /\ response = Entry(1) /\ response.kind = "shared"
    BY <1>1, <1>19
       DEF CopyLease, ReaderOK, Reading, mailboxVars, writerVars
  <2>2. \E r \in releases : r.lease = response.id
    <3>1. PICK r \in releases : Leased(r, 1)
      BY <1>2, <1>3, <2>1
    <3> QED BY <3>1, <2>1 DEF Leased
  <2>3. NoLeaseLeaked'
    BY <1>3, <2>1, <2>2 DEF NoLeaseLeaked
  <2>4. /\ Held' = Held /\ Pending' = Pending /\ Filled' = Filled
        /\ (\A r : Age(r)' = Age(r)) /\ (\A i : Entry(i)' = Entry(i))
        /\ (Holding' => Holding)
    BY <2>1, Still DEF Filled, Holding
  <2> QED BY <1>6, <2>1, <2>3, <2>4
<1>20. CASE AcknowledgeSlot
  <2>1. /\ Pending >= 1 /\ (Holding' <=> Holding)
        /\ UNCHANGED << slots, written, reclaimed, writer, releases, recycles,
                        copied, attempts >>
    BY <1>1, <1>20
       DEF AcknowledgeSlot, ReaderOK, Reading, Holding, writerVars, leaseVars
  <2>2. /\ Pending' = Pending - 1 /\ Held' = Held + 1 /\ Filled' = Filled - 1
        /\ (\A i \in Int : Entry(i)' = Entry(i + 1))
        /\ (\A r : Age(r)' = Age(r))
    BY <1>1, <1>2, <1>20, <2>1, AfterAcknowledge DEF AcknowledgeSlot, Filled
  <2>3. ASSUME NEW r \in releases
        PROVE  \/ \E i \in 1..Filled' : Leased(r, i)'
               \/ Age(r)' \in 1..Held'
                  /\ \A i \in 1..Pending' : Entry(i)'.id # r.lease
    <3>1. ASSUME NEW i \in 1..Filled, i # 1, Leased(r, i)
          PROVE  \E j \in 1..Filled' : Leased(r, j)'
      <4>1. i - 1 \in 1..Filled' /\ i - 1 + 1 = i
        BY <3>1, <1>2, <2>2
      <4>2. PICK j : j = i - 1
        OBVIOUS
      <4>3. Leased(r, j)'
        BY <3>1, <4>1, <4>2, <1>2, <2>2 DEF Leased
      <4> QED BY <4>1, <4>2, <4>3
    <3>2. ASSUME Leased(r, 1)
          PROVE  Age(r)' \in 1..Held' /\ \A i \in 1..Pending' : Entry(i)'.id # r.lease
      <4>1. Age(r)' \in 1..Held' /\ Entry(1).id = r.lease
        BY <3>2, <1>2, <2>2 DEF Leased
      <4>2. ASSUME NEW i \in 1..Pending'
            PROVE  Entry(i)'.id # r.lease
        <5>1. /\ i + 1 \in 1..Pending /\ 1 \in 1..Pending /\ 1 < i + 1
              /\ Entry(i)' = Entry(i + 1)
          BY <1>2, <2>2
        <5>2. Entry(1).id < Entry(i + 1).id /\ Entry(1).id \in Nat
          BY <5>1, <1>1, <1>2 DEF OrderOK, Replies
        <5> QED BY <4>1, <5>1, <5>2
      <4> QED BY <4>1, <4>2
    <3>3. ASSUME Age(r) \in 1..Held, \A i \in 1..Pending : Entry(i).id # r.lease
          PROVE  Age(r)' \in 1..Held' /\ \A i \in 1..Pending' : Entry(i)'.id # r.lease
      <4>1. \A i \in 1..Pending' : i + 1 \in 1..Pending /\ Entry(i)' = Entry(i + 1)
        BY <1>2, <2>2
      <4> QED BY <3>3, <4>1, <1>2, <2>2
    <3> QED BY <3>1, <3>2, <3>3, <1>3
  <2>4. ASSUME NEW i \in 1..Filled', Entry(i)'.kind = "shared"
        PROVE  \E r \in releases : Leased(r, i)'
    <3>1. i + 1 \in 1..Filled /\ Entry(i)' = Entry(i + 1) /\ Held + (i + 1) = Held' + i
      BY <1>2, <2>2
    <3>2. PICK r \in releases : Leased(r, i + 1)
      BY <3>1, <2>4, <1>3
    <3> QED BY <3>1, <3>2, <2>2 DEF Leased
  <2>5. ASSUME NEW n \in Ordinals, recycles[n] = 1
        PROVE  \A i \in 1..Pending' : Entry(i)'.id # n
    <3>1. \A i \in 1..Pending' : i + 1 \in 1..Pending /\ Entry(i)' = Entry(i + 1)
      BY <1>2, <2>2
    <3> QED BY <3>1, <2>5, <1>3
  <2>6. NoLeaseLeaked'
    BY <1>3, <2>1 DEF NoLeaseLeaked
  <2>7. Held' + Pending' = Held + Pending
    BY <1>2, <2>2
  <2> QED BY <1>3, <2>1, <2>2, <2>3, <2>4, <2>5, <2>6, <2>7 DEF LeasesOK
<1>21. CASE LoadWord \/ WaitAsync \/ ReadSlot \/ TakeControl \/ Receive
            \/ Accept \/ CloseFlag \/ CloseAdd \/ CloseNotify \/ UNCHANGED vars
  BY <1>7, <1>21
     DEF LoadWord, WaitAsync, ReadSlot, TakeControl, Receive, Accept, CloseFlag,
         CloseAdd, CloseNotify, Holding, vars, mailboxVars, writerVars,
         readerVars, leaseVars
<1> QED BY <1>10, <1>11, <1>12, <1>13, <1>14, <1>15, <1>16, <1>17, <1>18,
           <1>19, <1>20, <1>21
        DEF Next, WorkerStep, ReaderStep, CloseStep

-----------------------------------------------------------------------------

\* The invariant is inductive.
LEMMA Inductive == IInv /\ [Next]_vars => IInv'
<1> SUFFICES ASSUME IInv, [Next]_vars PROVE IInv'
  OBVIOUS
<1> QED BY TypeStep, RingStep, WriterStep, OrderStep, LoopStep,
           ControlsStep, LeasesStep DEF IInv, Parts

\* It holds in every reachable state.
LEMMA Invariant == Spec => []IInv
BY Initially, Inductive, PTL DEF Spec

\* The queue of unread replies, entry by entry.
UnreadIsAList ==
  /\ Pending \in Nat
  /\ Unread = [i \in 1..Pending |-> Entry(i)]
  /\ Unread \in Seq(Replies) /\ Len(Unread) = Pending

\* It is read off the ring.
LEMMA UnreadEntries == IInv => UnreadIsAList
<1> SUFFICES ASSUME IInv PROVE UnreadIsAList
  OBVIOUS
<1>1. Pending \in Nat /\ read \in Int /\ OrderOK
  BY Positions DEF IInv, Parts, TypeOK, Sequences
<1>2. ASSUME NEW i \in 1..Pending
      PROVE  slots[SlotAt((read + i - 1) % Modulus)] = Entry(i)
  <2>1. read + i - 1 = read + (i - 1)
    BY <1>1
  <2> QED BY <2>1 DEF Entry, At
<1>3. Unread = [i \in 1..Pending |-> Entry(i)]
  BY <1>2 DEF Unread, Pending
<1>4. \A i \in 1..Pending : Entry(i) \in Replies
  BY <1>1 DEF OrderOK
<1> QED BY <1>1, <1>3, <1>4 DEF UnreadIsAList

\* The types of the mailbox's state hold throughout.
THEOREM TypesHold == Spec => []TypeOK
<1>1. IInv => TypeOK
  BY DEF IInv
<1> QED BY <1>1, Invariant, PTL

\* Neither thread ever meets an error of the protocol; a lease is given back
\* once, not before the page has copied it, and none is forgotten.
THEOREM ThreadsAlwaysAgree == Spec => []ThreadsAgree
<1>1. ASSUME IInv
      PROVE  ThreadsAgree
  <2>1. TypeOK /\ RingOK /\ OrderOK /\ ReaderOK /\ LeasesOK
    BY <1>1 DEF IInv, Parts
  <2>2. NoProtocolError
    <3>1. Distance(acknowledged, reclaimed) = Held /\ Held <= Capacity
      BY <2>1, Positions, Constants DEF RingOK, Held
    <3> QED BY <2>1, <3>1 DEF NoProtocolError, ReaderOK
  <2>3. LeaseReturnedOnceAfterCopy
    <3>1. DOMAIN Unread = 1..Pending
          /\ \A i \in 1..Pending : Unread[i] = Entry(i)
      BY <1>1, UnreadEntries DEF UnreadIsAList
    <3> QED BY <2>1, <3>1 DEF LeaseReturnedOnceAfterCopy, LeasesOK
  <2>4. NoLeaseLeaked
    BY <2>1 DEF LeasesOK
  <2> QED BY <2>2, <2>3, <2>4 DEF ThreadsAgree
<1> QED BY <1>1, Invariant, PTL

-----------------------------------------------------------------------------

\* A reply the loop has acknowledged and not yet delivered heads the queue.
LEMMA QueueTypes ==
  ASSUME IInv
  PROVE  /\ Unread \in Seq(Replies) /\ InFlight \in Seq(Replies)
         /\ reader # "receive" => InFlight = Unread
         /\ reader = "receive" => InFlight = << response >> \o Unread
<1>1. Unread \in Seq(Replies) /\ (reader = "receive" => response \in Replies)
  BY UnreadEntries DEF UnreadIsAList, IInv, Parts, ReaderOK
<1>2. reader # "receive" => InFlight = Unread
  BY <1>1, ConcatEmptySeq DEF InFlight
<1>3. reader = "receive" =>
        InFlight = << response >> \o Unread /\ << response >> \in Seq(Replies)
  BY <1>1 DEF InFlight
<1> QED BY <1>1, <1>2, <1>3, ConcatProperties

\* Publication appends, delivery removes the head, close() closes, and every
\* other step, the overwriting of a slot included, leaves the queue alone.
LEMMA StepImplementsFifo ==
  ASSUME IInv, IInv', [Next]_vars
  PROVE  [Fifo!Next]_<< InFlight, closed >>
<1>1. TypeOK /\ RingOK /\ WriterOK /\ OrderOK /\ ReaderOK
  BY DEF IInv, Parts
<1>2. /\ Unread = [i \in 1..Pending |-> Entry(i)] /\ Pending \in Nat
      /\ Unread \in Seq(Replies) /\ Len(Unread) = Pending
  BY UnreadEntries DEF UnreadIsAList
<1>3. /\ Unread' = [i \in 1..Pending' |-> Entry(i)'] /\ Pending' \in Nat
      /\ Unread' \in Seq(Replies) /\ Len(Unread') = Pending'
  <2>1. (IInv => UnreadIsAList)'
    BY UnreadEntries, PTL
  <2> QED BY <2>1 DEF UnreadIsAList
<1>4. ASSUME Pending' = Pending, \A i \in 1..Pending : Entry(i)' = Entry(i),
             reader # "receive", reader' # "receive"
      PROVE  InFlight' = InFlight
  <2>1. Unread' = Unread
    BY <1>2, <1>3, <1>4
  <2> QED BY <1>4, <2>1 DEF InFlight
<1>5. ASSUME Pending' = Pending, \A i \in 1..Pending : Entry(i)' = Entry(i),
             UNCHANGED << reader, response >>
      PROVE  InFlight' = InFlight
  <2>1. Unread' = Unread
    BY <1>2, <1>3, <1>5
  <2> QED BY <1>5, <2>1 DEF InFlight
<1>6. ASSUME InFlight' = InFlight, closed' = closed
      PROVE  [Fifo!Next]_<< InFlight, closed >>
  BY <1>6
<1>7. CASE DispatchReclaim \/ RefuseReply \/ ReserveSlot \/ SendEnvelope
           \/ Accept \/ CloseAdd \/ UNCHANGED vars
  <2>1. UNCHANGED << slots, written, read, reader, response, closing >>
        \/ CloseAdd
    BY <1>7 DEF DispatchReclaim, RefuseReply, ReserveSlot, SendEnvelope, Accept,
                vars, mailboxVars, writerVars, readerVars
  <2>2. UNCHANGED << slots, written, read, reader, response >> /\ closed' = closed
    BY <2>1 DEF CloseAdd, closed, writerVars, readerVars
  <2>3. Pending' = Pending /\ \A i : Entry(i)' = Entry(i)
    BY <2>2 DEF Pending, Entry
  <2> QED BY <1>5, <1>6, <2>2, <2>3
<1>8. ASSUME NEW kind \in Kinds, BeginReply(kind)
      PROVE  [Fifo!Next]_<< InFlight, closed >>
  <2>1. UNCHANGED << slots, written, read, reader, response >> /\ closed' = closed
    BY <1>8 DEF BeginReply, closed, mailboxVars, readerVars
  <2>2. Pending' = Pending /\ \A i : Entry(i)' = Entry(i)
    BY <2>1 DEF Pending, Entry
  <2> QED BY <1>5, <1>6, <2>1, <2>2
<1>9. CASE WriteSlot \/ RejectReply
  <2>1. Pending' = Pending /\ \A i \in 1..Pending : Entry(i)' = Entry(i)
    BY <1>1, <1>9, AfterFill DEF WriteSlot, RejectReply, RingOK, readerVars
  <2>2. UNCHANGED << reader, response >> /\ closed' = closed
    BY <1>9 DEF WriteSlot, RejectReply, closed, readerVars
  <2> QED BY <1>5, <1>6, <2>1, <2>2
<1>10. CASE PublishSlot
  <2>1. /\ Pending + Held < Capacity /\ UNCHANGED << reader, response, closing >>
        /\ reply \in Replies /\ slots[SlotAt(written)] = reply
    BY <1>1, <1>10 DEF PublishSlot, RingOK, WriterOK, Holding, readerVars
  <2>2. Pending' = Pending + 1 /\ \A i : Entry(i)' = Entry(i)
    BY <1>1, <1>10, <2>1, AfterPublish DEF PublishSlot, readerVars
  <2>3. \A i : i = Pending + 1 => Entry(i) = reply
    <3>1. ASSUME NEW i, i = Pending + 1
          PROVE  Entry(i) = reply
      <4>1. i - 1 = Pending
        BY <1>2, <3>1
      <4> QED BY <4>1, <1>1, <2>1, Positions DEF Entry
    <3> QED BY <3>1
  <2>4. Unread' = Append(Unread, reply)
    <3>1. /\ Append(Unread, reply) \in Seq(Replies)
          /\ Len(Append(Unread, reply)) = Pending + 1
          /\ \A i \in 1..Pending : Append(Unread, reply)[i] = Unread[i]
          /\ Append(Unread, reply)[Pending + 1] = reply
      BY <1>2, <2>1, AppendProperties
    <3>2. ASSUME NEW i \in 1..(Pending + 1)
          PROVE  Unread'[i] = Append(Unread, reply)[i]
      <4>1. Unread'[i] = Entry(i)
        BY <1>3, <2>2
      <4>2. CASE i \in 1..Pending
        BY <4>1, <4>2, <1>2, <3>1
      <4>3. CASE i = Pending + 1
        BY <4>1, <4>3, <2>3, <3>1
      <4> QED BY <4>2, <4>3, <1>2
    <3> QED BY <1>3, <2>2, <3>1, <3>2, SeqEqual
  <2>5. InFlight' = Append(InFlight, reply)
    <3>1. CASE reader # "receive"
      BY <3>1, <2>1, <2>4, <1>3, QueueTypes, ConcatEmptySeq DEF InFlight
    <3>2. CASE reader = "receive"
      <4>1. /\ InFlight' = << response >> \o Append(Unread, reply)
            /\ InFlight = << response >> \o Unread
        BY <3>2, <2>1, <2>4 DEF InFlight
      <4>2. << response >> \in Seq(Replies) /\ << reply >> \in Seq(Replies)
        BY <3>2, <1>1, <2>1 DEF ReaderOK
      <4>3. Append(Unread, reply) = Unread \o << reply >>
        BY <1>2, <2>1, AppendIsConcat
      <4>4. Append(InFlight, reply) = InFlight \o << reply >>
        BY <2>1, QueueTypes, AppendIsConcat
      <4> QED BY <4>1, <4>2, <4>3, <4>4, <1>2, ConcatAssociative
    <3> QED BY <3>1, <3>2
  <2>6. closed' = closed
    BY <2>1 DEF closed
  <2>7. Fifo!Publish(reply)
    BY <2>5, <2>6 DEF Fifo!Publish
  <2> QED BY <2>1, <2>7 DEF Fifo!Next
<1>11. CASE NotifyReader \/ CloseNotify \/ LoadWord \/ WaitAsync \/ ReadSlot
            \/ CopyLease \/ TakeControl
  <2>1. UNCHANGED << slots, written, read >> /\ closed' = closed
    BY <1>11 DEF NotifyReader, CloseNotify, LoadWord, WaitAsync, ReadSlot,
                 CopyLease, TakeControl, closed, mailboxVars, writerVars
  <2>2. Pending' = Pending /\ \A i : Entry(i)' = Entry(i)
    BY <2>1 DEF Pending, Entry
  <2>3. \/ reader # "receive" /\ reader' # "receive"
        \/ UNCHANGED << reader, response >>
    BY <1>11 DEF NotifyReader, WakeWaiter, CloseNotify, LoadWord, WaitAsync,
                 ReadSlot, CopyLease, TakeControl
  <2> QED BY <1>4, <1>5, <1>6, <2>1, <2>2, <2>3
<1>12. CASE AcknowledgeSlot
  <2>1. /\ Pending >= 1 /\ response = Entry(1)
        /\ reader # "receive" /\ reader' = "receive"
        /\ UNCHANGED << response, closing >>
    BY <1>1, <1>12 DEF AcknowledgeSlot, ReaderOK, Reading
  <2>2. Pending' = Pending - 1 /\ \A i \in Int : Entry(i)' = Entry(i + 1)
    BY <1>1, <1>12, <2>1, AfterAcknowledge DEF AcknowledgeSlot, writerVars
  <2>3. response \in Replies /\ << response >> \in Seq(Replies)
    BY <1>1, <1>2, <2>1 DEF OrderOK
  <2>4. InFlight' = << response >> \o Unread'
    BY <2>1 DEF InFlight
  <2>5. << response >> \o Unread' = Unread
    <3>1. /\ << response >> \o Unread' \in Seq(Replies)
          /\ Len(<< response >> \o Unread') = Pending
          /\ \A i \in 1..Pending : (<< response >> \o Unread')[i] =
               IF i <= 1 THEN << response >>[i] ELSE Unread'[i - 1]
      <4>1. /\ << response >> \o Unread' \in Seq(Replies)
            /\ Len(<< response >> \o Unread') = Len(<< response >>) + Len(Unread')
            /\ \A i \in 1..(Len(<< response >>) + Len(Unread')) :
                 (<< response >> \o Unread')[i] =
                    IF i <= Len(<< response >>) THEN << response >>[i]
                    ELSE Unread'[i - Len(<< response >>)]
        BY <1>3, <2>3, ConcatProperties
      <4>2. Len(<< response >>) = 1 /\ 1 + Len(Unread') = Pending
        BY <1>2, <1>3, <2>2
      <4> QED BY <4>1, <4>2
    <3>2. ASSUME NEW i \in 1..Pending
          PROVE  (<< response >> \o Unread')[i] = Unread[i]
      <4>1. CASE i = 1
        BY <4>1, <3>1, <1>2, <2>1
      <4>2. CASE i # 1
        <5>1. i - 1 \in 1..(Pending - 1) /\ i - 1 + 1 = i /\ ~(i <= 1)
          BY <4>2, <1>2
        <5>2. PICK j : j = i - 1
          OBVIOUS
        <5>3. Unread'[j] = Entry(j)' /\ Entry(j)' = Entry(i)
          BY <5>1, <5>2, <1>3, <2>2
        <5> QED BY <5>1, <5>2, <5>3, <3>1, <1>2
      <4> QED BY <4>1, <4>2
    <3> QED BY <3>1, <3>2, <1>2, SeqEqual
  <2>6. InFlight = Unread
    BY <2>1, QueueTypes
  <2> QED BY <1>6, <2>1, <2>4, <2>5, <2>6 DEF closed
<1>13. CASE Receive
  <2>1. UNCHANGED << slots, written, read, closing >> /\ ~closed
        /\ reader = "receive" /\ reader' # "receive"
    BY <1>1, <1>13 DEF Receive, ReaderOK, mailboxVars, writerVars
  <2>2. Pending' = Pending /\ \A i : Entry(i)' = Entry(i)
    BY <2>1 DEF Pending, Entry
  <2>3. Unread' = Unread
    BY <1>2, <1>3, <2>2
  <2>4. InFlight = << response >> \o Unread /\ InFlight' = Unread
    <3>1. InFlight' = << >> \o Unread'
      BY <2>1 DEF InFlight
    <3> QED BY <3>1, <1>2, <2>1, <2>3, QueueTypes, ConcatEmptySeq
  <2>5. response \in Replies
    BY <1>1, <2>1 DEF ReaderOK
  <2>6. InFlight # << >> /\ Tail(InFlight) = Unread
    BY <1>2, <2>4, <2>5
  <2>7. Fifo!Deliver
    BY <2>1, <2>4, <2>6 DEF Fifo!Deliver, closed
  <2> QED BY <2>7 DEF Fifo!Next
<1>14. CASE CloseFlag
  <2>1. UNCHANGED << slots, written, read, reader, response >> /\ ~closed /\ closed'
    BY <1>14 DEF CloseFlag, closed, writerVars
  <2>2. Pending' = Pending /\ \A i : Entry(i)' = Entry(i)
    BY <2>1 DEF Pending, Entry
  <2>3. InFlight' = InFlight
    BY <1>5, <2>1, <2>2
  <2>4. Fifo!Close
    BY <2>1, <2>3 DEF Fifo!Close, closed
  <2> QED BY <2>4 DEF Fifo!Next
<1> QED BY <1>7, <1>8, <1>9, <1>10, <1>11, <1>12, <1>13, <1>14
        DEF Next, WorkerStep, ReaderStep, CloseStep

\* The mailbox implements one first-in first-out queue, for shared replies and
\* controls alike, closed once.
THEOREM MailboxIsAFifo == Spec => ImplementsFifo
<1>1. Init => Fifo!Init
  <2>1. ASSUME Init
        PROVE  Fifo!Init
    <3>1. IInv /\ reader # "receive" /\ ~closed
      BY <2>1, Initially DEF Init, closed
    <3>2. Unread \in Seq(Replies) /\ Len(Unread) = Pending /\ InFlight = Unread
      BY <3>1, QueueTypes, UnreadEntries DEF UnreadIsAList
    <3>3. Pending = 0
      <4>1. 0 \in Sequences /\ 0 \in 0..(Modulus - 1)
        BY Constants DEF Sequences
      <4>2. Distance(At(0, 0), 0) = 0 /\ At(0, 0) = 0
        BY <4>1, AtZero, DistanceOfAt
      <4> QED BY <2>1, <4>2 DEF Init, Pending
    <3> QED BY <3>1, <3>2, <3>3, EmptySeq DEF Fifo!Init, closed
  <2> QED BY <2>1
<1>2. IInv /\ IInv' /\ [Next]_vars => [Fifo!Next]_<< InFlight, closed >>
  BY StepImplementsFifo
<1> QED BY <1>1, <1>2, Invariant, PTL DEF Spec, ImplementsFifo, Fifo!Spec
====
