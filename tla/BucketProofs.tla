---------------------------- MODULE BucketProofs ----------------------------
(***************************************************************************)
(* What a bucket lets through: first when everyone takes the same from it,  *)
(* as the requests of a provider do, whoever gives up; then when each takes *)
(* its own, as their tokens do.  queue is who waits for a reservation, act  *)
(* when each may go on, visits who was let through and when.                *)
(***************************************************************************)
EXTENDS TokenBucket, FiniteSetTheorems, TLAPS

(* What the members of a set take together.                                *)
Weight(n, S) == n * Cardinality(S)

Multiple(n, x) == \E k \in Nat : x = k * n

Due(queue, act, from, to) == {t \in queue : from <= act[t] /\ act[t] <= to}
Seen(visits, from, to) == {v \in visits : from <= v.at /\ v.at <= to}

(* Those who wait have reserved moments of their own, n apart and up to the *)
(* last, at which the level is made up for; so of any span they take no     *)
(* more than it refills, and one more.                                      *)
Waiting(b, n, queue, act, now) ==
  /\ b.level \in Int /\ b.last \in Int /\ b.level <= Burst
  /\ IsFiniteSet(queue)
  /\ \A t \in queue : /\ act[t] \in Int /\ now <= act[t] /\ act[t] <= b.last
                       /\ Multiple(n, b.last - act[t])
  /\ \A t, u \in queue : act[t] = act[u] => t = u
  /\ queue # {} => b.last = now - b.level

Spaced(n, queue, act) ==
  \A from, to \in Int :
    from <= to => Weight(n, Due(queue, act, from, to)) <= to - from + n

Regular(b, n, queue, act, now) == Waiting(b, n, queue, act, now) /\ Spaced(n, queue, act)

(* What was let through since any moment, with what is reserved and what is *)
(* left, is within what the bucket held and was given; so are the visits    *)
(* that are planned up to any moment to come, and those of any span so far. *)
Kept(b, n, queue, act, visits, now) ==
  /\ IsFiniteSet(visits)
  /\ \A v \in visits : v.at \in 0..now
  /\ \A from \in 0..now :
       Weight(n, Seen(visits, from, now)) + Weight(n, queue) + b.level
         <= Burst + now - from
  /\ \A from \in 0..now, to \in Int :
       now <= to => Weight(n, Seen(visits, from, now))
                      + Weight(n, Due(queue, act, now, to)) <= Burst + to - from
  /\ \A from, to \in 0..now :
       from <= to => Weight(n, Seen(visits, from, to)) <= Burst + to - from

Sound(b, n, queue, act, visits, now) ==
  Regular(b, n, queue, act, now) /\ Kept(b, n, queue, act, visits, now)

(* One more makes n more.                                                   *)
LEMMA OneMore ==
  ASSUME NEW n \in Nat, NEW S, IsFiniteSet(S), NEW x
  PROVE  /\ IsFiniteSet(S \cup {x}) /\ Cardinality(S) \in Nat /\ Cardinality(S \cup {x}) \in Nat
         /\ Weight(n, S) \in Nat
         /\ Weight(n, S \cup {x}) <= Weight(n, S) + n
         /\ x \notin S => Weight(n, S \cup {x}) = Weight(n, S) + n
<1>1. /\ IsFiniteSet(S \cup {x})
      /\ Cardinality(S \cup {x}) = IF x \in S THEN Cardinality(S) ELSE Cardinality(S) + 1
  BY FS_AddElement
<1>2. Cardinality(S) \in Nat
  BY FS_CardinalityType
<1> DEFINE c == Cardinality(S)
           d == Cardinality(S \cup {x})
<1> HIDE DEF c, d
<1>3. c \in Nat /\ (d = c \/ d = c + 1) /\ (x \notin S => d = c + 1)
  BY <1>1, <1>2 DEF c, d
<1>4. d \in Nat /\ n * c \in Nat /\ n * d <= n * c + n /\ (x \notin S => n * d = n * c + n)
  BY <1>3
<1> QED
  BY <1>1, <1>3, <1>4 DEF c, d, Weight

(* One less makes n less.                                                   *)
LEMMA OneLess ==
  ASSUME NEW n \in Nat, NEW S, IsFiniteSet(S), NEW x
  PROVE  /\ IsFiniteSet(S \ {x})
         /\ Weight(n, S \ {x}) \in Nat /\ Weight(n, S) \in Nat
         /\ Weight(n, S \ {x}) <= Weight(n, S)
         /\ x \in S => Weight(n, S \ {x}) = Weight(n, S) - n
<1> DEFINE R == S \ {x}
<1>1. IsFiniteSet(R) /\ x \notin R /\ (x \in S => R \cup {x} = S) /\ (x \notin S => R = S)
  BY FS_RemoveElement
<1> HIDE DEF R
<1>2. Weight(n, R) \in Nat /\ Weight(n, S) \in Nat
  BY <1>1, OneMore
<1>3. Weight(n, R \cup {x}) = Weight(n, R) + n
  BY <1>1, OneMore
<1>4. ASSUME x \in S PROVE Weight(n, R) = Weight(n, S) - n
  <2>1. R \cup {x} = S
    BY <1>1, <1>4
  <2>2. Weight(n, R \cup {x}) = Weight(n, S)
    BY <2>1, Zenon
  <2> QED
    BY <2>2, <1>2, <1>3
<1>5. Weight(n, R) <= Weight(n, S)
  BY <1>1, <1>2, <1>4
<1> QED
  BY <1>1, <1>2, <1>4, <1>5 DEF R

(* Of a finite queue or of finite visits, a span is finite.                 *)
LEMMA SpansFinite ==
  ASSUME NEW queue, IsFiniteSet(queue), NEW act, NEW from, NEW to
  PROVE  IsFiniteSet(Due(queue, act, from, to)) /\ IsFiniteSet(Seen(queue, from, to))
<1>1. Due(queue, act, from, to) \in SUBSET queue /\ Seen(queue, from, to) \in SUBSET queue
  BY DEF Due, Seen
<1> QED
  BY <1>1, FS_Subset

(* A part of a span takes no more than the span.                            *)
LEMMA PartOfSpan ==
  ASSUME NEW n \in Nat, NEW S, IsFiniteSet(S), NEW T \in SUBSET S
  PROVE  Weight(n, T) <= Weight(n, S) /\ Weight(n, T) \in Nat
                                                  /\ Weight(n, S) \in Nat
<1>1. Cardinality(T) \in Nat /\ Cardinality(S) \in Nat /\ Cardinality(T) <= Cardinality(S)
  BY FS_Subset, FS_CardinalityType
<1>2. ASSUME NEW c \in Nat, NEW d \in Nat, c <= d PROVE n * c <= n * d /\ n * c \in Nat
  <2>1. d - c \in Nat /\ n * (d - c) \in Nat
    BY <1>2
  <2>2. n * d = n * c + n * (d - c)
    BY <1>2, <2>1
  <2> QED
    BY <2>1, <2>2, <1>2
<1> QED
  BY <1>1, <1>2 DEF Weight

(* Nobody waits for a token that is there.                                  *)
LEMMA NoneWaits ==
  ASSUME NEW n \in Nat \ {0}, NEW now \in Nat, NEW b, NEW queue, NEW act,
         Waiting(b, n, queue, act, now), b.level - n >= 0
  PROVE  queue = {}
<1> SUFFICES ASSUME NEW t \in queue PROVE FALSE
  OBVIOUS
<1> QED
  BY DEF Waiting

(* No visits weigh nothing.                                                 *)
LEMMA NothingWeighs ==
  ASSUME NEW n \in Nat
  PROVE  Weight(n, {}) = 0
<1>1. Cardinality({}) = 0
  BY FS_EmptySet
<1> QED
  BY <1>1 DEF Weight

(* One visit more, now, weighs n more in the spans that end now.            *)
LEMMA OneVisit ==
  ASSUME NEW n \in Nat, NEW now \in Nat, NEW visits, IsFiniteSet(visits),
         \A w \in visits : w.at \in 0..now, NEW v, v.at = now
  PROVE  /\ IsFiniteSet(visits \cup {v}) /\ \A w \in visits \cup {v} : w.at \in 0..now
         /\ \A from, to : Weight(n, Seen(visits, from, to)) \in Nat
         /\ \A from, to : Weight(n, Seen(visits \cup {v}, from, to)) \in Nat
         /\ \A from : Weight(n, Seen(visits \cup {v}, from, now))
                        <= Weight(n, Seen(visits, from, now)) + n
         /\ \A from, to \in 0..now :
              to # now => Seen(visits \cup {v}, from, to) = Seen(visits, from, to)
<1> DEFINE more == visits \cup {v}
<1>1. IsFiniteSet(more) /\ \A w \in more : w.at \in 0..now
  BY FS_AddElement
<1>2. \A from, to : IsFiniteSet(Seen(visits, from, to)) /\ IsFiniteSet(Seen(more, from, to))
  BY <1>1, SpansFinite
<1>3. ASSUME NEW from
      PROVE  Seen(more, from, now) \in {Seen(visits, from, now), Seen(visits, from, now) \cup {v}}
  BY DEF Seen
<1>4. \A from, to \in 0..now : to # now => Seen(more, from, to) = Seen(visits, from, to)
  BY DEF Seen
<1> HIDE DEF more
<1>5. /\ \A from, to : Weight(n, Seen(visits, from, to)) \in Nat
      /\ \A from, to : Weight(n, Seen(more, from, to)) \in Nat
  BY <1>2, OneMore
<1>6. ASSUME NEW from
      PROVE  Weight(n, Seen(more, from, now)) <= Weight(n, Seen(visits, from, now)) + n
  <2>1. Weight(n, Seen(visits, from, now) \cup {v}) <= Weight(n, Seen(visits, from, now)) + n
    BY <1>2, OneMore
  <2> QED
    BY <2>1, <1>3, <1>5
<1> QED
  BY <1>1, <1>4, <1>5, <1>6 DEF more

(* A token that is there is taken at once.                                  *)
LEMMA TakeNow ==
  ASSUME Burst \in Nat, NEW n \in 1..Burst, NEW now \in Nat, NEW b, NEW queue, NEW act, NEW visits,
         Sound(b, n, queue, act, visits, now),
         b.level - n >= 0, NEW v, v.at = now
  PROVE  Sound(Reserve(b, n, now), n, queue, act, visits \cup {v}, now)
<1> DEFINE more == visits \cup {v}
           c == Reserve(b, n, now)
<1>0. n \in Nat \ {0} /\ n \in Nat /\ Waiting(b, n, queue, act, now)
  BY DEF Sound, Regular
<1>1. queue = {}
  BY <1>0, NoneWaits
<1>2. c.level = b.level - n /\ c.last = now /\ c.level \in Int /\ c.level >= 0 /\ c.level <= Burst
  BY <1>0 DEF Reserve, Delay, Waiting
<1>3. IsFiniteSet(visits) /\ \A w \in visits : w.at \in 0..now
  BY DEF Sound, Kept
<1>4. /\ IsFiniteSet(more) /\ \A w \in more : w.at \in 0..now
      /\ \A from, to : Weight(n, Seen(visits, from, to)) \in Nat
      /\ \A from, to : Weight(n, Seen(more, from, to)) \in Nat
      /\ \A from : Weight(n, Seen(more, from, now)) <= Weight(n, Seen(visits, from, now)) + n
      /\ \A from, to \in 0..now : to # now => Seen(more, from, to) = Seen(visits, from, to)
  <2>1. v.at = now /\ n \in Nat /\ now \in Nat
    BY <1>0
  <2>2. IsFiniteSet(more) /\ \A w \in more : w.at \in 0..now
    BY <2>1, <1>3, OneVisit
  <2>3. ASSUME NEW from, NEW to PROVE Weight(n, Seen(visits, from, to)) \in Nat
    <3>1. IsFiniteSet(Seen(visits, from, to))
      BY <1>3, SpansFinite
    <3> QED
      BY <2>1, <3>1, OneMore
  <2>4. \A from, to : Weight(n, Seen(more, from, to)) \in Nat
    BY <2>1, <1>3, OneVisit
  <2>5. \A from : Weight(n, Seen(more, from, now)) <= Weight(n, Seen(visits, from, now)) + n
    BY <2>1, <1>3, OneVisit
  <2>6. \A from, to \in 0..now : to # now => Seen(more, from, to) = Seen(visits, from, to)
    BY <2>1 DEF Seen
  <2> QED
    BY <2>2, <2>3, <2>4, <2>5, <2>6
<1>5. Weight(n, queue) = 0 /\ \A from, to : Weight(n, Due(queue, act, from, to)) = 0
  <2>1. \A from, to : Due(queue, act, from, to) = {}
    BY <1>1 DEF Due
  <2> QED
    BY <1>0, <1>1, <2>1, NothingWeighs
<1> HIDE DEF more, c
<1>6. Regular(c, n, queue, act, now)
  BY <1>0, <1>1, <1>2, <1>5 DEF Regular, Waiting, Spaced
<1>7. \A from \in 0..now :
        Weight(n, Seen(visits, from, now)) + Weight(n, queue) + b.level <= Burst + now - from
  BY DEF Sound, Kept
<1>8. \A from \in 0..now : Weight(n, Seen(more, from, now)) + c.level <= Burst + now - from
  BY <1>0, <1>2, <1>4, <1>5, <1>7 DEF Waiting
<1>9. \A from, to \in 0..now :
        from <= to => Weight(n, Seen(more, from, to)) <= Burst + to - from
  <2>1. \A from, to \in 0..now :
          from <= to => Weight(n, Seen(visits, from, to)) <= Burst + to - from
    BY DEF Sound, Kept
  <2> QED
    BY <1>2, <1>4, <1>8, <2>1
<1>10. Kept(c, n, queue, act, more, now)
  BY <1>2, <1>4, <1>5, <1>8, <1>9 DEF Kept
<1> QED
  BY <1>6, <1>10 DEF Sound, c, more

(* Moments that are a number of turns before another.                       *)
LEMMA Multiples ==
  ASSUME NEW n \in Nat \ {0}
  PROVE  /\ Multiple(n, 0)
         /\ \A x \in Int : Multiple(n, x) => Multiple(n, x + n)
         /\ \A x \in Int : Multiple(n, x) /\ x # 0 => x >= n /\ Multiple(n, x - n)
<1>1. Multiple(n, 0)
  <2>1. 0 = 0 * n
    OBVIOUS
  <2> QED
    BY <2>1 DEF Multiple
<1>2. ASSUME NEW x \in Int, Multiple(n, x)
      PROVE  Multiple(n, x + n) /\ (x # 0 => x >= n /\ Multiple(n, x - n))
  <2>1. PICK k \in Nat : x = k * n
    BY <1>2 DEF Multiple
  <2>2. x + n = (k + 1) * n /\ x - n = (k - 1) * n
    BY <2>1
  <2>3. Multiple(n, x + n)
    BY <2>2 DEF Multiple
  <2>4. ASSUME x # 0 PROVE x >= n /\ Multiple(n, x - n)
    <3>1. k # 0
      BY <2>1, <2>4
    <3>2. k - 1 \in Nat /\ (k - 1) * n \in Nat
      BY <3>1
    <3> QED
      BY <2>2, <3>2 DEF Multiple
  <2> QED
    BY <2>3, <2>4
<1> QED
  BY <1>1, <1>2

(* Spans of a queue and of visits have weights.                             *)
LEMMA SpansWeigh ==
  ASSUME NEW n \in Nat, NEW S, IsFiniteSet(S)
  PROVE  /\ Weight(n, S) \in Nat
         /\ \A act, from, to : Weight(n, Due(S, act, from, to)) \in Nat
         /\ \A from, to : Weight(n, Seen(S, from, to)) \in Nat
<1>1. \A act, from, to : IsFiniteSet(Due(S, act, from, to)) /\ IsFiniteSet(Seen(S, from, to))
  BY SpansFinite
<1> QED
  BY <1>1, OneMore

(* Reservations behind all others.                                          *)
LEMMA QueueUp ==
  ASSUME Burst \in Nat, NEW n \in 1..Burst, NEW now \in Nat, NEW b, NEW queue, NEW act,
         Waiting(b, n, queue, act, now), Spaced(n, queue, act),
         b.level - n < 0, NEW t, t \notin queue,
         NEW later, later[t] = ActAt(b, n, now), \A u \in queue : later[u] = act[u]
  PROVE  /\ Waiting(Reserve(b, n, now), n, queue \cup {t}, later, now)
         /\ Spaced(n, queue \cup {t}, later)
<1> DEFINE a == later[t]
           c == Reserve(b, n, now)
           more == queue \cup {t}
<1>0. n \in Nat \ {0} /\ n \in Nat
  OBVIOUS
<1>1. b.level \in Int /\ b.last \in Int /\ b.level <= Burst /\ IsFiniteSet(queue)
  BY DEF Waiting
<1>2. a = now + n - b.level /\ a \in Int /\ a > now
  BY <1>1 DEF ActAt, Delay
<1>3. c.level = b.level - n /\ c.last = a
  BY <1>1, <1>2 DEF Reserve, Delay
<1>4. \A u \in queue : /\ later[u] \in Int /\ now <= later[u] /\ later[u] <= b.last
                        /\ Multiple(n, b.last - later[u])
  BY DEF Waiting
<1>5. queue # {} => b.last = a - n
  BY <1>1, <1>2 DEF Waiting
<1>6. \A u \in queue : later[u] <= a - n
  BY <1>1, <1>2, <1>4, <1>5
<1> HIDE DEF c, a
<1>7. Waiting(c, n, more, later, now)
  <2>1. IsFiniteSet(more)
    BY <1>1, FS_AddElement
  <2>2. ASSUME NEW u \in more
        PROVE  /\ later[u] \in Int /\ now <= later[u] /\ later[u] <= c.last
               /\ Multiple(n, c.last - later[u])
    <3>1. CASE u = t
      <4>1. later[u] = a
        BY <3>1 DEF a
      <4>2. c.last - later[u] = 0
        BY <4>1, <1>2, <1>3
      <4>3. Multiple(n, c.last - later[u])
        BY <4>2, <1>0, Multiples
      <4> QED
        BY <4>1, <4>3, <1>2, <1>3
    <3>2. CASE u \in queue
      <4>1. /\ later[u] \in Int /\ now <= later[u] /\ later[u] <= a - n
            /\ Multiple(n, b.last - later[u]) /\ b.last = a - n
        BY <1>4, <1>5, <1>6, <3>2
      <4>2. c.last - later[u] = (b.last - later[u]) + n /\ b.last - later[u] \in Int
        BY <4>1, <1>1, <1>2, <1>3
      <4>3. Multiple(n, c.last - later[u])
        BY <4>1, <4>2, <1>0, Multiples
      <4> QED
        BY <4>1, <4>3, <1>0, <1>2, <1>3
    <3> QED
      BY <3>1, <3>2
  <2>3. ASSUME NEW u \in more, NEW w \in more, later[u] = later[w]
        PROVE  u = w
    <3>1. \A x \in queue : later[x] # later[t]
      BY <1>0, <1>2, <1>6 DEF a
    <3>2. \A x, y \in queue : later[x] = later[y] => x = y
      BY DEF Waiting
    <3> QED
      BY <2>3, <3>1, <3>2
  <2>4. c.level \in Int /\ c.last \in Int /\ c.level <= Burst /\ c.last = now - c.level
    BY <1>0, <1>1, <1>2, <1>3
  <2> QED
    BY <2>1, <2>2, <2>3, <2>4 DEF Waiting
<1>8. Spaced(n, more, later)
  <2> SUFFICES ASSUME NEW from \in Int, NEW to \in Int, from <= to
               PROVE  Weight(n, Due(more, later, from, to)) <= to - from + n
    BY DEF Spaced
  <2>0. \A x, y : Due(queue, later, x, y) = Due(queue, act, x, y)
    BY DEF Due
  <2>1. \A x, y : IsFiniteSet(Due(queue, later, x, y))
    BY <1>1, SpansFinite
  <2>2. CASE ~(from <= a /\ a <= to)
    <3>1. Due(more, later, from, to) = Due(queue, later, from, to)
      BY <2>2 DEF Due, a
    <3> QED
      BY <3>1, <2>0 DEF Spaced
  <2>3. CASE from <= a /\ a <= to
    <3>1. Due(more, later, from, to) = Due(queue, later, from, a - n) \cup {t}
      BY <2>3, <1>0, <1>2, <1>4, <1>6 DEF Due, a
    <3>2. Weight(n, Due(more, later, from, to)) <= Weight(n, Due(queue, later, from, a - n)) + n
      BY <3>1, <2>1, <1>0, OneMore, Zenon
    <3>3. Weight(n, Due(queue, later, from, a - n)) <= a - from
      <4>1. CASE from <= a - n
        BY <4>1, <2>0, <1>0, <1>2 DEF Spaced
      <4>2. CASE from > a - n
        <5>1. Due(queue, later, from, a - n) = {}
          BY <4>2, <1>0, <1>2, <1>4, <1>6 DEF Due
        <5> QED
          BY <5>1, <1>0, <1>2, <2>3, NothingWeighs
      <4> QED
        BY <4>1, <4>2, <1>0, <1>2
    <3>4. Weight(n, Due(queue, later, from, a - n)) \in Nat /\ Weight(n, Due(more, later, from, to)) \in Nat
      BY <1>0, <1>1, <1>7, SpansWeigh DEF Waiting
    <3> QED
      BY <3>2, <3>3, <3>4, <2>3, <1>0, <1>2
  <2> QED
    BY <2>2, <2>3
<1> QED
  BY <1>7, <1>8 DEF c

(* A token that is not there is waited for.                                 *)
LEMMA TakeLater ==
  ASSUME Burst \in Nat, NEW n \in 1..Burst, NEW now \in Nat, NEW b, NEW queue, NEW act, NEW visits,
         Sound(b, n, queue, act, visits, now),
         b.level - n < 0, NEW t, t \notin queue,
         NEW later, later[t] = ActAt(b, n, now), \A u \in queue : later[u] = act[u]
  PROVE  Sound(Reserve(b, n, now), n, queue \cup {t}, later, visits, now)
<1> DEFINE a == later[t]
           c == Reserve(b, n, now)
           more == queue \cup {t}
<1>0. n \in Nat /\ Waiting(b, n, queue, act, now) /\ Spaced(n, queue, act)
  BY DEF Sound, Regular
<1>1. Waiting(c, n, more, later, now) /\ Spaced(n, more, later)
  BY <1>0, QueueUp
<1>2. b.level \in Int /\ c.level = b.level - n /\ a = now + n - b.level /\ IsFiniteSet(queue)
  BY <1>0 DEF Waiting, Reserve, ActAt, Delay
<1>3. IsFiniteSet(visits) /\ \A w \in visits : w.at \in 0..now
  BY DEF Sound, Kept
<1>4. Weight(n, more) = Weight(n, queue) + n /\ Weight(n, queue) \in Nat /\ IsFiniteSet(more)
  BY <1>0, <1>2, OneMore
<1>5. /\ \A from, to : Weight(n, Seen(visits, from, to)) \in Nat
      /\ \A from, to : Weight(n, Due(more, later, from, to)) \in Nat
  BY <1>0, <1>3, <1>4, SpansWeigh
<1> HIDE DEF c
<1>6. \A from \in 0..now :
        Weight(n, Seen(visits, from, now)) + Weight(n, queue) + b.level <= Burst + now - from
  BY DEF Sound, Kept
<1>7. \A from \in 0..now :
        Weight(n, Seen(visits, from, now)) + Weight(n, more) + c.level <= Burst + now - from
  BY <1>2, <1>4, <1>5, <1>6
<1>8. ASSUME NEW from \in 0..now, NEW to \in Int, now <= to
      PROVE  Weight(n, Seen(visits, from, now)) + Weight(n, Due(more, later, now, to))
               <= Burst + to - from
  <2>1. CASE to < a
    <3>1. Due(more, later, now, to) = Due(queue, act, now, to)
      BY <2>1, <1>8, <1>2 DEF Due
    <3>2. Weight(n, Seen(visits, from, now)) + Weight(n, Due(queue, act, now, to))
            <= Burst + to - from
      BY <1>8 DEF Sound, Kept
    <3> QED
      BY <3>1, <3>2
  <2>2. CASE a <= to
    <3>1. Due(more, later, now, to) \in SUBSET more
      BY DEF Due
    <3>2. Weight(n, Due(more, later, now, to)) <= Weight(n, more)
      BY <1>0, <1>4, <3>1, PartOfSpan
    <3> HIDE DEF more
    <3>3. Weight(n, Seen(visits, from, now)) + Weight(n, more) <= Burst + a - from
      BY <1>2, <1>4, <1>5, <1>7
    <3> QED
      BY <3>2, <3>3, <2>2, <1>2, <1>4, <1>5, <1>8
  <2> QED
    BY <2>1, <2>2, <1>2, <1>8
<1>9. \A from, to \in 0..now :
        from <= to => Weight(n, Seen(visits, from, to)) <= Burst + to - from
  BY DEF Sound, Kept
<1>10. Kept(c, n, more, later, visits, now)
  BY <1>3, <1>7, <1>8, <1>9 DEF Kept
<1> QED
  BY <1>1, <1>10 DEF Sound, Regular, c

(* Whoever leaves a queue leaves it in order.                               *)
LEMMA LeaveQueue ==
  ASSUME NEW n \in Nat, NEW now \in Nat, NEW b, NEW queue, NEW act,
         Waiting(b, n, queue, act, now), Spaced(n, queue, act), NEW t \in queue
  PROVE  /\ Waiting(b, n, queue \ {t}, act, now) /\ Spaced(n, queue \ {t}, act)
         /\ Weight(n, queue \ {t}) <= Weight(n, queue) - n
         /\ Weight(n, queue) \in Nat /\ Weight(n, queue \ {t}) \in Nat
         /\ \A from, to : /\ Weight(n, Due(queue \ {t}, act, from, to)) \in Nat
                          /\ Weight(n, Due(queue, act, from, to)) \in Nat
                          /\ Weight(n, Due(queue \ {t}, act, from, to))
                               <= Weight(n, Due(queue, act, from, to))
                          /\ from <= act[t] /\ act[t] <= to =>
                               Weight(n, Due(queue \ {t}, act, from, to))
                                 <= Weight(n, Due(queue, act, from, to)) - n
<1> DEFINE less == queue \ {t}
<1>1. IsFiniteSet(queue)
  BY DEF Waiting
<1>2. /\ IsFiniteSet(less) /\ Weight(n, less) = Weight(n, queue) - n
      /\ Weight(n, queue) \in Nat /\ Weight(n, less) \in Nat
  BY <1>1, OneLess
<1>3. /\ \A from, to : Weight(n, Due(queue, act, from, to)) \in Nat
      /\ \A from, to : Weight(n, Due(less, act, from, to)) \in Nat
  BY <1>1, <1>2, SpansWeigh
<1>4. ASSUME NEW from, NEW to
      PROVE  /\ Weight(n, Due(less, act, from, to)) <= Weight(n, Due(queue, act, from, to))
             /\ from <= act[t] /\ act[t] <= to =>
                  Weight(n, Due(less, act, from, to)) = Weight(n, Due(queue, act, from, to)) - n
  <2> DEFINE D == Due(queue, act, from, to)
  <2>1. IsFiniteSet(D)
    BY <1>1, SpansFinite
  <2>2. Due(less, act, from, to) = D \ {t}
    BY DEF Due
  <2>3. from <= act[t] /\ act[t] <= to => t \in D
    BY DEF Due
  <2> HIDE DEF D
  <2>4. /\ Weight(n, D \ {t}) <= Weight(n, D)
        /\ t \in D => Weight(n, D \ {t}) = Weight(n, D) - n
    BY <2>1, OneLess
  <2>5. Weight(n, Due(less, act, from, to)) = Weight(n, D \ {t})
    BY <2>2, Zenon
  <2> QED
    BY <2>3, <2>4, <2>5 DEF D
<1>5. Waiting(b, n, less, act, now)
  BY <1>2 DEF Waiting
<1>6. Spaced(n, less, act)
  <2> SUFFICES ASSUME NEW from \in Int, NEW to \in Int, from <= to
               PROVE  Weight(n, Due(less, act, from, to)) <= to - from + n
    BY DEF Spaced
  <2>1. Weight(n, Due(queue, act, from, to)) <= to - from + n
    BY DEF Spaced
  <2> HIDE DEF less
  <2> QED
    BY <2>1, <1>3, <1>4
<1> QED
  BY <1>2, <1>3, <1>4, <1>5, <1>6

(* A turn that has come is taken.                                           *)
LEMMA TakeTurn ==
  ASSUME Burst \in Nat, NEW n \in 1..Burst, NEW now \in Nat, NEW b, NEW queue, NEW act, NEW visits,
         Sound(b, n, queue, act, visits, now),
         NEW t \in queue, act[t] <= now, NEW v, v.at = now
  PROVE  Sound(b, n, queue \ {t}, act, visits \cup {v}, now)
<1> DEFINE less == queue \ {t}
           more == visits \cup {v}
<1>0. n \in Nat /\ Waiting(b, n, queue, act, now) /\ Spaced(n, queue, act)
  BY DEF Sound, Regular
<1>1. act[t] = now /\ b.level \in Int
  BY <1>0 DEF Waiting
<1>2. Waiting(b, n, less, act, now) /\ Spaced(n, less, act)
  BY <1>0, LeaveQueue
<1>3. /\ Weight(n, less) <= Weight(n, queue) - n
      /\ Weight(n, queue) \in Nat /\ Weight(n, less) \in Nat
  BY <1>0, LeaveQueue
<1>4. ASSUME NEW to \in Int, now <= to
      PROVE  /\ Weight(n, Due(less, act, now, to)) \in Nat
             /\ Weight(n, Due(queue, act, now, to)) \in Nat
             /\ Weight(n, Due(less, act, now, to)) <= Weight(n, Due(queue, act, now, to)) - n
  <2>1. now <= act[t] /\ act[t] <= to
    BY <1>1, <1>4
  <2>2. /\ Weight(n, Due(less, act, now, to)) \in Nat
        /\ Weight(n, Due(queue, act, now, to)) \in Nat
    BY <1>0, LeaveQueue
  <2>3. now <= act[t] /\ act[t] <= to =>
          Weight(n, Due(less, act, now, to)) <= Weight(n, Due(queue, act, now, to)) - n
    BY <1>0, LeaveQueue
  <2> QED
    BY <2>1, <2>2, <2>3
<1>5. IsFiniteSet(visits) /\ \A w \in visits : w.at \in 0..now
  BY DEF Sound, Kept
<1>6. IsFiniteSet(more) /\ \A w \in more : w.at \in 0..now
  BY <1>0, <1>5, OneVisit
<1>7. \A from, to : Weight(n, Seen(visits, from, to)) \in Nat
  BY <1>0, <1>5, SpansWeigh
<1>8. \A from, to : Weight(n, Seen(more, from, to)) \in Nat
  BY <1>0, <1>6, SpansWeigh
<1>9. \A from : Weight(n, Seen(more, from, now)) <= Weight(n, Seen(visits, from, now)) + n
  BY <1>0, <1>5, OneVisit
<1>10. \A from, to \in 0..now : to # now => Seen(more, from, to) = Seen(visits, from, to)
  BY DEF Seen
<1> HIDE DEF less, more
<1>11. ASSUME NEW from \in 0..now
       PROVE  Weight(n, Seen(more, from, now)) + Weight(n, less) + b.level <= Burst + now - from
  <2>1. Weight(n, Seen(visits, from, now)) + Weight(n, queue) + b.level <= Burst + now - from
    BY DEF Sound, Kept
  <2> QED
    BY <2>1, <1>0, <1>1, <1>3, <1>7, <1>8, <1>9
<1>12. ASSUME NEW from \in 0..now, NEW to \in Int, now <= to
       PROVE  Weight(n, Seen(more, from, now)) + Weight(n, Due(less, act, now, to))
                <= Burst + to - from
  <2>1. Weight(n, Seen(visits, from, now)) + Weight(n, Due(queue, act, now, to))
          <= Burst + to - from
    BY <1>12 DEF Sound, Kept
  <2> QED
    BY <2>1, <1>0, <1>4, <1>7, <1>8, <1>9, <1>12
<1>13. ASSUME NEW from \in 0..now, NEW to \in 0..now, from <= to
       PROVE  Weight(n, Seen(more, from, to)) <= Burst + to - from
  <2>1. CASE to = now
    <3>1. Weight(n, Seen(more, from, now)) + Weight(n, Due(less, act, now, now))
            <= Burst + now - from
      BY <1>12
    <3>2. Weight(n, Due(less, act, now, now)) \in Nat
      BY <1>4
    <3> QED
      BY <3>1, <3>2, <2>1, <1>8
  <2>2. CASE to # now
    <3>1. Weight(n, Seen(visits, from, to)) <= Burst + to - from
      BY <1>13 DEF Sound, Kept
    <3> QED
      BY <3>1, <2>2, <1>10
  <2> QED
    BY <2>1, <2>2
<1>14. Kept(b, n, less, act, more, now)
  BY <1>6, <1>11, <1>12, <1>13 DEF Kept
<1> QED
  BY <1>2, <1>14 DEF Sound, Regular, less, more

(* Of a reservation only the last one is given back, and then all of it;    *)
(* what is reserved behind another is kept from everyone.                   *)
LEMMA Leave ==
  ASSUME Burst \in Nat, NEW n \in 1..Burst, NEW now \in Nat, NEW b, NEW queue, NEW act, NEW visits,
         Sound(b, n, queue, act, visits, now), NEW t \in queue
  PROVE  Sound(Cancel(b, n, act[t], now), n, queue \ {t}, act, visits, now)
<1> DEFINE less == queue \ {t}
           c == Cancel(b, n, act[t], now)
<1>0. n \in Nat /\ n \in Nat \ {0} /\ Waiting(b, n, queue, act, now) /\ Spaced(n, queue, act)
  BY DEF Sound, Regular
<1>1. /\ act[t] \in Int /\ now <= act[t] /\ act[t] <= b.last /\ Multiple(n, b.last - act[t])
      /\ b.level \in Int /\ b.last \in Int /\ b.level <= Burst /\ b.last = now - b.level
  BY <1>0 DEF Waiting
<1>2. Waiting(b, n, less, act, now) /\ Spaced(n, less, act)
  BY <1>0, LeaveQueue
<1>3. /\ Weight(n, less) <= Weight(n, queue) - n
      /\ Weight(n, queue) \in Nat /\ Weight(n, less) \in Nat
  BY <1>0, LeaveQueue
<1>4. \A from, to : /\ Weight(n, Due(less, act, from, to)) \in Nat
                    /\ Weight(n, Due(queue, act, from, to)) \in Nat
                    /\ Weight(n, Due(less, act, from, to)) <= Weight(n, Due(queue, act, from, to))
  BY <1>0, LeaveQueue
<1>5. IsFiniteSet(visits) /\ \A w \in visits : w.at \in 0..now
  BY DEF Sound, Kept
<1>6. \A from, to : Weight(n, Seen(visits, from, to)) \in Nat
  BY <1>0, <1>5, SpansWeigh
<1>7. Waiting(c, n, less, act, now) /\ c.level \in Int /\ c.level <= b.level + n
  <2>1. CASE act[t] # b.last
    <3>0. b.last - act[t] \in Int /\ b.last - act[t] # 0
      BY <2>1, <1>1
    <3>1. b.last - act[t] >= n
      BY <3>0, <1>0, <1>1, Multiples
    <3>2. c = b
      BY <3>1, <1>1 DEF Cancel, Restored
    <3> QED
      BY <3>2, <1>0, <1>1, <1>2
  <2>2. CASE act[t] = b.last
    <3>1. /\ c.level = b.level + n
          /\ c.last = IF act[t] - n >= now THEN act[t] - n ELSE b.last
          /\ c.level <= Burst
      BY <2>2, <1>0, <1>1 DEF Cancel, Restored
    <3> HIDE DEF c
    <3>2. ASSUME NEW u \in less
          PROVE  /\ act[u] \in Int /\ now <= act[u] /\ act[u] <= act[t] - n
                 /\ Multiple(n, act[t] - n - act[u])
      <4>1. /\ act[u] \in Int /\ now <= act[u] /\ act[u] <= b.last /\ Multiple(n, b.last - act[u])
            /\ act[u] # act[t]
        BY <1>0 DEF Waiting
      <4>2. b.last - act[u] \in Int /\ b.last - act[u] # 0
        BY <4>1, <2>2, <1>1
      <4>3. b.last - act[u] >= n /\ Multiple(n, b.last - act[u] - n)
        BY <4>1, <4>2, <1>0, Multiples
      <4>4. b.last - act[u] - n = act[t] - n - act[u]
        BY <4>1, <2>2, <1>0, <1>1
      <4> QED
        BY <4>1, <4>3, <4>4, <2>2, <1>0, <1>1
    <3>3. less # {} => c.last = act[t] - n /\ c.last = now - c.level
      BY <3>1, <3>2, <2>2, <1>0, <1>1
    <3>4. \A u \in less : /\ act[u] \in Int /\ now <= act[u] /\ act[u] <= c.last
                          /\ Multiple(n, c.last - act[u])
      BY <3>2, <3>3
    <3>5. c.level \in Int /\ c.last \in Int
      BY <3>1, <1>0, <1>1
    <3> QED
      BY <3>1, <3>3, <3>4, <3>5, <1>0, <1>1, <1>2 DEF Waiting
  <2> QED
    BY <2>1, <2>2
<1> HIDE DEF less, c
<1>8. ASSUME NEW from \in 0..now
      PROVE  Weight(n, Seen(visits, from, now)) + Weight(n, less) + c.level <= Burst + now - from
  <2>1. Weight(n, Seen(visits, from, now)) + Weight(n, queue) + b.level <= Burst + now - from
    BY DEF Sound, Kept
  <2> QED
    BY <2>1, <1>0, <1>1, <1>3, <1>6, <1>7
<1>9. ASSUME NEW from \in 0..now, NEW to \in Int, now <= to
      PROVE  Weight(n, Seen(visits, from, now)) + Weight(n, Due(less, act, now, to))
               <= Burst + to - from
  <2>1. Weight(n, Seen(visits, from, now)) + Weight(n, Due(queue, act, now, to))
          <= Burst + to - from
    BY <1>9 DEF Sound, Kept
  <2> QED
    BY <2>1, <1>4, <1>6, <1>9
<1>10. \A from, to \in 0..now :
        from <= to => Weight(n, Seen(visits, from, to)) <= Burst + to - from
  BY DEF Sound, Kept
<1>11. Kept(c, n, less, act, visits, now)
  BY <1>5, <1>8, <1>9, <1>10 DEF Kept
<1> QED
  BY <1>2, <1>7, <1>11 DEF Sound, Regular, less, c

(* Time passes, when nobody's turn has come.                                *)
LEMMA OneTick ==
  ASSUME Burst \in Nat, NEW n \in 1..Burst, NEW now \in Nat, NEW b, NEW queue, NEW act, NEW visits,
         Sound(b, n, queue, act, visits, now), \A t \in queue : act[t] > now
  PROVE  Sound(Refill(b), n, queue, act, visits, now + 1)
<1> DEFINE c == Refill(b)
<1>0. n \in Nat \ {0} /\ n \in Nat /\ Waiting(b, n, queue, act, now) /\ Spaced(n, queue, act)
  BY DEF Sound, Regular
<1>1. IsFiniteSet(visits) /\ \A w \in visits : w.at \in 0..now
  BY DEF Sound, Kept
<1>2. IsFiniteSet(queue) /\ b.level \in Int /\ b.last \in Int /\ b.level <= Burst
  BY <1>0 DEF Waiting
<1>3. /\ \A from, to : Weight(n, Seen(visits, from, to)) \in Nat
      /\ \A from, to : Weight(n, Due(queue, act, from, to)) \in Nat
      /\ Weight(n, queue) \in Nat
  BY <1>0, <1>1, <1>2, SpansWeigh
<1>4. c.last = b.last /\ c.level \in Int /\ c.level <= b.level + 1 /\ c.level <= Burst
  BY <1>2 DEF Refill
<1>5. queue # {} => b.last = now - b.level /\ c.level = b.level + 1
  BY <1>2, <1>0 DEF Refill, Waiting
<1> HIDE DEF c
<1>6. \A t \in queue : act[t] \in Int /\ now + 1 <= act[t] /\ act[t] <= b.last
  BY <1>0 DEF Waiting
<1>7. Waiting(c, n, queue, act, now + 1)
  BY <1>0, <1>2, <1>4, <1>5, <1>6 DEF Waiting
<1>8. \A v \in visits : v.at \in 0..(now + 1)
  BY <1>1
<1>9. \A from, to \in Int : to >= now => Seen(visits, from, to) = Seen(visits, from, now)
  BY <1>1 DEF Seen
<1>10. \A to : Weight(n, Seen(visits, now + 1, to)) = 0
  <2>1. \A to : Seen(visits, now + 1, to) = {}
    BY <1>1 DEF Seen
  <2> QED
    BY <2>1, <1>0, NothingWeighs
<1>11. ASSUME NEW to \in Int, now + 1 <= to
       PROVE  /\ Weight(n, Due(queue, act, now + 1, to)) <= Weight(n, Due(queue, act, now, to))
              /\ Weight(n, Due(queue, act, now + 1, to)) <= to - (now + 1) + n
  <2>1. Due(queue, act, now + 1, to) = Due(queue, act, now, to)
    BY <1>6 DEF Due
  <2>2. Weight(n, Due(queue, act, now + 1, to)) = Weight(n, Due(queue, act, now, to))
    BY <2>1, Zenon
  <2> QED
    BY <2>2, <1>0, <1>3, <1>11 DEF Spaced
<1>12. ASSUME NEW from \in 0..(now + 1)
       PROVE  Weight(n, Seen(visits, from, now + 1)) + Weight(n, queue) + c.level
                <= Burst + (now + 1) - from
  <2>1. CASE from <= now
    <3>1. Weight(n, Seen(visits, from, now)) + Weight(n, queue) + b.level <= Burst + now - from
      BY <2>1 DEF Sound, Kept
    <3>2. Seen(visits, from, now + 1) = Seen(visits, from, now)
      BY <1>9
    <3>3. Weight(n, Seen(visits, from, now + 1)) = Weight(n, Seen(visits, from, now))
      BY <3>2, Zenon
    <3> QED
      BY <3>1, <3>3, <1>2, <1>3, <1>4
  <2>2. CASE from = now + 1
    <3>1. Weight(n, Seen(visits, from, now + 1)) = 0
      BY <2>2, <1>10
    <3>2. Weight(n, queue) + c.level <= Burst
      <4>1. CASE queue = {}
        BY <4>1, <1>0, <1>4, NothingWeighs
      <4>2. CASE queue # {}
        <5>1. b.last >= now + 1 /\ c.level = now + 1 - b.last
          BY <4>2, <1>2, <1>5, <1>6
        <5>2. Due(queue, act, now + 1, b.last) = queue
          BY <1>6 DEF Due
        <5>3. Weight(n, Due(queue, act, now + 1, b.last)) = Weight(n, queue)
          BY <5>2, Zenon
        <5>4. Weight(n, Due(queue, act, now + 1, b.last)) <= b.last - (now + 1) + n
          BY <5>1, <1>2, <1>11
        <5> QED
          BY <5>1, <5>3, <5>4, <1>0, <1>2, <1>3
      <4> QED
        BY <4>1, <4>2
    <3> QED
      BY <3>1, <3>2, <2>2, <1>3, <1>4
  <2> QED
    BY <2>1, <2>2
<1>13. ASSUME NEW from \in 0..(now + 1), NEW to \in Int, now + 1 <= to
       PROVE  Weight(n, Seen(visits, from, now + 1)) + Weight(n, Due(queue, act, now + 1, to))
                <= Burst + to - from
  <2>1. CASE from <= now
    <3>1. Weight(n, Seen(visits, from, now)) + Weight(n, Due(queue, act, now, to))
            <= Burst + to - from
      BY <2>1, <1>13 DEF Sound, Kept
    <3>2. Seen(visits, from, now + 1) = Seen(visits, from, now)
      BY <1>9
    <3>3. Weight(n, Seen(visits, from, now + 1)) = Weight(n, Seen(visits, from, now))
      BY <3>2, Zenon
    <3> QED
      BY <3>1, <3>3, <1>3, <1>11, <1>13
  <2>2. CASE from = now + 1
    BY <2>2, <1>0, <1>3, <1>10, <1>11, <1>13
  <2> QED
    BY <2>1, <2>2
<1>14. ASSUME NEW from \in 0..(now + 1), NEW to \in 0..(now + 1), from <= to
       PROVE  Weight(n, Seen(visits, from, to)) <= Burst + to - from
  <2>1. CASE to <= now
    BY <2>1, <1>14 DEF Sound, Kept
  <2>2. CASE to = now + 1
    BY <2>2, <1>3, <1>13
  <2> QED
    BY <2>1, <2>2
<1>15. Kept(c, n, queue, act, visits, now + 1)
  BY <1>1, <1>8, <1>12, <1>13, <1>14 DEF Kept
<1> QED
  BY <1>0, <1>7, <1>15 DEF Sound, Regular, c

(* A queue is as its members' moments are; one nobody used is empty.        *)
LEMMA SameMoments ==
  ASSUME NEW n, NEW now, NEW b, NEW queue, NEW act, NEW visits,
         Sound(b, n, queue, act, visits, now),
         NEW other, \A t \in queue : other[t] = act[t]
  PROVE  Sound(b, n, queue, other, visits, now)
<1>1. \A from, to : Due(queue, other, from, to) = Due(queue, act, from, to)
  BY DEF Due
<1>2. Waiting(b, n, queue, other, now) /\ Spaced(n, queue, other)
  BY <1>1 DEF Sound, Regular, Waiting, Spaced
<1>3. Kept(b, n, queue, other, visits, now)
  BY <1>1 DEF Sound, Kept
<1> QED
  BY <1>2, <1>3 DEF Sound, Regular

(* A full bucket that nobody has come to.                                   *)
LEMMA Unused ==
  ASSUME Burst \in Nat, NEW n \in 1..Burst, NEW act
  PROVE  Sound(Full, n, {}, act, {}, 0)
<1>1. \A from, to : Due({}, act, from, to) = {} /\ Seen({}, from, to) = {}
  BY DEF Due, Seen
<1>2. Weight(n, {}) = 0 /\ IsFiniteSet({})
  BY NothingWeighs, FS_EmptySet
<1>3. /\ \A from, to : Weight(n, Due({}, act, from, to)) = 0
      /\ \A from, to : Weight(n, Seen({}, from, to)) = 0
  BY <1>1, <1>2
<1>4. Waiting(Full, n, {}, act, 0) /\ Spaced(n, {}, act)
  BY <1>2, <1>3 DEF Waiting, Spaced, Full
<1>5. Kept(Full, n, {}, act, {}, 0)
  BY <1>2, <1>3 DEF Kept, Full
<1> QED
  BY <1>4, <1>5 DEF Sound, Regular

-----------------------------------------------------------------------------
(* Buckets from which each takes its own, as the tokens of a provider are:  *)
(* n tells how much a task takes; plan is what is booked, and late the part *)
(* of it that is still to come.                                             *)

(* What is taken, one by one, and how much that is.                         *)
Units(n, S) == {x \in S \X (1..Burst) : x[2] <= n[x[1].task]}
Taken(n, S) == Cardinality(Units(n, S))

Since(plan, from) == {v \in plan : from <= v.at}

Bookable(n, plan) ==
  IsFiniteSet(plan) /\ \A v \in plan : v.at \in Nat /\ n[v.task] \in 1..Burst

(* What is booked from a moment on, with what is left, is within what the   *)
(* bucket held and was given, when the moment has come or something is      *)
(* booked for it or a later one; and so is what is booked for a span.       *)
Covered(b, n, plan, now) ==
  \A from \in Nat :
    from <= now \/ Since(plan, from) # {} =>
      Taken(n, Since(plan, from)) + b.level <= Burst + now - from

Booked(b, n, plan, now) ==
  /\ b.level \in Int /\ b.last \in Nat /\ b.level <= Burst
  /\ Bookable(n, plan)
  /\ Covered(b, n, plan, now)
  /\ \A from, to \in Nat : from <= to => Taken(n, Seen(plan, from, to)) <= Burst + to - from

(* As long as nobody gives up: while something is to come the level is made *)
(* up for at last, and what is booked behind a booking fits in between.     *)
Orderly(b, n, plan, late, now) ==
  /\ late \subseteq plan
  /\ \A v \in plan \ late : v.at <= now
  /\ \A v \in late : /\ now <= v.at /\ v.at <= b.last /\ b.level = now - b.last
                     /\ Taken(n, Since(plan, v.at + 1)) <= b.last - v.at

(* A finite plan takes a number of tokens.                                  *)
LEMMA TakenIsNat ==
  ASSUME Burst \in Nat, NEW n, NEW S, IsFiniteSet(S)
  PROVE  IsFiniteSet(Units(n, S)) /\ Taken(n, S) \in Nat
<1>1. IsFiniteSet(1..Burst)
  BY FS_Interval
<1>2. IsFiniteSet(S \X (1..Burst))
  BY <1>1, FS_Product
<1>3. Units(n, S) \in SUBSET (S \X (1..Burst))
  BY DEF Units
<1>4. IsFiniteSet(Units(n, S))
  BY <1>2, <1>3, FS_Subset
<1> QED
  BY <1>4, FS_CardinalityType DEF Taken

(* A part of a plan takes no more than the plan.                            *)
LEMMA TakenByPart ==
  ASSUME Burst \in Nat, NEW n, NEW S, IsFiniteSet(S), NEW T \in SUBSET S
  PROVE  IsFiniteSet(T) /\ Taken(n, T) \in Nat /\ Taken(n, S) \in Nat /\ Taken(n, T) <= Taken(n, S)
<1>1. IsFiniteSet(T)
  BY FS_Subset
<1>2. Units(n, T) \in SUBSET Units(n, S)
  BY DEF Units
<1>3. IsFiniteSet(Units(n, S)) /\ Taken(n, T) \in Nat /\ Taken(n, S) \in Nat
  BY <1>1, TakenIsNat
<1>4. Cardinality(Units(n, T)) <= Cardinality(Units(n, S))
  BY <1>2, <1>3, FS_Subset
<1> QED
  BY <1>1, <1>3, <1>4 DEF Taken

(* Nothing takes nothing.                                                   *)
LEMMA NothingTaken ==
  ASSUME NEW n
  PROVE  Taken(n, {}) = 0
<1>1. Units(n, {}) = {}
  BY DEF Units
<1> QED
  BY <1>1, FS_EmptySet DEF Taken

(* One booking takes what its task takes.                                   *)
LEMMA TakenByOne ==
  ASSUME Burst \in Nat, NEW n, NEW v, n[v.task] \in 1..Burst
  PROVE  IsFiniteSet(Units(n, {v})) /\ Taken(n, {v}) = n[v.task]
<1>1. PICK k \in 1..Burst : k = n[v.task]
  OBVIOUS
<1>2. k \in Nat /\ IsFiniteSet(1..k) /\ Cardinality(1..k) = k
  BY FS_Interval
<1>3. IsFiniteSet({v}) /\ Cardinality({v}) = 1
  BY FS_Singleton
<1>4. Units(n, {v}) = {v} \X (1..k)
  BY <1>1 DEF Units
<1>5. IsFiniteSet({v} \X (1..k)) /\ Cardinality({v} \X (1..k)) = Cardinality({v}) * Cardinality(1..k)
  BY <1>2, <1>3, FS_Product
<1>6. Cardinality({v} \X (1..k)) = k
  BY <1>2, <1>3, <1>5
<1> QED
  BY <1>1, <1>4, <1>5, <1>6 DEF Taken

(* One more booking takes as much more.                                     *)
LEMMA TakenByOneMore ==
  ASSUME Burst \in Nat, NEW n, NEW S, IsFiniteSet(S), NEW v, v \notin S, n[v.task] \in 1..Burst
  PROVE  /\ IsFiniteSet(S \cup {v}) /\ Taken(n, S) \in Nat
         /\ Taken(n, S \cup {v}) = Taken(n, S) + n[v.task]
<1>1. IsFiniteSet(S \cup {v})
  BY FS_AddElement
<1>2. Units(n, S \cup {v}) = Units(n, S) \cup Units(n, {v})
  BY DEF Units
<1>3. Units(n, S) \cap Units(n, {v}) = {}
  BY DEF Units
<1>4. /\ IsFiniteSet(Units(n, S)) /\ Taken(n, S) \in Nat
      /\ IsFiniteSet(Units(n, {v})) /\ Taken(n, {v}) = n[v.task]
  BY TakenIsNat, TakenByOne
<1>5. Cardinality(Units(n, S) \cup Units(n, {v}))
        = Cardinality(Units(n, S)) + Cardinality(Units(n, {v}))
            - Cardinality(Units(n, S) \cap Units(n, {v}))
  BY <1>4, FS_Union
<1>6. Cardinality(Units(n, S) \cap Units(n, {v})) = 0
  BY <1>3, FS_EmptySet
<1>7. Taken(n, S \cup {v}) = Taken(n, S) + Taken(n, {v}) - 0
  BY <1>2, <1>5, <1>6 DEF Taken
<1> QED
  BY <1>1, <1>4, <1>7

(* So a booking that is taken out leaves as much less.                      *)
LEMMA TakenByOneLess ==
  ASSUME Burst \in Nat, NEW n, NEW S, IsFiniteSet(S), NEW v \in S, n[v.task] \in 1..Burst
  PROVE  /\ IsFiniteSet(S \ {v}) /\ Taken(n, S \ {v}) \in Nat
         /\ Taken(n, S) = Taken(n, S \ {v}) + n[v.task]
<1>1. IsFiniteSet(S \ {v}) /\ v \notin S \ {v} /\ (S \ {v}) \cup {v} = S
  BY FS_RemoveElement
<1>2. Taken(n, (S \ {v}) \cup {v}) = Taken(n, S \ {v}) + n[v.task] /\ Taken(n, S \ {v}) \in Nat
  BY <1>1, TakenByOneMore
<1> QED
  BY <1>1, <1>2

(* What a span and what the time since a moment take.                       *)
LEMMA PlanWeighs ==
  ASSUME Burst \in Nat, NEW n, NEW plan, IsFiniteSet(plan)
  PROVE  /\ \A from : IsFiniteSet(Since(plan, from)) /\ Taken(n, Since(plan, from)) \in Nat
         /\ \A from, to : /\ IsFiniteSet(Seen(plan, from, to))
                          /\ Taken(n, Seen(plan, from, to)) \in Nat
                          /\ Taken(n, Seen(plan, from, to)) <= Taken(n, Since(plan, from))
<1>1. ASSUME NEW from
      PROVE  IsFiniteSet(Since(plan, from)) /\ Taken(n, Since(plan, from)) \in Nat
  <2>1. Since(plan, from) \in SUBSET plan
    BY DEF Since
  <2> QED
    BY <2>1, TakenByPart
<1>2. ASSUME NEW from, NEW to
      PROVE  /\ IsFiniteSet(Seen(plan, from, to)) /\ Taken(n, Seen(plan, from, to)) \in Nat
             /\ Taken(n, Seen(plan, from, to)) <= Taken(n, Since(plan, from))
  <2>1. Seen(plan, from, to) \in SUBSET Since(plan, from)
    BY DEF Since, Seen
  <2> QED
    BY <1>1, <2>1, TakenByPart
<1> QED
  BY <1>1, <1>2

(* Whoever books takes the tokens at once, and the moment at which the      *)
(* level is made up for: all that is booked stays within the bucket.        *)
LEMMA Book ==
  ASSUME Burst \in Nat, NEW now \in Nat, NEW n, NEW b, NEW plan, Booked(b, n, plan, now),
         NEW v, v \notin plan, n[v.task] \in 1..Burst, v.at = ActAt(b, n[v.task], now)
  PROVE  Booked(Reserve(b, n[v.task], now), n, plan \cup {v}, now)
<1>1. PICK k \in 1..Burst : k = n[v.task]
  OBVIOUS
<1>2. PICK a : a = v.at
  OBVIOUS
<1>3. PICK c : c = Reserve(b, k, now)
  OBVIOUS
<1> DEFINE more == plan \cup {v}
<1>4. /\ b.level \in Int /\ b.last \in Nat /\ b.level <= Burst /\ Bookable(n, plan)
      /\ Covered(b, n, plan, now)
  BY DEF Booked
<1>5. /\ a \in Nat /\ a >= now /\ (a > now => a = now - c.level) /\ (a = now => c.level >= 0)
      /\ c.level = b.level - k /\ c.last = a /\ c.level \in Int /\ c.level <= Burst
  BY <1>1, <1>2, <1>3, <1>4 DEF ActAt, Reserve, Delay
<1>6. IsFiniteSet(plan)
  BY <1>4 DEF Bookable
<1>7. Bookable(n, more)
  <2>1. IsFiniteSet(more)
    BY <1>6, FS_AddElement
  <2> QED
    BY <2>1, <1>1, <1>2, <1>4, <1>5 DEF Bookable
<1>8. /\ \A from : IsFiniteSet(Since(plan, from)) /\ Taken(n, Since(plan, from)) \in Nat
      /\ \A from, to : /\ IsFiniteSet(Seen(plan, from, to))
                       /\ Taken(n, Seen(plan, from, to)) \in Nat
                       /\ Taken(n, Seen(plan, from, to)) <= Taken(n, Since(plan, from))
  BY <1>6, PlanWeighs
<1>9. ASSUME NEW from
      PROVE  IF from <= a THEN Taken(n, Since(more, from)) = Taken(n, Since(plan, from)) + k
                          ELSE Since(more, from) = Since(plan, from)
  <2>1. CASE from <= a
    <3>1. Since(more, from) = Since(plan, from) \cup {v} /\ v \notin Since(plan, from)
      BY <2>1, <1>2 DEF Since
    <3>2. Taken(n, Since(plan, from) \cup {v}) = Taken(n, Since(plan, from)) + n[v.task]
      BY <3>1, <1>8, TakenByOneMore
    <3> QED
      BY <2>1, <3>1, <3>2, <1>1
  <2>2. CASE ~(from <= a)
    BY <2>2, <1>2 DEF Since
  <2> QED
    BY <2>1, <2>2
<1>10. ASSUME NEW from, NEW to
       PROVE  IF from <= a /\ a <= to
              THEN Taken(n, Seen(more, from, to)) = Taken(n, Seen(plan, from, to)) + k
              ELSE Seen(more, from, to) = Seen(plan, from, to)
  <2>1. CASE from <= a /\ a <= to
    <3>1. Seen(more, from, to) = Seen(plan, from, to) \cup {v} /\ v \notin Seen(plan, from, to)
      BY <2>1, <1>2 DEF Seen
    <3>2. Taken(n, Seen(plan, from, to) \cup {v}) = Taken(n, Seen(plan, from, to)) + n[v.task]
      BY <3>1, <1>8, TakenByOneMore
    <3> QED
      BY <2>1, <3>1, <3>2, <1>1
  <2>2. CASE ~(from <= a /\ a <= to)
    BY <2>2, <1>2 DEF Seen
  <2> QED
    BY <2>1, <2>2
<1>11. \A from \in Nat : from > now /\ Since(plan, from) = {} => Taken(n, Since(plan, from)) = 0
  BY NothingTaken
<1> HIDE DEF more
<1>12. ASSUME NEW from \in Nat, from <= a
       PROVE  Taken(n, Since(plan, from)) + b.level <= Burst + now - from
              \/ (from > now /\ Taken(n, Since(plan, from)) = 0)
  BY <1>4, <1>11 DEF Covered
<1>13. Covered(c, n, more, now)
  <2> SUFFICES ASSUME NEW from \in Nat, from <= now \/ Since(more, from) # {}
               PROVE  Taken(n, Since(more, from)) + c.level <= Burst + now - from
    BY DEF Covered
  <2>1. CASE from <= a
    <3>1. Taken(n, Since(more, from)) = Taken(n, Since(plan, from)) + k
      BY <2>1, <1>9
    <3>2. CASE Taken(n, Since(plan, from)) + b.level <= Burst + now - from
      BY <3>1, <3>2, <1>4, <1>5, <1>8
    <3>3. CASE from > now /\ Taken(n, Since(plan, from)) = 0
      BY <2>1, <3>1, <3>3, <1>5
    <3> QED
      BY <2>1, <3>2, <3>3, <1>12
  <2>2. CASE ~(from <= a)
    <3>1. Since(more, from) = Since(plan, from)
      BY <2>2, <1>9
    <3>2. Since(plan, from) # {}
      BY <3>1, <2>2, <1>5
    <3>3. Taken(n, Since(plan, from)) + b.level <= Burst + now - from
      BY <3>2, <1>4 DEF Covered
    <3> QED
      BY <3>1, <3>3, <1>4, <1>5, <1>8
  <2> QED
    BY <2>1, <2>2
<1>14. ASSUME NEW from \in Nat, NEW to \in Nat, from <= to
       PROVE  Taken(n, Seen(more, from, to)) <= Burst + to - from
  <2>1. Taken(n, Seen(plan, from, to)) <= Burst + to - from
    BY <1>14 DEF Booked
  <2>2. CASE from <= a /\ a <= to
    <3>1. Taken(n, Seen(more, from, to)) = Taken(n, Seen(plan, from, to)) + k
      BY <2>2, <1>10
    <3>2. Taken(n, Seen(plan, from, to)) <= Taken(n, Since(plan, from))
      BY <1>8
    <3>3. CASE Taken(n, Since(plan, from)) + b.level <= Burst + now - from
      BY <2>2, <3>1, <3>2, <3>3, <1>4, <1>5, <1>8
    <3>4. CASE from > now /\ Taken(n, Since(plan, from)) = 0
      BY <2>2, <3>1, <3>2, <3>4, <1>5, <1>8
    <3> QED
      BY <2>2, <3>3, <3>4, <1>12
  <2>3. CASE ~(from <= a /\ a <= to)
    BY <2>1, <2>3, <1>10
  <2> QED
    BY <2>2, <2>3
<1>15. Booked(c, n, more, now)
  BY <1>5, <1>7, <1>13, <1>14 DEF Booked
<1> QED
  BY <1>1, <1>3, <1>15 DEF more

(* While nobody gives up, a token is only there when nobody waits.          *)
LEMMA BookNow ==
  ASSUME Burst \in Nat, NEW now \in Nat, NEW n, NEW b, NEW plan, NEW late,
         Booked(b, n, plan, now), Orderly(b, n, plan, late, now),
         NEW v, n[v.task] \in 1..Burst, v.at = now, b.level - n[v.task] >= 0
  PROVE  late = {} /\ Orderly(Reserve(b, n[v.task], now), n, plan \cup {v}, late, now)
<1>1. PICK k \in 1..Burst : k = n[v.task]
  OBVIOUS
<1>2. late = {}
  <2> SUFFICES ASSUME NEW w \in late PROVE FALSE
    OBVIOUS
  <2>1. now <= w.at /\ w.at <= b.last /\ b.level = now - b.last /\ w \in plan
    BY DEF Orderly
  <2>2. b.last \in Nat /\ w.at \in Nat
    BY <2>1 DEF Booked, Bookable
  <2> QED
    BY <2>1, <2>2, <1>1
<1>3. \A w \in (plan \cup {v}) \ late : w.at <= now
  BY <1>2 DEF Orderly
<1> QED
  BY <1>2, <1>3 DEF Orderly

(* Whoever waits, waits behind all others: their moments are those before.  *)
LEMMA BookLater ==
  ASSUME Burst \in Nat, NEW now \in Nat, NEW n, NEW b, NEW plan, NEW late,
         Booked(b, n, plan, now), Orderly(b, n, plan, late, now),
         NEW v, v \notin plan, n[v.task] \in 1..Burst, v.at = ActAt(b, n[v.task], now),
         b.level - n[v.task] < 0
  PROVE  Orderly(Reserve(b, n[v.task], now), n, plan \cup {v}, late \cup {v}, now)
<1>1. PICK k \in 1..Burst : k = n[v.task]
  OBVIOUS
<1>2. PICK c : c = Reserve(b, k, now)
  OBVIOUS
<1> DEFINE more == plan \cup {v}
<1>3. b.level \in Int /\ b.last \in Nat /\ Bookable(n, plan)
  BY DEF Booked
<1>4. v.at \in Nat /\ v.at > now /\ v.at = now - c.level /\ c.level = b.level - k /\ c.last = v.at
  BY <1>1, <1>2, <1>3 DEF ActAt, Reserve, Delay
<1>5. IsFiniteSet(plan) /\ \A w \in plan : w.at \in Nat
  BY <1>3 DEF Bookable
<1>6. \A w \in late : w \in plan /\ w.at \in Nat /\ now <= w.at /\ w.at <= b.last
                      /\ b.level = now - b.last
                      /\ Taken(n, Since(plan, w.at + 1)) <= b.last - w.at
  BY <1>5 DEF Orderly
<1>7. \A from : IsFiniteSet(Since(plan, from)) /\ Taken(n, Since(plan, from)) \in Nat
  BY <1>5, PlanWeighs
<1>8. ASSUME NEW w \in late
      PROVE  /\ now <= w.at /\ w.at <= c.last
             /\ Taken(n, Since(more, w.at + 1)) <= c.last - w.at
  <2>1. c.last = b.last + k /\ w.at + 1 <= v.at
    BY <1>3, <1>4, <1>6
  <2>2. Since(more, w.at + 1) = Since(plan, w.at + 1) \cup {v} /\ v \notin Since(plan, w.at + 1)
    BY <2>1 DEF Since
  <2>3. Taken(n, Since(plan, w.at + 1) \cup {v}) = Taken(n, Since(plan, w.at + 1)) + n[v.task]
    BY <2>2, <1>7, TakenByOneMore
  <2>4. Taken(n, Since(more, w.at + 1)) = Taken(n, Since(plan, w.at + 1)) + k
    BY <2>2, <2>3, <1>1
  <2> HIDE DEF more
  <2> QED
    BY <2>1, <2>4, <1>3, <1>6, <1>7
<1>9. Taken(n, Since(more, v.at + 1)) <= c.last - v.at
  <2>1. \A w \in plan : w.at <= v.at
    <3> SUFFICES ASSUME NEW w \in plan PROVE w.at <= v.at
      OBVIOUS
    <3>1. CASE w \in late
      BY <3>1, <1>3, <1>4, <1>6
    <3>2. CASE w \notin late
      <4>1. w.at <= now
        BY <3>2 DEF Orderly
      <4> QED
        BY <4>1, <1>4, <1>5
    <3> QED
      BY <3>1, <3>2
  <2>2. Since(more, v.at + 1) = {}
    BY <2>1, <1>4, <1>5 DEF Since
  <2>3. Taken(n, Since(more, v.at + 1)) = 0
    BY <2>2, NothingTaken
  <2> HIDE DEF more
  <2> QED
    BY <2>3, <1>4
<1>10. late \cup {v} \subseteq more /\ \A w \in more \ (late \cup {v}) : w.at <= now
  BY DEF Orderly
<1> HIDE DEF more
<1>11. now <= v.at /\ v.at <= c.last /\ c.level = now - c.last
  BY <1>3, <1>4
<1>12. Orderly(c, n, more, late \cup {v}, now)
  <2>1. \A w \in late : c.level = now - c.last
    BY <1>11
  <2> QED
    BY <2>1, <1>8, <1>9, <1>10, <1>11 DEF Orderly
<1> QED
  BY <1>1, <1>2, <1>12 DEF more

(* Whoever's turn comes keeps the booking.                                  *)
LEMMA BookedTurn ==
  ASSUME NEW now, NEW n, NEW b, NEW plan, NEW late, Orderly(b, n, plan, late, now),
         NEW v \in late, v.at <= now
  PROVE  Orderly(b, n, plan, late \ {v}, now)
  BY DEF Orderly

(* The first to give up gets back no more than is free: not the tokens that *)
(* stand behind the booking, and never more than the booking took.          *)
LEMMA Unbook ==
  ASSUME Burst \in Nat, NEW now \in Nat, NEW n, NEW b, NEW plan, NEW late,
         Booked(b, n, plan, now), Orderly(b, n, plan, late, now), NEW v \in late
  PROVE  Booked(Cancel(b, n[v.task], v.at, now), n, plan \ {v}, now)
<1>0. b.level \in Int /\ b.last \in Nat /\ b.level <= Burst /\ Bookable(n, plan)
      /\ Covered(b, n, plan, now)
  BY DEF Booked
<1>1. /\ v \in plan /\ now <= v.at /\ v.at <= b.last /\ b.level = now - b.last
      /\ Taken(n, Since(plan, v.at + 1)) <= b.last - v.at
  BY DEF Orderly
<1>2. v.at \in Nat /\ n[v.task] \in 1..Burst /\ IsFiniteSet(plan)
  BY <1>0, <1>1 DEF Bookable
<1>3. PICK k \in 1..Burst : k = n[v.task]
  BY <1>2
<1>4. PICK a \in Nat : a = v.at
  BY <1>2
<1>5. PICK c : c = Cancel(b, k, a, now)
  OBVIOUS
<1>6. PICK g : g = Restored(b, k, a, now)
  OBVIOUS
<1> DEFINE less == plan \ {v}
<1>7. g \in Nat /\ g <= k /\ (g # 0 => g = k - (b.last - a))
  BY <1>0, <1>1, <1>3, <1>4, <1>6 DEF Restored
<1>8. c.level \in Int /\ c.last \in Nat /\ c.level <= Burst /\ c.level <= b.level + g
  <2>1. CASE g = 0
    BY <2>1, <1>0, <1>5, <1>6 DEF Cancel
  <2>2. CASE g # 0
    <3>1. /\ c.level = IF b.level + g > Burst THEN Burst ELSE b.level + g
          /\ c.last = IF a = b.last /\ a - k >= now THEN a - k ELSE b.last
      BY <2>2, <1>5, <1>6 DEF Cancel
    <3> QED
      BY <3>1, <1>0, <1>7, <1>4
  <2> QED
    BY <2>1, <2>2
<1>9. Bookable(n, less) /\ IsFiniteSet(less)
  <2>1. IsFiniteSet(less)
    BY <1>2, FS_RemoveElement
  <2> QED
    BY <2>1, <1>0 DEF Bookable
<1>10. /\ \A from : IsFiniteSet(Since(plan, from)) /\ Taken(n, Since(plan, from)) \in Nat
       /\ \A from, to : IsFiniteSet(Seen(plan, from, to)) /\ Taken(n, Seen(plan, from, to)) \in Nat
  BY <1>2, PlanWeighs
<1>11. \A from : Taken(n, Since(less, from)) \in Nat
  BY <1>9, PlanWeighs
<1>12. ASSUME NEW from, from <= a
       PROVE  Taken(n, Since(less, from)) = Taken(n, Since(plan, from)) - k
  <2>1. v \in Since(plan, from) /\ Since(less, from) = Since(plan, from) \ {v}
    BY <1>1, <1>4, <1>12 DEF Since
  <2>2. /\ Taken(n, Since(plan, from) \ {v}) \in Nat
        /\ Taken(n, Since(plan, from)) = Taken(n, Since(plan, from) \ {v}) + n[v.task]
    BY <2>1, <1>2, <1>10, TakenByOneLess
  <2>3. Taken(n, Since(plan, from)) = Taken(n, Since(less, from)) + k
    BY <2>1, <2>2, <1>3
  <2> HIDE DEF less
  <2> QED
    BY <2>3, <1>11
<1>13. \A from : ~(from <= a) => Since(less, from) = Since(plan, from)
  BY <1>4 DEF Since
<1>14. \A from : Since(less, from) # {} => Since(plan, from) # {}
  BY DEF Since
<1>15. ASSUME NEW from \in Nat, a < from, Since(less, from) # {}
       PROVE  from <= b.last /\ Taken(n, Since(plan, from)) <= b.last - a
  <2>1. PICK w \in plan : from <= w.at
    BY <1>15 DEF Since
  <2>2. w.at \in Nat /\ w.at > now
    BY <2>1, <1>0, <1>1, <1>4, <1>15 DEF Bookable
  <2>3. w \in late
    BY <2>1, <2>2 DEF Orderly
  <2>4. w.at <= b.last
    BY <2>3 DEF Orderly
  <2>5. Since(plan, from) \in SUBSET Since(plan, a + 1)
    BY <1>0, <1>15 DEF Since, Bookable
  <2>6. Taken(n, Since(plan, from)) <= Taken(n, Since(plan, a + 1))
    BY <2>5, <1>10, TakenByPart
  <2>7. Taken(n, Since(plan, a + 1)) <= b.last - a
    BY <1>1, <1>4
  <2> QED
    BY <2>1, <2>2, <2>4, <2>6, <2>7, <1>0, <1>10
<1> HIDE DEF less
<1>16. Covered(c, n, less, now)
  <2> SUFFICES ASSUME NEW from \in Nat, from <= now \/ Since(less, from) # {}
               PROVE  Taken(n, Since(less, from)) + c.level <= Burst + now - from
    BY DEF Covered
  <2>1. Taken(n, Since(plan, from)) + b.level <= Burst + now - from
    BY <1>0, <1>14 DEF Covered
  <2>2. CASE from <= a
    BY <2>1, <2>2, <1>0, <1>7, <1>8, <1>10, <1>12
  <2>3. CASE ~(from <= a)
    <3>1. Taken(n, Since(less, from)) = Taken(n, Since(plan, from))
      BY <2>3, <1>13
    <3>2. Since(less, from) # {} /\ a < from
      BY <2>3, <1>1, <1>4
    <3>3. from <= b.last /\ Taken(n, Since(plan, from)) <= b.last - a
      BY <3>2, <1>15
    <3>4. CASE g = 0
      BY <3>1, <3>4, <2>1, <1>0, <1>8, <1>10
    <3>5. CASE g # 0
      BY <3>1, <3>3, <3>5, <1>0, <1>1, <1>7, <1>8, <1>10
    <3> QED
      BY <3>4, <3>5
  <2> QED
    BY <2>2, <2>3
<1>17. ASSUME NEW from \in Nat, NEW to \in Nat, from <= to
       PROVE  Taken(n, Seen(less, from, to)) <= Burst + to - from
  <2>1. Taken(n, Seen(plan, from, to)) <= Burst + to - from
    BY <1>17 DEF Booked
  <2>2. Seen(less, from, to) \in SUBSET Seen(plan, from, to)
    BY DEF less, Seen
  <2>3. /\ Taken(n, Seen(less, from, to)) <= Taken(n, Seen(plan, from, to))
        /\ Taken(n, Seen(less, from, to)) \in Nat /\ Taken(n, Seen(plan, from, to)) \in Nat
    BY <2>2, <1>10, TakenByPart
  <2> QED
    BY <2>1, <2>3
<1>18. Booked(c, n, less, now)
  BY <1>8, <1>9, <1>16, <1>17 DEF Booked
<1> QED
  BY <1>3, <1>4, <1>5, <1>18 DEF less

(* A tick gives what one moment more may take.                              *)
LEMMA BookedTick ==
  ASSUME Burst \in Nat, NEW now \in Nat, NEW n, NEW b, NEW plan, Booked(b, n, plan, now)
  PROVE  Booked(Refill(b), n, plan, now + 1)
<1>0. /\ b.level \in Int /\ b.last \in Nat /\ b.level <= Burst /\ Bookable(n, plan)
      /\ Covered(b, n, plan, now)
  BY DEF Booked
<1>1. PICK c : c = Refill(b)
  OBVIOUS
<1>2. c.last = b.last /\ c.level \in Int /\ c.level <= b.level + 1 /\ c.level <= Burst
  BY <1>0, <1>1 DEF Refill
<1>3. \A from : Taken(n, Since(plan, from)) \in Nat
  BY <1>0, PlanWeighs DEF Bookable
<1>4. Covered(c, n, plan, now + 1)
  <2> SUFFICES ASSUME NEW from \in Nat, from <= now + 1 \/ Since(plan, from) # {}
               PROVE  Taken(n, Since(plan, from)) + c.level <= Burst + (now + 1) - from
    BY DEF Covered
  <2>1. CASE from <= now \/ Since(plan, from) # {}
    <3>1. Taken(n, Since(plan, from)) + b.level <= Burst + now - from
      BY <2>1, <1>0 DEF Covered
    <3> QED
      BY <3>1, <1>0, <1>2, <1>3
  <2>2. CASE from = now + 1 /\ Since(plan, from) = {}
    <3>1. Taken(n, Since(plan, from)) = 0
      BY <2>2, NothingTaken
    <3> QED
      BY <3>1, <2>2, <1>2
  <2> QED
    BY <2>1, <2>2
<1>5. Booked(c, n, plan, now + 1)
  BY <1>0, <1>2, <1>4 DEF Booked
<1> QED
  BY <1>1, <1>5

(* The level that is to be made up for is one nearer, and none was due.     *)
LEMMA OrderlyTick ==
  ASSUME Burst \in Nat \ {0}, NEW now \in Nat, NEW n, NEW b, NEW plan, NEW late,
         Booked(b, n, plan, now), Orderly(b, n, plan, late, now), \A v \in late : v.at > now
  PROVE  Orderly(Refill(b), n, plan, late, now + 1)
<1>0. /\ b.level \in Int /\ b.last \in Nat /\ Bookable(n, plan)
  BY DEF Booked
<1>1. PICK c : c = Refill(b)
  OBVIOUS
<1>2. \A v \in plan : v.at \in Nat
  BY <1>0 DEF Bookable
<1>3. late \subseteq plan /\ \A v \in plan \ late : v.at <= now + 1
  BY <1>2 DEF Orderly
<1>4. ASSUME NEW v \in late
      PROVE  /\ now + 1 <= v.at /\ v.at <= c.last /\ c.level = (now + 1) - c.last
             /\ Taken(n, Since(plan, v.at + 1)) <= c.last - v.at
  <2>1. /\ v.at \in Nat /\ v.at <= b.last /\ b.level = now - b.last
        /\ Taken(n, Since(plan, v.at + 1)) <= b.last - v.at
    BY <1>2, <1>3 DEF Orderly
  <2>2. c.last = b.last /\ c.level = b.level + 1
    BY <2>1, <1>0, <1>1 DEF Refill
  <2> QED
    BY <2>1, <2>2, <1>0
<1> QED
  BY <1>1, <1>3, <1>4 DEF Orderly

(* At first nothing is booked.                                              *)
LEMMA Unbooked ==
  ASSUME Burst \in Nat, NEW n
  PROVE  Booked(Full, n, {}, 0) /\ Orderly(Full, n, {}, {}, 0)
<1>1. \A from, to : Since({}, from) = {} /\ Seen({}, from, to) = {}
  BY DEF Since, Seen
<1>2. Bookable(n, {})
  BY FS_EmptySet DEF Bookable
<1>3. \A from, to : Taken(n, Since({}, from)) = 0 /\ Taken(n, Seen({}, from, to)) = 0
  BY <1>1, NothingTaken
<1> QED
  BY <1>1, <1>2, <1>3 DEF Booked, Covered, Orderly, Full

=============================================================================
