---------------------------- MODULE MontageProofs ----------------------------
(***************************************************************************)
(* Proofs about Montage, for every list of clips, every transcription and  *)
(* every choice of the constants.                                          *)
(***************************************************************************)
EXTENDS Montage, SequenceTheorems, TLAPS

ClipType == [t0 : Nat, t1 : Nat, cut0 : Nat, cut1 : Nat, rate : Nat \ {0}]

WellFormed(c) ==
  c \in ClipType /\ c.t0 <= c.cut0 /\ c.cut0 <= c.cut1 /\ c.cut1 <= c.t1

LEMMA ClipsWellFormed ==
  ASSUME NEW k \in 1 .. NClips
  PROVE  WellFormed(Clips[k])
BY MontageAssumption DEF WellFormed, ClipType

LEMMA TimesGrow ==
  ASSUME NEW a \in Int, NEW b \in Int, NEW r \in Nat, a <= b
  PROVE  a * r \in Int /\ b * r \in Int /\ a * r <= b * r
  OBVIOUS

LEMMA RemapType ==
  ASSUME NEW c, WellFormed(c), NEW t \in Int
  PROVE  Remap(c, t) \in Int
BY DEF WellFormed, ClipType, Remap

\* Time never runs backwards, whatever is cut out.
LEMMA RemapMonotone ==
  ASSUME NEW c, WellFormed(c), NEW a \in Int, NEW b \in Int, a <= b
  PROVE  Remap(c, a) <= Remap(c, b)
BY DEF WellFormed, ClipType, Remap

LEMMA RemapStart ==
  ASSUME NEW c, WellFormed(c)
  PROVE  Remap(c, c.t0) = 0
BY DEF WellFormed, ClipType, Remap

LEMMA RemapNat ==
  ASSUME NEW c, WellFormed(c), NEW t \in Nat, c.t0 <= t
  PROVE  Remap(c, t) \in Nat
<1>1. c.t0 \in Nat
  BY DEF WellFormed, ClipType
<1> QED BY <1>1, RemapType, RemapMonotone, RemapStart

\* When time t of the recording of clip c is shown, if the clip begins at o.
FilmAt(o, c, t) == o + Remap(c, t) * c.rate

LEMMA FilmMonotone ==
  ASSUME NEW c, WellFormed(c), NEW o \in Nat, NEW a \in Int, NEW b \in Int, a <= b
  PROVE  /\ FilmAt(o, c, a) \in Int /\ FilmAt(o, c, b) \in Int
         /\ FilmAt(o, c, a) <= FilmAt(o, c, b)
<1>1. c.rate \in Nat
  BY DEF WellFormed, ClipType
<1> DEFINE x == Remap(c, a)
           y == Remap(c, b)
<1>2. x \in Int /\ y \in Int /\ x <= y
  BY RemapType, RemapMonotone
<1>3. FilmAt(o, c, a) = o + x * c.rate /\ FilmAt(o, c, b) = o + y * c.rate
  BY DEF FilmAt
<1> HIDE DEF x, y
<1>4. x * c.rate <= y * c.rate /\ x * c.rate \in Int /\ y * c.rate \in Int
  BY <1>1, <1>2, TimesGrow
<1> QED BY <1>3, <1>4

LEMMA FilmStart ==
  ASSUME NEW c, WellFormed(c), NEW o \in Nat, NEW t \in Nat, c.t0 <= t
  PROVE  FilmAt(o, c, t) \in Nat /\ o <= FilmAt(o, c, t)
<1>1. c.t0 \in Nat /\ c.rate \in Nat
  BY DEF WellFormed, ClipType
<1>2. FilmAt(o, c, c.t0) = o
  BY <1>1, RemapStart DEF FilmAt
<1> QED BY <1>1, <1>2, FilmMonotone

LEMMA DurationNat ==
  ASSUME NEW c, WellFormed(c)
  PROVE  Duration(c) \in Nat /\ \A o \in Nat : o + Duration(c) = FilmAt(o, c, c.t1)
<1>1. c.rate \in Nat /\ c.t0 \in Nat /\ c.t1 \in Nat /\ c.t0 <= c.t1
  BY DEF WellFormed, ClipType
<1>2. Remap(c, c.t1) \in Nat
  BY <1>1, RemapNat
<1>3. Remap(c, c.t1) * c.rate \in Nat
  BY <1>1, <1>2
<1> QED BY <1>3 DEF Duration, FilmAt

----------------------------------------------------------------------------
(* The two loops of regroup. *)

Sorted(s) ==
  \A i \in 1 .. Len(s) :
    s[i].start <= s[i].end /\ (i < Len(s) => s[i].start <= s[i + 1].start)

Busy == {"reading", "trimming", "placing"}

\* What the variables of regroup() hold in each of its loops.
LoopInv ==
  /\ phase \in Busy => clip \in 1 .. NClips
  /\ phase = "reading" /\ cur = <<>> => out = <<>>
  /\ phase # "reading" => cur = <<>>
  /\ phase \notin {"reading", "trimming"} => out = <<>>
  /\ phase \notin {"trimming", "placing"} => res = <<>>
  /\ cur # <<>> =>
       /\ cur[1].start <= cur[1].end /\ cur[1].start <= last
       /\ out # <<>> => out[Len(out)].start <= cur[1].start
  /\ res # <<>> /\ out # <<>> => res[Len(res)].start <= out[1].start

GroupType ==
  /\ phase \in {"next", "reading", "trimming", "placing", "concat", "writing", "done", "aborted"}
  /\ clip \in 0 .. NClips
  /\ cur \in Seq(Cue) /\ out \in Seq(Cue) /\ res \in Seq(Cue) /\ Len(cur) <= 1
  /\ words \in Seq(BOOLEAN) /\ last \in Nat

GroupInv == GroupType /\ LoopInv /\ Sorted(out) /\ ClipCuesOrdered /\ ShortOnlyIfFollowed

LEMMA AppendSorted ==
  ASSUME NEW s \in Seq(Cue), Sorted(s), NEW c \in Cue, c.start <= c.end,
         s # <<>> => s[Len(s)].start <= c.start
  PROVE  Sorted(Append(s, c))
<1> DEFINE t == Append(s, c)
<1>1. Len(t) = Len(s) + 1 /\ Len(s) \in Nat /\ t[Len(s) + 1] = c
  OBVIOUS
<1>2. \A i \in 1 .. Len(s) : t[i] = s[i]
  OBVIOUS
<1> HIDE DEF t
<1> SUFFICES ASSUME NEW i \in 1 .. Len(t)
             PROVE  t[i].start <= t[i].end /\ (i < Len(t) => t[i].start <= t[i + 1].start)
  BY DEF Sorted, t
<1>3. CASE i = Len(t)
  BY <1>1, <1>3
<1>4. CASE i = Len(s)
  BY <1>1, <1>2, <1>4 DEF Sorted
<1>5. CASE i < Len(s)
  BY <1>1, <1>2, <1>5 DEF Sorted
<1> QED BY <1>1, <1>3, <1>4, <1>5

LEMMA TailSorted ==
  ASSUME NEW s \in Seq(Cue), Sorted(s), s # <<>>
  PROVE  /\ Sorted(Tail(s)) /\ Tail(s) \in Seq(Cue)
         /\ Head(s) \in Cue /\ Head(s) = s[1] /\ s[1].start <= s[1].end
         /\ Tail(s) # <<>> => s[1].start <= Tail(s)[1].start
<1> DEFINE t == Tail(s)
<1>1. /\ t \in Seq(Cue) /\ Len(t) = Len(s) - 1 /\ Len(s) \in Nat \ {0} /\ Len(t) \in Nat
      /\ Head(s) \in Cue /\ Head(s) = s[1]
  OBVIOUS
<1>2. \A i \in 1 .. Len(t) : t[i] = s[i + 1]
  OBVIOUS
<1>3. t # <<>> => Len(t) > 0
  BY <1>1
<1> HIDE DEF t
<1>4. Sorted(t)
  <2> SUFFICES ASSUME NEW i \in 1 .. Len(t)
               PROVE  t[i].start <= t[i].end /\ (i < Len(t) => t[i].start <= t[i + 1].start)
    BY DEF Sorted
  <2>1. i + 1 \in 1 .. Len(s) /\ (i < Len(t) => i + 1 < Len(s) /\ i + 1 \in 1 .. Len(t))
    BY <1>1
  <2>2. s[i + 1].start <= s[i + 1].end /\ (i + 1 < Len(s) => s[i + 1].start <= s[i + 2].start)
    BY <2>1 DEF Sorted
  <2>3. t[i] = s[i + 1] /\ (i < Len(t) => t[i + 1] = s[i + 2])
    BY <1>2, <2>1
  <2> QED BY <2>1, <2>2, <2>3
<1>5. s[1].start <= s[1].end /\ (t # <<>> => s[1].start <= t[1].start)
  BY <1>1, <1>2, <1>3 DEF Sorted
<1> QED BY <1>1, <1>4, <1>5 DEF t

LEMMA ReadCueStep == GroupInv /\ ReadCue => GroupInv'
<1> SUFFICES ASSUME GroupInv, ReadCue PROVE GroupInv'
  OBVIOUS
<1> USE DEF GroupInv, GroupType
<1>1. PICK a \in last .. Horizon, d \in 0 .. Horizon, blank \in BOOLEAN :
        LET n == Len(words) + 1
            cue == [start |-> a, end |-> a + d, from |-> n, to |-> n, blank |-> blank]
        IN /\ a + d <= Horizon
           /\ \/ cur = <<>> /\ cur' = << cue >> /\ UNCHANGED out
              \/ /\ cur # <<>> /\ cue.end - cur[1].start <= MaxDur
                 /\ cur' = << [cur[1] EXCEPT !.end = cue.end, !.to = n,
                                             !.blank = @ /\ blank] >>
                 /\ UNCHANGED out
              \/ cur # <<>> /\ cur' = << cue >> /\ out' = out \o cur
           /\ words' = Append(words, ~blank) /\ last' = a
  BY DEF ReadCue
<1> DEFINE n == Len(words) + 1
           cue == [start |-> a, end |-> a + d, from |-> n, to |-> n, blank |-> blank]
<1>2. a \in Nat /\ d \in Nat /\ last <= a /\ n \in Nat /\ Horizon \in Nat
  BY MontageAssumption
<1>3. cue \in Cue /\ cue.start = a /\ cue.end = a + d
  BY <1>2 DEF Cue
<1>4. /\ phase = "reading" /\ UNCHANGED <<phase, clip, res>>
      /\ words' = Append(words, ~blank) /\ last' = a
  BY <1>1 DEF ReadCue
<1>5. words' \in Seq(BOOLEAN) /\ last' \in Nat
  BY <1>2, <1>4
<1>6. CASE cur = <<>> /\ cur' = << cue >> /\ UNCHANGED out
  <2>1. out' = <<>> /\ cur' \in Seq(Cue) /\ Len(cur') = 1 /\ cur'[1] = cue /\ cur' # <<>>
    BY <1>3, <1>4, <1>6 DEF LoopInv
  <2> HIDE DEF cue
  <2> QED BY <1>2, <1>3, <1>4, <1>5, <2>1 DEF LoopInv, Sorted, ClipCuesOrdered, ShortOnlyIfFollowed, Busy
<1>7. CASE /\ cur # <<>> /\ UNCHANGED out
           /\ cur' = << [cur[1] EXCEPT !.end = cue.end, !.to = n, !.blank = @ /\ blank] >>
  <2>1. cur[1] \in Cue /\ cur[1].start <= last
    BY <1>7 DEF LoopInv
  <2> DEFINE joined == [cur[1] EXCEPT !.end = cue.end, !.to = n, !.blank = @ /\ blank]
  <2>2. joined \in Cue /\ joined.start = cur[1].start /\ joined.end = a + d
    BY <2>1, <1>2, <1>3 DEF Cue
  <2>5. cur[1].start \in Nat
    BY <2>1 DEF Cue
  <2>3. cur' \in Seq(Cue) /\ Len(cur') = 1 /\ cur'[1] = joined /\ cur' # <<>>
    BY <1>7, <2>2
  <2> HIDE DEF joined, cue
  <2>4. joined.start <= joined.end /\ joined.start <= a
    BY <1>2, <2>1, <2>2, <2>5
  <2> QED BY <1>2, <1>4, <1>5, <1>7, <2>2, <2>3, <2>4
          DEF LoopInv, Sorted, ClipCuesOrdered, ShortOnlyIfFollowed, Busy
<1>8. CASE cur # <<>> /\ cur' = << cue >> /\ out' = out \o cur
  <2>0. Len(cur) = 1
    BY <1>8
  <2>1. cur = << cur[1] >> /\ cur[1] \in Cue /\ cur[1].start <= last /\ cur[1].start <= cur[1].end
    BY <1>8, <2>0 DEF LoopInv
  <2>2. out' = Append(out, cur[1])
    BY <1>8, <2>1
  <2>3. Sorted(out')
    BY <1>8, <2>1, <2>2, AppendSorted DEF LoopInv
  <2>4. out' \in Seq(Cue) /\ out' # <<>> /\ out'[Len(out')] = cur[1]
    BY <2>1, <2>2
  <2>5. cur' \in Seq(Cue) /\ Len(cur') = 1 /\ cur'[1] = cue /\ cur' # <<>>
    BY <1>3, <1>8
  <2>6. cur[1].start <= cue.start /\ cue.start <= cue.end
    BY <1>2, <1>3, <2>1 DEF Cue
  <2>7. res = <<>>
    BY <1>4 DEF LoopInv
  <2> HIDE DEF cue
  <2> QED BY <1>2, <1>3, <1>4, <1>5, <2>3, <2>4, <2>5, <2>6, <2>7
          DEF LoopInv, ClipCuesOrdered, ShortOnlyIfFollowed, Busy
<1> QED BY <1>1, <1>6, <1>7, <1>8

LEMMA OneCue ==
  ASSUME NEW s \in Seq(Cue), Len(s) <= 1, s # <<>>
  PROVE  Len(s) = 1 /\ s = << s[1] >> /\ s[1] \in Cue
<1>1. Len(s) \in Nat /\ (Len(s) = 0 => s = <<>>)
  OBVIOUS
<1> DEFINE n == Len(s)
<1>3. n \in Nat /\ n # 0 /\ n <= 1
  BY <1>1
<1> HIDE DEF n
<1>4. n = 1
  BY <1>3
<1>2. Len(s) = 1
  BY <1>4 DEF n
<1> QED BY <1>2

LEMMA EndOfSrtStep == GroupInv /\ EndOfSrt => GroupInv'
<1> SUFFICES ASSUME GroupInv, EndOfSrt PROVE GroupInv'
  OBVIOUS
<1> USE DEF GroupInv, GroupType
<1>1. /\ phase = "reading" /\ phase' = "trimming" /\ out' = out \o cur /\ cur' = <<>>
      /\ UNCHANGED <<clip, res, words, last>> /\ res = <<>>
  BY DEF EndOfSrt, GoTo, LoopInv
<1>2. CASE cur = <<>>
  <2>1. out' = out
    BY <1>1, <1>2
  <2> QED BY <1>1, <2>1 DEF LoopInv, Sorted, ClipCuesOrdered, ShortOnlyIfFollowed, Busy
<1>3. CASE cur # <<>>
  <2>0. cur \in Seq(Cue) /\ Len(cur) <= 1 /\ cur # <<>> /\ out \in Seq(Cue)
    BY <1>3
  <2>1. cur = << cur[1] >> /\ cur[1] \in Cue
    BY <2>0, OneCue
  <2>4. cur[1].start <= cur[1].end
    BY <1>3 DEF LoopInv
  <2>2. out' = Append(out, cur[1]) /\ out' \in Seq(Cue)
    <3>1. out \o << cur[1] >> = Append(out, cur[1])
      BY <2>0, <2>1
    <3> QED BY <1>1, <2>0, <2>1, <3>1
  <2>3. Sorted(out')
    BY <1>3, <2>1, <2>2, <2>4, AppendSorted DEF LoopInv
  <2> QED BY <1>1, <2>2, <2>3 DEF LoopInv, ClipCuesOrdered, ShortOnlyIfFollowed, Busy
<1> QED BY <1>2, <1>3

\* What one round of the second loop makes of a list of cues that keeps to both claims.
Neat(s) ==
  \A i \in 1 .. Len(s) :
    /\ s[i].start <= s[i].end
    /\ i < Len(s) => s[i].end <= s[i + 1].start
    /\ s[i].end - s[i].start < MinDur => i < Len(s) /\ s[i].end = s[i + 1].start

LEMMA NeatIff == Neat(res) <=> ClipCuesOrdered /\ ShortOnlyIfFollowed
BY DEF Neat, ClipCuesOrdered, ShortOnlyIfFollowed

LEMMA StretchedType ==
  ASSUME NEW c \in Cue, c.start <= c.end
  PROVE  /\ Stretched(c) \in Cue /\ Stretched(c).start = c.start
         /\ MinDur <= Stretched(c).end - Stretched(c).start
<1>1. c.start \in Nat /\ c.end \in Nat /\ MinDur \in Nat
  BY MontageAssumption DEF Cue
<1> DEFINE e == IF c.end - c.start < MinDur THEN c.start + MinDur ELSE c.end
<1>2. e \in Nat /\ MinDur <= e - c.start
  BY <1>1
<1> HIDE DEF e
<1>3. Stretched(c) = [c EXCEPT !.end = e]
  BY DEF Stretched, e
<1>4. [c EXCEPT !.end = e] \in Cue
      /\ [c EXCEPT !.end = e].start = c.start /\ [c EXCEPT !.end = e].end = e
  BY <1>2 DEF Cue
<1> QED BY <1>2, <1>3, <1>4

LEMMA TrimmedType ==
  ASSUME NEW s \in Seq(Cue), NEW a \in Nat
  PROVE  /\ Trimmed(s, a) \in Seq(Cue) /\ Len(Trimmed(s, a)) = Len(s)
         /\ s # <<>> =>
              /\ \A i \in 1 .. Len(s) : i # Len(s) => Trimmed(s, a)[i] = s[i]
              /\ Trimmed(s, a)[Len(s)].start = s[Len(s)].start
              /\ Trimmed(s, a)[Len(s)].end = IF a < s[Len(s)].end THEN a ELSE s[Len(s)].end
<1> DEFINE n == Len(s)
<1>1. CASE s # <<>> /\ a < s[n].end
  <2>1. n \in 1 .. Len(s) /\ s[n] \in Cue
    BY <1>1
  <2> DEFINE c == [s[n] EXCEPT !.end = a]
  <2>2. c \in Cue /\ c.start = s[n].start /\ c.end = a
    BY <2>1 DEF Cue
  <2> HIDE DEF c
  <2>3. Trimmed(s, a) = [s EXCEPT ![n] = c]
    BY <1>1 DEF Trimmed, c
  <2> QED BY <1>1, <2>1, <2>2, <2>3
<1>2. CASE ~(s # <<>> /\ a < s[n].end)
  BY <1>2 DEF Trimmed
<1> QED BY <1>1, <1>2

LEMMA TrimmedNeat ==
  ASSUME NEW s \in Seq(Cue), Neat(s), NEW c \in Cue, MinDur <= c.end - c.start,
         s # <<>> => s[Len(s)].start <= c.start
  PROVE  /\ Append(Trimmed(s, c.start), c) \in Seq(Cue)
         /\ Neat(Append(Trimmed(s, c.start), c))
<1>0. \A i \in 1 .. Len(s) : s[i] \in Cue
  OBVIOUS
<1>5. \A x \in Cue : x.start \in Nat /\ x.end \in Nat
  BY DEF Cue
<1>1. /\ c.start \in Nat /\ c.end \in Nat /\ Len(s) \in Nat /\ MinDur \in Nat \ {0}
      /\ \A i \in 1 .. Len(s) : s[i] \in Cue /\ s[i].start \in Nat /\ s[i].end \in Nat
  BY <1>0, <1>5, MontageAssumption
<1> DEFINE r == Trimmed(s, c.start)
           t == Append(r, c)
           n == Len(s)
<1>2. CASE s = <<>>
  <2>1. t = << c >>
    BY <1>2 DEF Trimmed
  <2> HIDE DEF t
  <2> QED BY <1>1, <2>1 DEF Neat, t
<1>3. CASE s # <<>>
  <2>1. n \in 1 .. Len(s) /\ s[n] \in Cue /\ s[n].start \in Nat /\ s[n].end \in Nat
    BY <1>1, <1>3
  <2>2. /\ r \in Seq(Cue) /\ Len(r) = n
        /\ \A i \in 1 .. n : i # n => r[i] = s[i]
        /\ r[n].start = s[n].start
        /\ r[n].end = IF c.start < s[n].end THEN c.start ELSE s[n].end
    BY <1>1, <1>3, TrimmedType
  <2> HIDE DEF r
  <2>3. t \in Seq(Cue) /\ Len(t) = n + 1 /\ t[n + 1] = c /\ \A i \in 1 .. n : t[i] = r[i]
    BY <2>2
  <2> HIDE DEF t
  <2>4. ASSUME NEW i \in 1 .. Len(t)
        PROVE  /\ t[i].start <= t[i].end
               /\ i < Len(t) => t[i].end <= t[i + 1].start
               /\ t[i].end - t[i].start < MinDur => i < Len(t) /\ t[i].end = t[i + 1].start
    <3>1. CASE i = n + 1
      BY <1>1, <2>1, <2>3, <3>1
    <3>2. CASE i = n
      <4>1. s[n].start <= s[n].end /\ ~(s[n].end - s[n].start < MinDur)
        BY <2>1 DEF Neat
      <4>2. t[n].start = s[n].start /\ t[n + 1] = c
            /\ t[n].end = IF c.start < s[n].end THEN c.start ELSE s[n].end
        BY <2>1, <2>2, <2>3
      <4> QED BY <1>1, <1>3, <2>1, <2>3, <3>2, <4>1, <4>2
    <3>3. CASE i < n
      <4>1. i \in 1 .. Len(s) /\ i + 1 \in 1 .. Len(s) /\ s[i] \in Cue /\ s[i + 1] \in Cue
        BY <1>1, <2>1, <2>3, <3>3
      <4>2. /\ s[i].start <= s[i].end /\ s[i].end <= s[i + 1].start
            /\ s[i].end - s[i].start < MinDur => s[i].end = s[i + 1].start
        BY <3>3, <4>1 DEF Neat
      <4>3. t[i] = s[i] /\ t[i + 1].start = s[i + 1].start
        BY <2>1, <2>2, <2>3, <3>3, <4>1
      <4> QED BY <2>1, <2>3, <3>3, <4>1, <4>2, <4>3
    <3> QED BY <2>1, <2>3, <3>1, <3>2, <3>3
  <2>5. Neat(t)
    BY <2>4 DEF Neat
  <2> QED BY <2>3, <2>5 DEF t, r
<1> QED BY <1>2, <1>3

LEMMA TrimStep == GroupInv /\ Trim => GroupInv'
<1> SUFFICES ASSUME GroupInv, Trim PROVE GroupInv'
  OBVIOUS
<1> USE DEF GroupInv, GroupType
<1> DEFINE h == Head(out)
<1>1. /\ phase = "trimming" /\ out # <<>> /\ out' = Tail(out)
      /\ res' = IF h.blank THEN res ELSE Append(Trimmed(res, h.start), Stretched(h))
      /\ UNCHANGED <<phase, clip, cur, words, last>> /\ cur = <<>>
  BY DEF Trim, LoopInv
<1>2. /\ Sorted(out') /\ out' \in Seq(Cue) /\ h \in Cue /\ h.start <= h.end
      /\ out' # <<>> => h.start <= out'[1].start
      /\ res # <<>> => res[Len(res)].start <= h.start
  BY <1>1, TailSorted DEF LoopInv
<1>3. h.start \in Nat
  BY <1>2 DEF Cue
<1> HIDE DEF h
<1>4. CASE h.blank
  <2>1. out' # <<>> /\ res # <<>> => res[Len(res)].start <= out'[1].start
    <3> SUFFICES ASSUME out' # <<>>, res # <<>> PROVE res[Len(res)].start <= out'[1].start
      OBVIOUS
    <3>1. out'[1] \in Cue /\ res[Len(res)] \in Cue
      BY <1>2
    <3>2. out'[1].start \in Nat /\ res[Len(res)].start \in Nat
      BY <3>1 DEF Cue
    <3> QED BY <1>2, <1>3, <3>2
  <2> QED BY <1>1, <1>2, <1>4, <2>1 DEF LoopInv, ClipCuesOrdered, ShortOnlyIfFollowed, Busy
<1>5. CASE ~h.blank
  <2>1. /\ Stretched(h) \in Cue /\ Stretched(h).start = h.start
        /\ MinDur <= Stretched(h).end - Stretched(h).start
    BY <1>2, StretchedType
  <2>2. res' = Append(Trimmed(res, Stretched(h).start), Stretched(h))
    BY <1>1, <1>5, <2>1
  <2>3. Neat(res)
    BY NeatIff
  <2>4. res' \in Seq(Cue) /\ Neat(res')
    BY <1>2, <2>1, <2>2, <2>3, TrimmedNeat
  <2>5. ClipCuesOrdered' /\ ShortOnlyIfFollowed'
    BY <2>4 DEF Neat, ClipCuesOrdered, ShortOnlyIfFollowed
  <2>6. Trimmed(res, h.start) \in Seq(Cue)
    BY <1>2, <1>3, TrimmedType
  <2>7. res'[Len(res')] = Stretched(h)
    BY <2>1, <2>2, <2>6
  <2>8. out' # <<>> => res'[Len(res')].start <= out'[1].start
    BY <1>2, <2>1, <2>7
  <2> QED BY <1>1, <1>2, <2>4, <2>5, <2>8 DEF LoopInv, Busy
<1> QED BY <1>4, <1>5

LEMMA TailNeat ==
  ASSUME NEW s \in Seq(Cue), Neat(s), s # <<>>
  PROVE  Tail(s) \in Seq(Cue) /\ Neat(Tail(s))
<1> DEFINE t == Tail(s)
<1>1. t \in Seq(Cue) /\ Len(t) = Len(s) - 1 /\ Len(s) \in Nat \ {0}
  OBVIOUS
<1>2. \A i \in 1 .. Len(t) : t[i] = s[i + 1]
  OBVIOUS
<1> HIDE DEF t
<1>3. ASSUME NEW i \in 1 .. Len(t)
      PROVE  /\ t[i].start <= t[i].end
             /\ i < Len(t) => t[i].end <= t[i + 1].start
             /\ t[i].end - t[i].start < MinDur => i < Len(t) /\ t[i].end = t[i + 1].start
  <2>1. i + 1 \in 1 .. Len(s) /\ (i < Len(t) <=> i + 1 < Len(s))
        /\ (i < Len(t) => i + 1 \in 1 .. Len(t))
    BY <1>1
  <2>2. /\ s[i + 1].start <= s[i + 1].end
        /\ i + 1 < Len(s) => s[i + 1].end <= s[i + 2].start
        /\ s[i + 1].end - s[i + 1].start < MinDur
             => i + 1 < Len(s) /\ s[i + 1].end = s[i + 2].start
    BY <2>1 DEF Neat
  <2>3. t[i] = s[i + 1] /\ (i < Len(t) => t[i + 1] = s[i + 2])
    BY <1>2, <2>1
  <2> QED BY <2>1, <2>2, <2>3
<1> QED BY <1>1, <1>3 DEF Neat, t

LEMMA PlaceCueStep == GroupInv /\ PlaceCue => GroupInv'
<1> SUFFICES ASSUME GroupInv, PlaceCue PROVE GroupInv'
  OBVIOUS
<1> USE DEF GroupInv, GroupType
<1>1. /\ phase = "placing" /\ res # <<>> /\ res' = Tail(res) /\ out = <<>> /\ cur = <<>>
      /\ UNCHANGED <<phase, clip, cur, out, words, last>>
  BY DEF PlaceCue, LoopInv
<1>2. res' \in Seq(Cue) /\ Neat(res')
  BY <1>1, NeatIff, TailNeat
<1>3. ClipCuesOrdered' /\ ShortOnlyIfFollowed'
  BY <1>2 DEF Neat, ClipCuesOrdered, ShortOnlyIfFollowed
<1> QED BY <1>1, <1>2, <1>3 DEF LoopInv, Sorted, Busy

\* The actions that do not touch the cues of the clip.
LEMMA OtherGroupSteps ==
  GroupInv /\ (\/ Regrouped \/ Render \/ RenderFails \/ NextClip \/ LastClip
               \/ Concat \/ WriteSrt \/ Written \/ UNCHANGED vars) => GroupInv'
<1> SUFFICES ASSUME GroupInv PROVE
      (\/ Regrouped \/ Render \/ RenderFails \/ NextClip \/ LastClip
       \/ Concat \/ WriteSrt \/ Written \/ UNCHANGED vars) => GroupInv'
  OBVIOUS
<1> USE DEF GroupInv, GroupType, LoopInv, Busy, Sorted, ClipCuesOrdered, ShortOnlyIfFollowed,
            GoTo, clipVars, vars
<1>1. CASE Regrouped
  BY <1>1 DEF Regrouped
<1>2. CASE Render
  BY <1>2 DEF Render
<1>3. CASE RenderFails
  BY <1>3 DEF RenderFails
<1>4. CASE NextClip
  <2>1. NClips \in Nat /\ clip + 1 \in 1 .. NClips
    BY <1>4, MontageAssumption DEF NextClip
  <2> QED BY <1>4, <2>1 DEF NextClip
<1>5. CASE LastClip
  BY <1>5 DEF LastClip
<1>6. CASE Concat
  BY <1>6 DEF Concat
<1>7. CASE WriteSrt
  BY <1>7 DEF WriteSrt
<1>8. CASE Written
  BY <1>8 DEF Written
<1>9. CASE UNCHANGED vars
  BY <1>9
<1> QED BY <1>1, <1>2, <1>3, <1>4, <1>5, <1>6, <1>7, <1>8, <1>9

LEMMA GroupInit == Init => GroupInv
<1> SUFFICES ASSUME Init PROVE GroupInv
  OBVIOUS
<1>1. cur = <<>> /\ out = <<>> /\ res = <<>> /\ words = <<>> /\ clip \in 0 .. NClips
  BY MontageAssumption DEF Init
<1> QED BY <1>1 DEF Init, GroupInv, GroupType, LoopInv, Busy, Sorted, ClipCuesOrdered,
                    ShortOnlyIfFollowed

LEMMA GroupNext == GroupInv /\ [Next]_vars => GroupInv'
BY ReadCueStep, EndOfSrtStep, TrimStep, PlaceCueStep, OtherGroupSteps DEF Next

\* At every moment of the second loop of regroup, and while its result is used, each cue
\* of the clip ends before the next one begins, whatever the transcription.
THEOREM CuesNeverOverlap == Spec => []ClipCuesOrdered
<1>1. GroupInv => ClipCuesOrdered
  BY DEF GroupInv
<1> QED BY <1>1, GroupInit, GroupNext, PTL DEF Spec

\* Stretching comes before trimming: a cue is shorter than MinDur only where the next one
\* follows at once.
THEOREM CuesAreLongEnough == Spec => []ShortOnlyIfFollowed
<1>1. GroupInv => ShortOnlyIfFollowed
  BY DEF GroupInv
<1> QED BY <1>1, GroupInit, GroupNext, PTL DEF Spec

----------------------------------------------------------------------------
(* render_clip and main: the burned-in subtitles and the cues of the film. *)

LEMMA HeadOfRes ==
  ASSUME GroupInv, phase = "placing", res # <<>>
  PROVE  /\ WellFormed(Clips[clip]) /\ clip \in 1 .. NClips
         /\ Head(res) \in Cue /\ Head(res).start \in Nat /\ Head(res).end \in Nat
         /\ Head(res) = res[1] /\ Head(res).start <= Head(res).end
         /\ Tail(res) # <<>> => /\ Tail(res)[1].start \in Nat
                                /\ Head(res).end <= Tail(res)[1].start
<1>1. clip \in 1 .. NClips
  BY DEF GroupInv, LoopInv, Busy
<1>2. res \in Seq(Cue) /\ Len(res) \in Nat \ {0} /\ Head(res) = res[1] /\ res[1] \in Cue
  BY DEF GroupInv, GroupType
<1>3. \A x \in Cue : x.start \in Nat /\ x.end \in Nat
  BY DEF Cue
<1>4. res[1].start <= res[1].end /\ (1 < Len(res) => res[1].end <= res[2].start)
  BY <1>2 DEF GroupInv, ClipCuesOrdered
<1>5. ASSUME Tail(res) # <<>>
      PROVE  1 < Len(res) /\ Tail(res)[1] = res[2] /\ res[2] \in Cue
  <2>1. Tail(res) \in Seq(Cue) /\ Len(Tail(res)) = Len(res) - 1 /\ Len(Tail(res)) > 0
    BY <1>2, <1>5
  <2>2. 1 \in 1 .. Len(Tail(res)) /\ Tail(res)[1] = res[2] /\ 2 \in 1 .. Len(res)
    BY <1>2, <2>1
  <2> QED BY <1>2, <2>1, <2>2
<1> QED BY <1>1, <1>2, <1>3, <1>4, <1>5, ClipsWellFormed

Shown == [start : Nat, end : Nat]

\* The dialogues written so far are clear of the card and of each other, and the next cue
\* does not begin before the last of them ends.
AssInv ==
  /\ ass \in Seq(Shown) /\ CardClear
  /\ phase \in {"reading", "trimming"} => ass = <<>>
  /\ phase = "placing" /\ ass # <<>> /\ res # <<>> =>
       ass[Len(ass)].end <= Remap(Clips[clip], res[1].start)

Clear(s) ==
  \A i \in 1 .. Len(s) :
    /\ CardEnd <= s[i].start /\ s[i].start <= s[i].end
    /\ i < Len(s) => s[i].end <= s[i + 1].start

LEMMA AppendClear ==
  ASSUME NEW s \in Seq(Shown), Clear(s), NEW c \in Shown,
         CardEnd <= c.start, c.start <= c.end, s # <<>> => s[Len(s)].end <= c.start
  PROVE  Clear(Append(s, c))
<1> DEFINE t == Append(s, c)
<1>1. Len(t) = Len(s) + 1 /\ Len(s) \in Nat /\ t[Len(s) + 1] = c
  OBVIOUS
<1>2. \A i \in 1 .. Len(s) : t[i] = s[i]
  OBVIOUS
<1> HIDE DEF t
<1> SUFFICES ASSUME NEW i \in 1 .. Len(t)
             PROVE  /\ CardEnd <= t[i].start /\ t[i].start <= t[i].end
                    /\ i < Len(t) => t[i].end <= t[i + 1].start
  BY DEF Clear, t
<1>3. CASE i = Len(t)
  BY <1>1, <1>3
<1>4. CASE i = Len(s)
  BY <1>1, <1>2, <1>4 DEF Clear
<1>5. CASE i < Len(s)
  BY <1>1, <1>2, <1>5 DEF Clear
<1> QED BY <1>1, <1>3, <1>4, <1>5

LEMMA DialogueClear ==
  ASSUME NEW a \in Nat, NEW b \in Nat, a <= b
  PROVE  \/ Dialogue(a, b) = <<>>
         \/ \E d \in Shown : /\ Dialogue(a, b) = << d >>
                             /\ CardEnd <= d.start /\ a <= d.start
                             /\ d.start <= d.end /\ d.end = b
<1>1. CardEnd \in Nat /\ CardKeep \in Nat /\ CardEnd <= CardKeep
  BY MontageAssumption
<1>2. CASE a < CardEnd /\ b <= CardKeep
  BY <1>1, <1>2 DEF Dialogue
<1>3. CASE a < CardEnd /\ b > CardKeep
  <2> DEFINE d == [start |-> CardEnd, end |-> b]
  <2>1. d \in Shown /\ d.start = CardEnd /\ d.end = b
    BY <1>1 DEF Shown
  <2>2. Dialogue(a, b) = << d >>
    BY <1>1, <1>3 DEF Dialogue
  <2> HIDE DEF d
  <2> QED BY <1>1, <1>3, <2>1, <2>2
<1>4. CASE a >= CardEnd
  <2> DEFINE d == [start |-> a, end |-> b]
  <2>1. d \in Shown /\ d.start = a /\ d.end = b
    BY DEF Shown
  <2>2. Dialogue(a, b) = << d >>
    BY <1>1, <1>4 DEF Dialogue
  <2> HIDE DEF d
  <2> QED BY <1>1, <1>4, <2>1, <2>2
<1> QED BY <1>1, <1>2, <1>3, <1>4

LEMMA PlaceDialogue == GroupInv /\ AssInv /\ PlaceCue => AssInv'
<1> SUFFICES ASSUME GroupInv, AssInv, PlaceCue PROVE AssInv'
  OBVIOUS
<1> DEFINE c == Clips[clip]
           h == Head(res)
           a == Remap(c, h.start)
           b == Remap(c, h.end)
           next == Tail(res)[1].start
<1>1. /\ phase = "placing" /\ phase' = "placing" /\ clip' = clip
      /\ res # <<>> /\ res' = Tail(res)
      /\ ass' = IF Kept(c, h) THEN ass \o Dialogue(a, b) ELSE ass
  BY DEF PlaceCue
<1>2. /\ WellFormed(c) /\ h.start \in Nat /\ h.end \in Nat /\ h = res[1] /\ h.start <= h.end
      /\ Tail(res) # <<>> => next \in Nat /\ h.end <= next
  BY <1>1, HeadOfRes
<1>3. /\ a \in Int /\ b \in Int /\ a <= b
      /\ Tail(res) # <<>> => Remap(c, next) \in Int /\ b <= Remap(c, next)
  <2> HIDE DEF c, h, next
  <2>1. a \in Int /\ b \in Int /\ a <= b
    <3>1. h.start \in Int /\ h.end \in Int /\ h.start <= h.end /\ WellFormed(c)
      BY <1>2
    <3>2. Remap(c, h.start) \in Int /\ Remap(c, h.end) \in Int
      BY <3>1, RemapType
    <3>3. Remap(c, h.start) <= Remap(c, h.end)
      BY <3>1, RemapMonotone
    <3> QED BY <3>2, <3>3
  <2>2. ASSUME Tail(res) # <<>>
        PROVE  Remap(c, next) \in Int /\ b <= Remap(c, next)
    <3>1. next \in Int /\ h.end \in Int /\ h.end <= next
      BY <1>2, <2>2
    <3> QED BY <1>2, <3>1, RemapType, RemapMonotone
  <2> QED BY <2>1, <2>2
<1>4. ass \in Seq(Shown) /\ Clear(ass)
  BY DEF AssInv, CardClear, Clear
<1>5. ass # <<>> => ass[Len(ass)].end <= a
  BY <1>1, <1>2 DEF AssInv
<1>6. \A x \in Shown : x.start \in Nat /\ x.end \in Nat
  BY DEF Shown
<1>7. ass # <<>> => ass[Len(ass)].end \in Nat
  <2> SUFFICES ASSUME ass # <<>> PROVE ass[Len(ass)].end \in Nat
    OBVIOUS
  <2>1. ass[Len(ass)] \in Shown
    BY <1>4
  <2> QED BY <1>6, <2>1
<1> HIDE DEF a, b, c, h, next
<1>8. SUFFICES ASSUME ass' \in Seq(Shown), Clear(ass'),
                      ass' # <<>> => ass'[Len(ass')].end \in Int /\ ass'[Len(ass')].end <= b
               PROVE  AssInv'
  <2>1. CASE ass' = ass
    BY <1>3, <1>4, <1>5, <1>7, <2>1
  <2>2. CASE Kept(c, h) /\ ass' # ass
    <3>1. a \in Nat /\ b \in Nat
      <4>1. c.t0 <= h.start /\ c.t0 \in Nat
        BY <1>2, <2>2 DEF Kept, WellFormed, ClipType
      <4>2. c.t0 <= h.end
        BY <1>2, <4>1
      <4> QED BY <1>2, <4>1, <4>2, RemapNat DEF a, b
    <3>2. Dialogue(a, b) # <<>>
      BY <1>1, <1>4, <2>2
    <3>3. PICK d \in Shown : /\ Dialogue(a, b) = << d >> /\ CardEnd <= d.start /\ a <= d.start
                             /\ d.start <= d.end /\ d.end = b
      BY <1>3, <3>1, <3>2, DialogueClear
    <3>4. ass \o << d >> = Append(ass, d) /\ Append(ass, d) \in Seq(Shown)
          /\ Append(ass, d)[Len(Append(ass, d))] = d
      BY <1>4, <3>3
    <3>5. ass' = Append(ass, d)
      BY <1>1, <2>2, <3>3, <3>4
    <3>6. d.start \in Nat /\ (ass # <<>> => ass[Len(ass)].end <= d.start)
      BY <1>3, <1>5, <1>6, <1>7, <3>3
    <3>7. Clear(ass')
      BY <1>4, <3>3, <3>5, <3>6, AppendClear
    <3> QED BY <3>1, <3>3, <3>4, <3>5, <3>7
  <2> QED BY <1>1, <2>1, <2>2
<1>9. CardClear'
  BY <1>8 DEF Clear, CardClear
<1>10. ass' # <<>> /\ res' # <<>> => ass'[Len(ass')].end <= Remap(Clips[clip'], res'[1].start)
  <2> SUFFICES ASSUME ass' # <<>>, res' # <<>>
               PROVE  ass'[Len(ass')].end <= Remap(Clips[clip'], res'[1].start)
    OBVIOUS
  <2>1. Clips[clip'] = c /\ res'[1].start = next
    BY <1>1 DEF next, c
  <2>2. Remap(c, next) \in Int /\ b <= Remap(c, next)
    BY <1>1, <1>3
  <2>3. Remap(Clips[clip'], res'[1].start) = Remap(c, next)
    BY <2>1
  <2>4. ass'[Len(ass')].end <= Remap(c, next)
    BY <1>3, <1>8, <2>2
  <2> QED BY <2>3, <2>4
<1> QED BY <1>1, <1>8, <1>9, <1>10 DEF AssInv

LEMMA AssNext == GroupInv /\ AssInv /\ [Next]_vars => AssInv'
<1> SUFFICES ASSUME GroupInv, AssInv, [Next]_vars PROVE AssInv'
  OBVIOUS
<1> USE DEF GoTo, CardClear
<1>1. CASE PlaceCue
  BY <1>1, PlaceDialogue
<1>2. CASE NextClip
  BY <1>2 DEF NextClip, AssInv
<1>3. CASE UNCHANGED ass /\ phase' \notin {"reading", "trimming", "placing"}
  BY <1>3 DEF AssInv
<1>4. CASE ReadCue \/ EndOfSrt \/ Trim
  BY <1>4 DEF ReadCue, EndOfSrt, Trim, AssInv
<1>5. CASE Regrouped
  BY <1>5 DEF Regrouped, clipVars, AssInv
<1>6. CASE UNCHANGED vars
  BY <1>6 DEF vars, clipVars, AssInv
<1>7. Render \/ RenderFails \/ LastClip \/ Concat \/ WriteSrt \/ Written
        => UNCHANGED ass /\ phase' \notin {"reading", "trimming", "placing"}
  BY DEF Render, RenderFails, LastClip, Concat, WriteSrt, Written, clipVars
<1> QED BY <1>1, <1>2, <1>3, <1>4, <1>5, <1>6, <1>7 DEF Next

\* What is burned into a clip never overlaps, nor covers the section card.
THEOREM CardStaysClear == Spec => []CardClear
<1>1. Init => AssInv
  BY DEF Init, AssInv, CardClear
<1>2. AssInv => CardClear
  BY DEF AssInv
<1> QED BY <1>1, <1>2, AssNext, GroupInit, GroupNext, PTL DEF Spec

InOrder(s) ==
  \A i \in 1 .. Len(s) :
    /\ s[i].start <= s[i].end
    /\ i < Len(s) => /\ s[i].start <= s[i + 1].start
                     /\ s[i].clip = s[i + 1].clip => s[i].end <= s[i + 1].start

\* A cue of the film starts in its own clip: not before its beginning, and before its end,
\* which is where the next clip begins.
FilmInv ==
  /\ allcues \in Seq(Placed) /\ offset \in Nat /\ InOrder(allcues)
  /\ \A i \in 1 .. Len(allcues) :
       /\ allcues[i].clip <= clip
       /\ phase \in {"reading", "trimming"} => allcues[i].clip < clip
       /\ phase \notin {"placing", "aborted"} => allcues[i].start <= offset
       /\ phase = "placing" =>
            /\ allcues[i].clip < clip => allcues[i].start <= offset
            /\ allcues[i].clip = clip => offset <= allcues[i].start
            /\ allcues[i].start <= FilmAt(offset, Clips[clip], Clips[clip].t1)
  /\ phase = "placing" /\ res # <<>> /\ allcues # <<>> /\ allcues[Len(allcues)].clip = clip =>
       allcues[Len(allcues)].end <= FilmAt(offset, Clips[clip], res[1].start)

LEMMA AppendInOrder ==
  ASSUME NEW s \in Seq(Placed), InOrder(s), NEW c \in Placed, c.start <= c.end,
         s # <<>> => /\ s[Len(s)].start <= c.start
                     /\ s[Len(s)].clip = c.clip => s[Len(s)].end <= c.start
  PROVE  InOrder(Append(s, c))
<1> DEFINE t == Append(s, c)
<1>1. Len(t) = Len(s) + 1 /\ Len(s) \in Nat /\ t[Len(s) + 1] = c
  OBVIOUS
<1>2. \A i \in 1 .. Len(s) : t[i] = s[i]
  OBVIOUS
<1> HIDE DEF t
<1> SUFFICES ASSUME NEW i \in 1 .. Len(t)
             PROVE  /\ t[i].start <= t[i].end
                    /\ i < Len(t) =>
                         /\ t[i].start <= t[i + 1].start
                         /\ t[i].clip = t[i + 1].clip => t[i].end <= t[i + 1].start
  BY DEF InOrder, t
<1>3. CASE i = Len(t)
  BY <1>1, <1>3
<1>4. CASE i = Len(s)
  BY <1>1, <1>2, <1>4 DEF InOrder
<1>5. CASE i < Len(s)
  BY <1>1, <1>2, <1>5 DEF InOrder
<1> QED BY <1>1, <1>3, <1>4, <1>5

LEMMA PlaceInFilm == GroupInv /\ FilmInv /\ PlaceCue => FilmInv'
<1> SUFFICES ASSUME GroupInv, FilmInv, PlaceCue PROVE FilmInv'
  OBVIOUS
<1> DEFINE c == Clips[clip]
           h == Head(res)
           a == FilmAt(offset, c, h.start)
           b == FilmAt(offset, c, h.end)
           close == FilmAt(offset, c, c.t1)
           next == Tail(res)[1].start
           new == [start |-> a, end |-> b, clip |-> clip]
           n == Len(allcues)
<1>1. /\ phase = "placing" /\ phase' = "placing" /\ clip' = clip /\ offset' = offset
      /\ res # <<>> /\ res' = Tail(res)
      /\ allcues' = IF Kept(c, h) THEN Append(allcues, new) ELSE allcues
  BY DEF PlaceCue, FilmAt, Film
<1>2. /\ WellFormed(c) /\ h.start \in Nat /\ h.end \in Nat /\ h = res[1] /\ h.start <= h.end
      /\ Tail(res) # <<>> => next \in Nat /\ h.end <= next
      /\ clip \in 1 .. NClips
  BY <1>1, HeadOfRes
<1>3. /\ allcues \in Seq(Placed) /\ offset \in Nat /\ InOrder(allcues) /\ n \in Nat
      /\ \A i \in 1 .. n : /\ allcues[i] \in Placed /\ allcues[i].clip <= clip
                           /\ allcues[i].clip < clip => allcues[i].start <= offset
                           /\ allcues[i].clip = clip => offset <= allcues[i].start
                           /\ allcues[i].start <= close
  BY <1>1 DEF FilmInv
<1>4. \A x \in Placed : x.start \in Nat /\ x.end \in Nat /\ x.clip \in 1 .. NClips
  BY DEF Placed
<1>5. allcues # <<>> /\ allcues[n].clip = clip => allcues[n].end <= a
  BY <1>1, <1>2 DEF FilmInv
<1> HIDE DEF c, h, next
<1>6. a \in Int /\ b \in Int /\ a <= b
  <2>1. h.start \in Int /\ h.end \in Int
    BY <1>2
  <2> QED BY <1>2, <1>3, <2>1, FilmMonotone
<1>7. Tail(res) # <<>> => /\ FilmAt(offset, c, next) \in Int
                          /\ b <= FilmAt(offset, c, next)
  <2> SUFFICES ASSUME Tail(res) # <<>>
               PROVE  FilmAt(offset, c, next) \in Int /\ b <= FilmAt(offset, c, next)
    OBVIOUS
  <2>1. next \in Int /\ h.end \in Int /\ h.end <= next
    BY <1>2
  <2> QED BY <1>2, <1>3, <2>1, FilmMonotone
<1> HIDE DEF a, b, close
<1>8. CASE ~Kept(c, h)
  <2>1. allcues' = allcues
    BY <1>1, <1>8
  <2>2. ASSUME res' # <<>>, allcues # <<>>, allcues[n].clip = clip
        PROVE  allcues[n].end <= FilmAt(offset, c, next)
    <3>1. allcues[n] \in Placed /\ allcues[n].end \in Nat
      BY <1>3, <1>4, <2>2
    <3> QED BY <1>1, <1>5, <1>6, <1>7, <2>2, <3>1
  <2>3. Clips[clip'] = c /\ (res' # <<>> => res'[1].start = next)
    BY <1>1 DEF c, next
  <2>4. close = FilmAt(offset', Clips[clip'], Clips[clip'].t1)
    BY <1>1 DEF close, c
  <2> QED BY <1>1, <1>3, <2>1, <2>2, <2>3, <2>4 DEF FilmInv
<1>9. CASE Kept(c, h)
  <2>1. c.t0 \in Nat /\ c.t1 \in Nat /\ c.t0 <= h.start /\ h.start < c.t1
    BY <1>2, <1>9 DEF Kept, WellFormed, ClipType
  <2>2. a \in Nat /\ offset <= a
    BY <1>2, <1>3, <2>1, FilmStart DEF a
  <2>3. b \in Nat
    BY <1>6, <2>2
  <2>4. close \in Int /\ a <= close
    <3>1. h.start \in Int /\ c.t1 \in Int /\ h.start <= c.t1
      BY <1>2, <2>1
    <3> QED BY <1>2, <1>3, <3>1, FilmMonotone DEF a, close
  <2>5. new \in Placed /\ new.start = a /\ new.end = b /\ new.clip = clip
    BY <1>2, <2>2, <2>3 DEF Placed
  <2> HIDE DEF new
  <2>6. allcues # <<>> => /\ allcues[n].start <= new.start
                          /\ allcues[n].clip = new.clip => allcues[n].end <= new.start
    <3> SUFFICES ASSUME allcues # <<>>
                 PROVE  /\ allcues[n].start <= new.start
                        /\ allcues[n].clip = new.clip => allcues[n].end <= new.start
      OBVIOUS
    <3>1. n \in 1 .. n /\ allcues[n] \in Placed
      BY <1>3
    <3>2. allcues[n].start \in Nat /\ allcues[n].end \in Nat /\ allcues[n].clip \in Nat
      BY <1>4, <3>1
    <3>3. allcues[n].start <= allcues[n].end
      BY <1>3, <3>1 DEF InOrder
    <3>4. CASE allcues[n].clip = clip
      BY <1>5, <2>2, <2>5, <3>2, <3>3, <3>4
    <3>5. CASE allcues[n].clip # clip
      <4>1. allcues[n].clip <= clip
        BY <1>3, <3>1
      <4>2. allcues[n].clip < clip
        BY <1>2, <3>2, <3>5, <4>1
      <4>3. allcues[n].start <= offset
        BY <1>3, <3>1, <4>2
      <4> QED BY <1>3, <2>2, <2>5, <3>2, <3>5, <4>3
    <3> QED BY <3>4, <3>5
  <2>7. InOrder(allcues') /\ allcues' \in Seq(Placed)
    <3>1. new.start <= new.end
      BY <1>6, <2>5
    <3> QED BY <1>1, <1>3, <1>9, <2>5, <2>6, <3>1, AppendInOrder
  <2>8. /\ Len(allcues') = n + 1 /\ allcues'[n + 1] = new
        /\ \A i \in 1 .. n : allcues'[i] = allcues[i]
    BY <1>1, <1>3, <1>9, <2>5
  <2>9. ASSUME NEW i \in 1 .. Len(allcues')
        PROVE  /\ allcues'[i].clip <= clip
               /\ allcues'[i].clip < clip => allcues'[i].start <= offset
               /\ allcues'[i].clip = clip => offset <= allcues'[i].start
               /\ allcues'[i].start <= close
    <3>1. CASE i = n + 1
      BY <1>2, <2>2, <2>4, <2>5, <2>8, <3>1
    <3>2. CASE i # n + 1
      <4>1. i \in 1 .. n
        BY <1>3, <2>8, <3>2
      <4> QED BY <1>3, <2>8, <4>1
    <3> QED BY <3>1, <3>2
  <2>10. Clips[clip'] = c /\ (res' # <<>> => res'[1].start = next)
    BY <1>1 DEF c, next
  <2>11. close = FilmAt(offset', Clips[clip'], Clips[clip'].t1)
    BY <1>1 DEF close, c
  <2>12. res' # <<>> => allcues'[Len(allcues')].end <= FilmAt(offset, c, next)
    BY <1>1, <1>7, <2>5, <2>8
  <2> QED BY <1>1, <1>3, <2>7, <2>9, <2>10, <2>11, <2>12 DEF FilmInv
<1> QED BY <1>8, <1>9

LEMMA FilmNext == GroupInv /\ FilmInv /\ [Next]_vars => FilmInv'
<1> SUFFICES ASSUME GroupInv, FilmInv, [Next]_vars PROVE FilmInv'
  OBVIOUS
<1> USE DEF GoTo, FilmInv
<1>0. \A i \in 1 .. Len(allcues) : allcues[i] \in Placed
  OBVIOUS
<1>a. \A x \in Placed : x.start \in Nat /\ x.end \in Nat /\ x.clip \in Nat
  BY DEF Placed
<1>b. clip \in Nat /\ (phase \in Busy => clip \in 1 .. NClips)
  BY MontageAssumption DEF GroupInv, GroupType, LoopInv
<1>c. ASSUME phase \in Busy
      PROVE  offset + Duration(Clips[clip]) = FilmAt(offset, Clips[clip], Clips[clip].t1)
             /\ Duration(Clips[clip]) \in Nat
  BY <1>b, <1>c, ClipsWellFormed, DurationNat
<1>1. CASE PlaceCue
  BY <1>1, PlaceInFilm
<1>2. CASE NextClip
  <2>1. /\ phase = "next" /\ clip' = clip + 1 /\ phase' \in {"reading", "next"}
        /\ UNCHANGED <<allcues, offset>>
    BY <1>2 DEF NextClip, filmVars
  <2>2. \A i \in 1 .. Len(allcues) :
          allcues[i].clip < clip + 1 /\ allcues[i].clip <= clip + 1 /\ allcues[i].start <= offset
    BY <1>0, <1>a, <1>b, <2>1
  <2> QED BY <2>1, <2>2
<1>3. CASE ReadCue \/ EndOfSrt \/ Trim
  BY <1>3 DEF ReadCue, EndOfSrt, Trim, filmVars
<1>4. CASE Regrouped
  <2>1. /\ phase = "trimming" /\ phase' = "placing" /\ UNCHANGED <<allcues, offset, clip, res>>
    BY <1>4 DEF Regrouped, filmVars, clipVars
  <2>2. offset <= FilmAt(offset, Clips[clip], Clips[clip].t1)
        /\ FilmAt(offset, Clips[clip], Clips[clip].t1) \in Nat
    BY <1>c, <2>1 DEF Busy
  <2> DEFINE close == FilmAt(offset, Clips[clip], Clips[clip].t1)
  <2>3. close = FilmAt(offset', Clips[clip'], Clips[clip'].t1)
    BY <2>1
  <2> HIDE DEF close
  <2>4. \A i \in 1 .. Len(allcues) :
          /\ allcues[i].clip < clip /\ allcues[i].clip <= clip /\ allcues[i].clip # clip
          /\ allcues[i].start <= offset /\ allcues[i].start <= close
    BY <1>0, <1>a, <1>b, <2>1, <2>2 DEF close
  <2>5. allcues # <<>> => allcues[Len(allcues)].clip # clip
    <3> SUFFICES ASSUME allcues # <<>> PROVE allcues[Len(allcues)].clip # clip
      OBVIOUS
    <3>1. Len(allcues) \in 1 .. Len(allcues)
      OBVIOUS
    <3> QED BY <1>0, <1>a, <1>b, <2>4, <3>1
  <2> QED BY <2>1, <2>3, <2>4, <2>5
<1>5. CASE Render
  <2>1. /\ phase = "placing" /\ phase' = "next" /\ UNCHANGED <<allcues, clip>>
        /\ offset' = offset + Duration(Clips[clip])
    BY <1>5 DEF Render, clipVars
  <2>2. offset' \in Nat /\ offset' = FilmAt(offset, Clips[clip], Clips[clip].t1)
    BY <1>c, <2>1 DEF Busy
  <2>3. \A i \in 1 .. Len(allcues) : allcues[i].clip <= clip /\ allcues[i].start <= offset'
    BY <2>1, <2>2
  <2> QED BY <2>1, <2>2, <2>3
<1>6. CASE RenderFails
  BY <1>6 DEF RenderFails, filmVars
<1>7. CASE LastClip \/ Concat \/ WriteSrt \/ Written
  <2>1. /\ phase \notin {"placing", "aborted", "reading", "trimming"}
        /\ phase' \notin {"placing", "aborted", "reading", "trimming"}
        /\ UNCHANGED <<allcues, offset, clip>>
    BY <1>7 DEF LastClip, Concat, WriteSrt, Written, filmVars
  <2> QED BY <2>1
<1>8. CASE UNCHANGED vars
  BY <1>8 DEF vars, filmVars, clipVars
<1> QED BY <1>1, <1>2, <1>3, <1>4, <1>5, <1>6, <1>7, <1>8 DEF Next

\* The subtitles of the whole film are in order, each starts in its own clip, and those of
\* a clip do not overlap, whatever is cut out of a clip and at whatever speed it is shown.
THEOREM FilmIsInOrder == Spec => []FinalOrder
<1>1. Init => FilmInv
  <2> SUFFICES ASSUME Init PROVE FilmInv
    OBVIOUS
  <2>1. allcues = <<>> /\ offset = 0 /\ phase = "next"
    BY DEF Init
  <2> QED BY <2>1 DEF FilmInv, InOrder
<1>2. FilmInv /\ GroupInv => FinalOrder
  <2> SUFFICES ASSUME FilmInv, GroupInv, phase \in {"reading", "trimming", "placing"},
                      NEW i \in 1 .. Len(allcues)
               PROVE  IF allcues[i].clip = clip THEN offset <= allcues[i].start
                                                ELSE allcues[i].start <= offset
    BY DEF FilmInv, FinalOrder, InOrder
  <2>1. allcues[i].clip \in Nat /\ clip \in Nat /\ allcues[i].clip <= clip
    <3>1. allcues[i] \in Placed /\ allcues[i].clip <= clip
      BY DEF FilmInv
    <3>2. \A x \in Placed : x.clip \in Nat
      BY DEF Placed
    <3>3. clip \in Nat
      BY MontageAssumption DEF GroupInv, GroupType
    <3> QED BY <3>1, <3>2, <3>3
  <2>2. CASE allcues[i].clip = clip
    BY <2>1, <2>2 DEF FilmInv
  <2>3. CASE allcues[i].clip < clip
    BY <2>1, <2>3 DEF FilmInv
  <2> QED BY <2>1, <2>2, <2>3
<1> QED BY <1>1, <1>2, FilmNext, GroupInit, GroupNext, PTL DEF Spec

----------------------------------------------------------------------------
(* What is written. *)

LEMMA Quotient ==
  ASSUME NEW t \in Nat, NEW p \in Nat \ {0}
  PROVE  /\ t \div p \in Nat /\ t % p \in 0 .. p - 1
         /\ t = p * (t \div p) + (t % p)
  OBVIOUS

LEMMA MillisExact ==
  ASSUME NEW t \in Nat
  PROVE  /\ Millis(t) \in 0 .. 1000
         /\ 2 * PerSecond * Millis(t) - 2000 * (t % PerSecond) \in -PerSecond .. PerSecond
<1> DEFINE p == PerSecond
           r == t % p
           x == 2000 * r + p
           m == x \div (2 * p)
           y == x % (2 * p)
<1>1. p \in Nat \ {0}
  BY MontageAssumption
<1>2. r \in 0 .. p - 1
  BY <1>1, Quotient
<1> HIDE DEF p, r
<1>3. x \in Nat /\ 2 * p \in Nat \ {0}
  BY <1>1, <1>2
<1> HIDE DEF x
<1>4. m \in Nat /\ y \in 0 .. 2 * p - 1 /\ x = (2 * p) * m + y
  BY <1>3, Quotient
<1> HIDE DEF m, y
<1> DEFINE z == p * m
<1>5. z \in Nat /\ (2 * p) * m = 2 * z
  BY <1>1, <1>4
<1>6. m >= 1001 => z >= 1001 * p
  BY <1>1, <1>4
<1> HIDE DEF z
<1>7. 2000 * r + p = 2 * z + y
  BY <1>4, <1>5 DEF x
<1>8. z < 1001 * p
  BY <1>1, <1>2, <1>4, <1>5, <1>7
<1>9. m < 1001
  BY <1>1, <1>4, <1>5, <1>6, <1>8
<1>10. 2 * z - 2000 * r \in -p .. p
  BY <1>1, <1>2, <1>4, <1>5, <1>7
<1>11. Millis(t) = m /\ r = t % PerSecond /\ p = PerSecond
  BY DEF Millis, m, x, r, p
<1> QED BY <1>1, <1>4, <1>5, <1>9, <1>10, <1>11

Exact(stamp, t) ==
  LET off == (1000 * (3600 * stamp[1] + 60 * stamp[2] + stamp[3]) + stamp[4]) * PerSecond
               - 1000 * t
  IN /\ stamp[2] < 60 /\ stamp[3] < 60 /\ stamp[4] <= 1000
     /\ 2 * off <= PerSecond /\ 2 * off >= -PerSecond

\* s seconds and m milliseconds are t, up to half a millisecond.
Near(s, m, t) == 2 * PerSecond * m - 2000 * (t - PerSecond * s) \in -PerSecond .. PerSecond

LEMMA StampExact ==
  ASSUME NEW t \in Nat, NEW s \in Nat, NEW m \in 0 .. 1000, Near(s, m, t)
  PROVE  Exact(Stamp(s, m), t) /\ Stamp(s, m) \in Seq(Nat)
<1> DEFINE p == PerSecond
           r == t - p * s
           a == s \div 3600
           b == (s % 3600) \div 60
           c == s % 60
           off == (1000 * s + m) * p - 1000 * t
<1>1. p \in Nat \ {0}
  BY MontageAssumption
<1>2. p * s \in Nat /\ p * m \in Nat /\ 2 * p * m = 2 * (p * m)
  BY <1>1
<1>3. off = p * m - 1000 * r
  BY <1>1, <1>2
<1>4. r \in Int /\ 2 * (p * m) - 2000 * r \in -p .. p
  BY <1>1, <1>2 DEF Near
<1>5. a \in Nat /\ b \in 0 .. 59 /\ c \in 0 .. 59 /\ 3600 * a + 60 * b + c = s
  OBVIOUS
<1>6. Stamp(s, m) = << a, b, c, m >>
  BY DEF Stamp
<1> HIDE DEF a, b, c, off, r
<1>7. 2 * off <= p /\ 2 * off >= -p
  BY <1>1, <1>2, <1>3, <1>4
<1>8. /\ Stamp(s, m)[1] = a /\ Stamp(s, m)[2] = b /\ Stamp(s, m)[3] = c /\ Stamp(s, m)[4] = m
      /\ Stamp(s, m) \in Seq(Nat)
  BY <1>5, <1>6
<1>9. (1000 * (3600 * Stamp(s, m)[1] + 60 * Stamp(s, m)[2] + Stamp(s, m)[3]) + Stamp(s, m)[4])
        * PerSecond - 1000 * t = off
  BY <1>5, <1>8 DEF off
<1>10. Stamp(s, m)[2] < 60 /\ Stamp(s, m)[3] < 60 /\ Stamp(s, m)[4] <= 1000
  BY <1>5, <1>8
<1> QED BY <1>7, <1>8, <1>9, <1>10 DEF Exact

LEMMA StampsOf ==
  ASSUME NEW t \in Nat, NEW stamp \in Stamps(t)
  PROVE  Exact(stamp, t) /\ stamp \in Seq(Nat)
<1> DEFINE p == PerSecond
           s == t \div p
           r == t % p
<1>1. p \in Nat \ {0}
  BY MontageAssumption
<1>2. s \in Nat /\ r \in 0 .. p - 1 /\ t = p * s + r
  BY <1>1, Quotient
<1>3. p * s \in Nat /\ t - p * s = r
  BY <1>1, <1>2
<1>4. CASE stamp = Stamp(s, Millis(t))
  <2>1. Millis(t) \in 0 .. 1000 /\ 2 * p * Millis(t) - 2000 * r \in -p .. p
    BY MillisExact
  <2> HIDE DEF s, r
  <2> DEFINE m == Millis(t)
  <2>2. Near(s, m, t) /\ m \in 0 .. 1000 /\ stamp = Stamp(s, m) /\ s \in Nat
    BY <1>2, <1>3, <1>4, <2>1 DEF Near
  <2> HIDE DEF m
  <2>3. Exact(Stamp(s, m), t) /\ Stamp(s, m) \in Seq(Nat)
    BY <2>2, StampExact
  <2> QED BY <2>2, <2>3
<1>5. CASE s > 0 /\ r = 0 /\ stamp = Stamp(s - 1, 1000)
  <2> HIDE DEF s, r
  <2>1. s - 1 \in Nat /\ p * (s - 1) = p * s - p
    BY <1>1, <1>2, <1>5
  <2>2. t - p * (s - 1) = p
    BY <1>1, <1>2, <1>3, <1>5, <2>1
  <2>3. 2 * p * 1000 - 2000 * (t - p * (s - 1)) = 0
    BY <1>1, <2>2
  <2> DEFINE u == s - 1
  <2>4. Near(u, 1000, t) /\ 1000 \in 0 .. 1000
    BY <1>1, <2>3 DEF Near
  <2>5. u \in Nat /\ stamp = Stamp(u, 1000)
    BY <1>5, <2>1
  <2> HIDE DEF u
  <2> QED BY <2>4, <2>5, StampExact
<1> QED BY <1>4, <1>5 DEF Stamps

SrtInv ==
  /\ srt \in Seq(Seq(Seq(Nat)))
  /\ phase \notin {"writing", "done"} => srt = <<>>
  /\ \A i \in 1 .. Len(srt) :
       /\ i <= Len(allcues)
       /\ srt[i][1] \in Stamps(allcues[i].start) /\ srt[i][2] \in Stamps(allcues[i].end)

LEMMA SrtNext == FilmInv /\ SrtInv /\ [Next]_vars => SrtInv'
<1> SUFFICES ASSUME FilmInv, SrtInv, [Next]_vars PROVE SrtInv'
  OBVIOUS
<1> USE DEF GoTo, SrtInv
<1>1. CASE WriteSrt
  <2> DEFINE n == Len(srt) + 1
  <2>1. phase = "writing" /\ UNCHANGED <<phase, allcues>> /\ Len(srt) < Len(allcues)
    BY <1>1 DEF WriteSrt
  <2>2. PICK x \in Stamps(allcues[n].start), y \in Stamps(allcues[n].end) :
          srt' = Append(srt, << x, y >>)
    BY <1>1 DEF WriteSrt
  <2>3. n \in 1 .. Len(allcues) /\ allcues[n] \in Placed
    BY <2>1 DEF FilmInv
  <2>4. allcues[n].start \in Nat /\ allcues[n].end \in Nat
    BY <2>3 DEF Placed
  <2>5. x \in Seq(Nat) /\ y \in Seq(Nat)
    BY <2>2, <2>4, StampsOf
  <2>6. << x, y >> \in Seq(Seq(Nat)) /\ << x, y >>[1] = x /\ << x, y >>[2] = y
    BY <2>5
  <2>7. /\ srt' \in Seq(Seq(Seq(Nat))) /\ Len(srt') = n /\ srt'[n] = << x, y >>
        /\ \A i \in 1 .. Len(srt) : srt'[i] = srt[i]
    BY <2>2, <2>6
  <2>8. ASSUME NEW i \in 1 .. Len(srt')
        PROVE  /\ i <= Len(allcues)
               /\ srt'[i][1] \in Stamps(allcues[i].start)
               /\ srt'[i][2] \in Stamps(allcues[i].end)
    <3>1. CASE i = n
      BY <2>2, <2>3, <2>6, <2>7, <3>1
    <3>2. CASE i # n
      <4>1. i \in 1 .. Len(srt) /\ Len(allcues) \in Nat
        BY <2>3, <2>7, <3>2
      <4> QED BY <2>7, <4>1
    <3> QED BY <3>1, <3>2
  <2> QED BY <2>1, <2>7, <2>8
<1>2. CASE PlaceCue
  BY <1>2 DEF PlaceCue
<1>3. CASE ReadCue \/ EndOfSrt \/ Trim \/ Regrouped \/ NextClip \/ RenderFails
  BY <1>3 DEF ReadCue, EndOfSrt, Trim, Regrouped, NextClip, RenderFails, filmVars
<1>4. CASE Render
  BY <1>4 DEF Render
<1>5. CASE LastClip \/ Concat \/ Written
  BY <1>5 DEF LastClip, Concat, Written, filmVars
<1>6. CASE UNCHANGED vars
  BY <1>6 DEF vars, filmVars
<1> QED BY <1>1, <1>2, <1>3, <1>4, <1>5, <1>6 DEF Next

LEMMA InitOK == Init => GroupInv /\ FilmInv /\ SrtInv /\ AssInv
<1> SUFFICES ASSUME Init PROVE GroupInv /\ FilmInv /\ SrtInv /\ AssInv
  OBVIOUS
<1>1. /\ allcues = <<>> /\ offset = 0 /\ phase = "next" /\ srt = <<>>
      /\ ass = <<>>
  BY DEF Init
<1>2. FilmInv
  BY <1>1 DEF FilmInv, InOrder
<1>3. SrtInv /\ AssInv
  BY <1>1 DEF SrtInv, AssInv, CardClear
<1> QED BY <1>2, <1>3, GroupInit

\* The stamps written to the file are the nearest milliseconds, and none has 60 minutes or
\* 60 seconds, for any time of any film, whichever way a whole second is read.
THEOREM StampsAreExact == Spec => []StampsExact
<1>1. FilmInv /\ SrtInv => StampsExact
  <2> SUFFICES ASSUME FilmInv, SrtInv, NEW i \in 1 .. Len(srt), NEW k \in {1, 2}
               PROVE  Exact(srt[i][k], << allcues[i].start, allcues[i].end >>[k])
    BY DEF StampsExact, Exact
  <2>1. i \in 1 .. Len(allcues) /\ allcues[i] \in Placed
    BY DEF FilmInv, SrtInv
  <2>2. allcues[i].start \in Nat /\ allcues[i].end \in Nat
    BY <2>1 DEF Placed
  <2>3. srt[i][1] \in Stamps(allcues[i].start) /\ srt[i][2] \in Stamps(allcues[i].end)
    BY DEF SrtInv
  <2>4. CASE k = 1
    BY <2>2, <2>3, <2>4, StampsOf
  <2>5. CASE k = 2
    BY <2>2, <2>3, <2>5, StampsOf
  <2> QED BY <2>4, <2>5
<1> QED BY <1>1, InitOK, SrtNext, FilmNext, GroupNext, PTL DEF Spec

LEMMA ArgumentsKept ==
  (solo \in BOOLEAN /\ wanted \subseteq 1 .. NClips) /\ [Next]_vars
    => (solo \in BOOLEAN /\ wanted \subseteq 1 .. NClips)'
BY DEF Next, vars, arguments, ReadCue, EndOfSrt, Trim, Regrouped, PlaceCue, Render, RenderFails,
       NextClip, LastClip, Concat, WriteSrt, Written

\* No time of a cue, a dialogue or the film is ever negative.
THEOREM TypesKept == Spec => []TypeOK
<1> DEFINE Arguments == solo \in BOOLEAN /\ wanted \subseteq 1 .. NClips
<1>1. Init => Arguments
  BY DEF Init
<1>2. Arguments /\ [Next]_vars => Arguments'
  BY ArgumentsKept
<1>3. GroupInv /\ FilmInv /\ SrtInv /\ AssInv /\ Arguments => TypeOK
  BY DEF GroupInv, GroupType, FilmInv, SrtInv, AssInv, Shown, TypeOK
<1> HIDE DEF Arguments
<1> QED BY <1>1, <1>2, <1>3, InitOK, GroupNext, FilmNext, SrtNext, AssNext, PTL
        DEF Spec

----------------------------------------------------------------------------
(* The texts of a clip, in the two loops of regroup. *)

\* The groups s hold the texts of the cues w: each group a range of cues, one after the
\* other, no cue with a text outside them, and nothing in a blank one.
Holds(s, w) ==
  /\ \A i \in 1 .. Len(s) :
       /\ 1 <= s[i].from /\ s[i].from <= s[i].to /\ s[i].to <= Len(w)
       /\ s[i].blank => \A k \in s[i].from .. s[i].to : ~w[k]
  /\ \A i, j \in 1 .. Len(s) : i < j => s[i].to < s[j].from
  /\ \A k \in 1 .. Len(w) : w[k] => \E i \in 1 .. Len(s) : s[i].from <= k /\ k <= s[i].to

TextInv == phase \in {"reading", "trimming"} => Holds(Groups, words)

LEMMA RangeOfCue ==
  ASSUME NEW c \in Cue
  PROVE  c.from \in Nat /\ c.to \in Nat /\ c.blank \in BOOLEAN
BY DEF Cue

\* A sequence and what is appended to it.
LEMMA Appended ==
  ASSUME NEW S, NEW s \in Seq(S), NEW x \in S
  PROVE  /\ Append(s, x) \in Seq(S) /\ Len(s) \in Nat /\ Len(Append(s, x)) = Len(s) + 1
         /\ Append(s, x)[Len(s) + 1] = x
         /\ \A i \in 1 .. Len(s) : Append(s, x)[i] = s[i] /\ s[i] \in S /\ i # Len(s) + 1
         /\ \A i \in 1 .. Len(Append(s, x)) : i \in 1 .. Len(s) \/ i = Len(s) + 1
<1>1. /\ Append(s, x) \in Seq(S) /\ Len(Append(s, x)) = Len(s) + 1
      /\ Append(s, x)[Len(s) + 1] = x
      /\ \A i \in 1 .. Len(s) : Append(s, x)[i] = s[i]
  BY AppendProperties
<1>2. Len(s) \in Nat /\ \A i \in 1 .. Len(s) : s[i] \in S
  BY LenProperties
<1> QED BY <1>1, <1>2

\* One more cue has been read; g is the group it begins, or joins at the end of s.
LEMMA HoldsAppend ==
  ASSUME NEW s \in Seq(Cue), NEW w \in Seq(BOOLEAN), NEW b \in BOOLEAN, NEW g \in Cue,
         \A i \in 1 .. Len(s) :
           /\ 1 <= s[i].from /\ s[i].from <= s[i].to /\ s[i].to <= Len(w)
           /\ s[i].blank => \A k \in s[i].from .. s[i].to : ~w[k],
         \A i, j \in 1 .. Len(s) : i < j => s[i].to < s[j].from,
         \A k \in 1 .. Len(w) : w[k] => \/ \E i \in 1 .. Len(s) : s[i].from <= k /\ k <= s[i].to
                                        \/ g.from <= k,
         1 <= g.from, g.from <= Len(w) + 1, g.to = Len(w) + 1,
         \A i \in 1 .. Len(s) : s[i].to < g.from,
         g.blank => b /\ \A k \in g.from .. Len(w) : ~w[k]
  PROVE  Holds(Append(s, g), Append(w, ~b))
<1> DEFINE t == Append(s, g)
           v == Append(w, ~b)
<1>1. /\ Len(s) \in Nat /\ Len(t) = Len(s) + 1 /\ t[Len(s) + 1] = g
      /\ \A i \in 1 .. Len(s) : t[i] = s[i] /\ s[i] \in Cue /\ i # Len(s) + 1
      /\ \A i \in 1 .. Len(t) : i \in 1 .. Len(s) \/ i = Len(s) + 1
  BY Appended
<1>2. /\ Len(w) \in Nat /\ Len(v) = Len(w) + 1 /\ v[Len(w) + 1] = ~b
      /\ \A k \in 1 .. Len(w) : v[k] = w[k]
      /\ \A k \in 1 .. Len(v) : k \in 1 .. Len(w) \/ k = Len(w) + 1
  <2>1. CASE b = TRUE
    BY <2>1, Appended
  <2>2. CASE b = FALSE
    BY <2>2, Appended
  <2> QED BY <2>1, <2>2
<1> HIDE DEF t, v
<1>3. g.from \in Nat /\ g.to \in Nat /\ \A i \in 1 .. Len(s) : s[i].from \in Nat /\ s[i].to \in Nat
  BY <1>1, RangeOfCue
<1>4. ASSUME NEW i \in 1 .. Len(t)
      PROVE  /\ 1 <= t[i].from /\ t[i].from <= t[i].to /\ t[i].to <= Len(v)
             /\ t[i].blank => \A k \in t[i].from .. t[i].to : ~v[k]
  <2>1. CASE i \in 1 .. Len(s)
    <3>1. t[i] = s[i] /\ 1 <= s[i].from /\ s[i].from <= s[i].to /\ s[i].to <= Len(w)
      BY <1>1, <2>1
    <3>2. \A k \in s[i].from .. s[i].to : k \in 1 .. Len(w)
      BY <1>2, <1>3, <2>1, <3>1
    <3>3. s[i].to <= Len(v)
      BY <1>2, <1>3, <2>1, <3>1
    <3> QED BY <1>2, <2>1, <3>1, <3>2, <3>3
  <2>2. CASE i = Len(s) + 1
    <3>1. t[i] = g /\ g.to = Len(v)
      BY <1>1, <1>2, <2>2
    <3>2. ASSUME g.blank, NEW k \in g.from .. g.to PROVE ~v[k]
      <4>1. \/ k \in g.from .. Len(w) /\ k \in 1 .. Len(w)
            \/ k = Len(w) + 1
        BY <1>2, <1>3
      <4>2. b /\ \A l \in g.from .. Len(w) : ~w[l]
        BY <3>2
      <4> QED BY <1>2, <4>1, <4>2
    <3>3. 1 <= g.from /\ g.from <= g.to
      BY <1>2, <1>3
    <3> QED BY <1>2, <3>1, <3>2, <3>3
  <2> QED BY <1>1, <2>1, <2>2
<1>5. ASSUME NEW i \in 1 .. Len(t), NEW j \in 1 .. Len(t), i < j PROVE t[i].to < t[j].from
  <2>1. i \in 1 .. Len(s)
    BY <1>1, <1>5
  <2>2. CASE j \in 1 .. Len(s)
    BY <1>1, <1>5, <2>1, <2>2
  <2>3. CASE j = Len(s) + 1
    BY <1>1, <2>1, <2>3
  <2> QED BY <1>1, <2>2, <2>3
<1>6. ASSUME NEW k \in 1 .. Len(v), v[k] PROVE \E i \in 1 .. Len(t) : t[i].from <= k /\ k <= t[i].to
  <2>1. Len(s) + 1 \in 1 .. Len(t) /\ \A i \in 1 .. Len(s) : i \in 1 .. Len(t)
    BY <1>1
  <2>2. k <= g.to
    BY <1>2
  <2>3. CASE g.from <= k
    BY <1>1, <2>1, <2>2, <2>3
  <2>4. CASE k \in 1 .. Len(w) /\ ~(g.from <= k)
    <3>1. w[k]
      BY <1>2, <1>6, <2>4
    <3>2. PICK i \in 1 .. Len(s) : s[i].from <= k /\ k <= s[i].to
      BY <2>4, <3>1
    <3> QED BY <1>1, <2>1, <3>2
  <2> QED BY <1>2, <2>3, <2>4
<1> QED BY <1>4, <1>5, <1>6 DEF Holds, t, v

\* What is known of the groups before the last one, and of the last one.
LEMMA HoldsBefore ==
  ASSUME NEW s \in Seq(Cue), NEW w \in Seq(BOOLEAN), NEW c \in Cue, Holds(Append(s, c), w)
  PROVE  /\ \A i \in 1 .. Len(s) :
              /\ 1 <= s[i].from /\ s[i].from <= s[i].to /\ s[i].to <= Len(w)
              /\ s[i].blank => \A k \in s[i].from .. s[i].to : ~w[k]
         /\ \A i, j \in 1 .. Len(s) : i < j => s[i].to < s[j].from
         /\ \A k \in 1 .. Len(w) : w[k] => \/ \E i \in 1 .. Len(s) : s[i].from <= k /\ k <= s[i].to
                                           \/ c.from <= k /\ k <= c.to
         /\ 1 <= c.from /\ c.from <= c.to /\ c.to <= Len(w)
         /\ \A i \in 1 .. Len(s) : s[i].to < c.from
         /\ c.blank => \A k \in c.from .. c.to : ~w[k]
<1> DEFINE t == Append(s, c)
<1>1. /\ Len(s) \in Nat /\ Len(t) = Len(s) + 1 /\ t[Len(s) + 1] = c
      /\ \A i \in 1 .. Len(s) : t[i] = s[i]
      /\ \A i \in 1 .. Len(t) : i \in 1 .. Len(s) \/ i = Len(s) + 1
  BY Appended
<1>2. /\ \A i \in 1 .. Len(t) :
           /\ 1 <= t[i].from /\ t[i].from <= t[i].to /\ t[i].to <= Len(w)
           /\ t[i].blank => \A k \in t[i].from .. t[i].to : ~w[k]
      /\ \A i, j \in 1 .. Len(t) : i < j => t[i].to < t[j].from
      /\ \A k \in 1 .. Len(w) : w[k] => \E i \in 1 .. Len(t) : t[i].from <= k /\ k <= t[i].to
  BY DEF Holds
<1> HIDE DEF t
<1>3. Len(s) + 1 \in 1 .. Len(t) /\ \A i \in 1 .. Len(s) : i \in 1 .. Len(t) /\ i < Len(s) + 1
  BY <1>1
<1>4. \A i \in 1 .. Len(s) :
        /\ 1 <= s[i].from /\ s[i].from <= s[i].to /\ s[i].to <= Len(w)
        /\ s[i].blank => \A k \in s[i].from .. s[i].to : ~w[k]
        /\ s[i].to < c.from
  BY <1>1, <1>2, <1>3
<1>5. \A i, j \in 1 .. Len(s) : i < j => s[i].to < s[j].from
  BY <1>1, <1>2, <1>3
<1>6. /\ 1 <= c.from /\ c.from <= c.to /\ c.to <= Len(w)
      /\ c.blank => \A k \in c.from .. c.to : ~w[k]
  BY <1>1, <1>2, <1>3
<1>7. \A k \in 1 .. Len(w) : w[k] => \/ \E i \in 1 .. Len(s) : s[i].from <= k /\ k <= s[i].to
                                     \/ c.from <= k /\ k <= c.to
  BY <1>1, <1>2
<1> QED BY <1>4, <1>5, <1>6, <1>7

\* A cue that begins a group.
LEMMA HoldsNewGroup ==
  ASSUME NEW s \in Seq(Cue), NEW w \in Seq(BOOLEAN), NEW b \in BOOLEAN, NEW g \in Cue,
         Holds(s, w), g.from = Len(w) + 1, g.to = Len(w) + 1, g.blank = b
  PROVE  Holds(Append(s, g), Append(w, ~b))
<1>1. /\ \A i \in 1 .. Len(s) :
           /\ 1 <= s[i].from /\ s[i].from <= s[i].to /\ s[i].to <= Len(w)
           /\ s[i].blank => \A k \in s[i].from .. s[i].to : ~w[k]
      /\ \A i, j \in 1 .. Len(s) : i < j => s[i].to < s[j].from
      /\ \A k \in 1 .. Len(w) : w[k] => \E i \in 1 .. Len(s) : s[i].from <= k /\ k <= s[i].to
  BY DEF Holds
<1>2. Len(w) \in Nat
  BY LenProperties
<1>3. 1 <= g.from /\ g.from <= Len(w) + 1
  BY <1>2
<1>4. \A i \in 1 .. Len(s) : s[i].to < g.from
  <2>1. \A i \in 1 .. Len(s) : s[i].to \in Nat
    BY LenProperties, RangeOfCue
  <2> QED BY <1>1, <1>2, <2>1
<1>5. g.blank => b /\ \A k \in g.from .. Len(w) : ~w[k]
  BY <1>2
<1> QED BY <1>1, <1>3, <1>4, <1>5, HoldsAppend

\* A cue that joins the last group.
LEMMA HoldsJoined ==
  ASSUME NEW s \in Seq(Cue), NEW w \in Seq(BOOLEAN), NEW b \in BOOLEAN, NEW c \in Cue, NEW g \in Cue,
         Holds(Append(s, c), w), g.from = c.from, g.to = Len(w) + 1, g.blank => c.blank /\ b
  PROVE  Holds(Append(s, g), Append(w, ~b))
<1>1. /\ \A i \in 1 .. Len(s) :
           /\ 1 <= s[i].from /\ s[i].from <= s[i].to /\ s[i].to <= Len(w)
           /\ s[i].blank => \A k \in s[i].from .. s[i].to : ~w[k]
      /\ \A i, j \in 1 .. Len(s) : i < j => s[i].to < s[j].from
      /\ \A k \in 1 .. Len(w) : w[k] => \/ \E i \in 1 .. Len(s) : s[i].from <= k /\ k <= s[i].to
                                        \/ c.from <= k /\ k <= c.to
      /\ 1 <= c.from /\ c.from <= c.to /\ c.to <= Len(w)
      /\ \A i \in 1 .. Len(s) : s[i].to < c.from
      /\ c.blank => \A k \in c.from .. c.to : ~w[k]
  BY HoldsBefore
<1>2. Len(w) \in Nat /\ c.from \in Nat /\ c.to \in Nat
  BY LenProperties, RangeOfCue
<1>3. 1 <= g.from /\ g.from <= Len(w) + 1
  BY <1>1, <1>2
<1>4. \A k \in 1 .. Len(w) : w[k] => \/ \E i \in 1 .. Len(s) : s[i].from <= k /\ k <= s[i].to
                                     \/ g.from <= k
  BY <1>1
<1>5. g.blank => b /\ \A k \in g.from .. Len(w) : ~w[k]
  <2> SUFFICES ASSUME g.blank, NEW k \in g.from .. Len(w) PROVE ~w[k]
    OBVIOUS
  <2>1. k \in 1 .. Len(w)
    BY <1>1, <1>2
  <2>2. CASE k <= c.to
    BY <1>1, <1>2, <2>2
  <2>3. CASE ~(k <= c.to)
    <3>1. ~\E i \in 1 .. Len(s) : s[i].from <= k /\ k <= s[i].to
      <4>1. ASSUME NEW i \in 1 .. Len(s) PROVE ~(k <= s[i].to)
        <5>1. s[i].to \in Nat
          BY LenProperties, RangeOfCue
        <5> QED BY <1>1, <1>2, <2>3, <5>1
      <4> QED BY <4>1
    <3> QED BY <1>1, <2>1, <2>3, <3>1
  <2> QED BY <2>2, <2>3
<1> QED BY <1>1, <1>3, <1>4, <1>5, HoldsAppend

\* Only the ranges count.
LEMMA HoldsSame ==
  ASSUME NEW s, NEW t, NEW w, Holds(s, w), Len(t) = Len(s),
         \A i \in 1 .. Len(s) :
           t[i].from = s[i].from /\ t[i].to = s[i].to /\ t[i].blank = s[i].blank
  PROVE  Holds(t, w)
BY DEF Holds

\* Stretching and trimming change no text.
LEMMA RangesKept ==
  ASSUME NEW s \in Seq(Cue), NEW a \in Nat, NEW c \in Cue
  PROVE  /\ \A i \in 1 .. Len(s) :
              /\ Trimmed(s, a)[i].from = s[i].from /\ Trimmed(s, a)[i].to = s[i].to
              /\ Trimmed(s, a)[i].blank = s[i].blank
         /\ Stretched(c).from = c.from /\ Stretched(c).to = c.to /\ Stretched(c).blank = c.blank
<1>1. \A e : \A d \in Cue : LET x == [d EXCEPT !.end = e]
                            IN x.from = d.from /\ x.to = d.to /\ x.blank = d.blank
  BY DEF Cue
<1>2. Len(s) \in Nat /\ \A i \in 1 .. Len(s) : s[i] \in Cue
  BY LenProperties
<1>3. CASE s # <<>> /\ a < s[Len(s)].end
  <2> DEFINE n == Len(s)
             x == [s[n] EXCEPT !.end = a]
  <2>1. Trimmed(s, a) = [s EXCEPT ![n] = x]
    BY <1>3 DEF Trimmed
  <2>2. n \in 1 .. Len(s)
    BY <1>2, <1>3, EmptySeq
  <2>3. x.from = s[n].from /\ x.to = s[n].to /\ x.blank = s[n].blank
    BY <1>1, <1>2, <2>2
  <2> HIDE DEF x, n
  <2>4. \A i \in 1 .. Len(s) : Trimmed(s, a)[i] = IF i = n THEN x ELSE s[i]
    BY <2>1
  <2>5. Stretched(c).from = c.from /\ Stretched(c).to = c.to /\ Stretched(c).blank = c.blank
    BY <1>1 DEF Stretched
  <2> QED BY <2>3, <2>4, <2>5
<1>4. CASE ~(s # <<>> /\ a < s[Len(s)].end)
  <2>1. Trimmed(s, a) = s
    BY <1>4 DEF Trimmed
  <2>2. Stretched(c).from = c.from /\ Stretched(c).to = c.to /\ Stretched(c).blank = c.blank
    BY <1>1 DEF Stretched
  <2> QED BY <2>1, <2>2
<1> QED BY <1>3, <1>4

\* Two lists of groups, the second taken apart at its first.
LEMMA TakenApart ==
  ASSUME NEW r \in Seq(Cue), NEW o \in Seq(Cue), o # <<>>
  PROVE  LET s == r \o o
             u == r \o Tail(o)
             m == Len(r)
         IN /\ m \in Nat /\ Len(u) \in Nat /\ Len(s) = Len(u) + 1 /\ m <= Len(u)
            /\ s \in Seq(Cue) /\ s[m + 1] = Head(o)
            /\ \A i \in 1 .. m : s[i] = r[i] /\ u[i] = r[i]
            /\ \A i \in m + 1 .. Len(u) : u[i] = s[i + 1] /\ Tail(o)[i - m] = s[i + 1]
<1> DEFINE s == r \o o
           u == r \o Tail(o)
           m == Len(r)
           l == Len(o)
<1>1. m \in Nat /\ l \in Nat \ {0} /\ s \in Seq(Cue) /\ Head(o) = o[1]
  BY LenProperties, EmptySeq, ConcatProperties
<1>2. Tail(o) \in Seq(Cue) /\ Len(Tail(o)) = l - 1 /\ \A i \in 1 .. l - 1 : Tail(o)[i] = o[i + 1]
  BY HeadTailProperties
<1>3. Len(s) = m + l /\ \A i \in 1 .. m + l : s[i] = IF i <= m THEN r[i] ELSE o[i - m]
  BY ConcatProperties
<1>4. Len(u) = m + Len(Tail(o))
      /\ \A i \in 1 .. m + Len(Tail(o)) : u[i] = IF i <= m THEN r[i] ELSE Tail(o)[i - m]
  BY <1>2, ConcatProperties
<1> HIDE DEF s, u, m, l
<1>5. Len(u) = m + (l - 1) /\ \A i \in 1 .. m + (l - 1) : u[i] = IF i <= m THEN r[i] ELSE Tail(o)[i - m]
  BY <1>2, <1>4
<1>6. ASSUME NEW i \in 1 .. m PROVE s[i] = r[i] /\ u[i] = r[i]
  BY <1>1, <1>3, <1>5
<1>7. ASSUME NEW i \in m + 1 .. Len(u) PROVE u[i] = s[i + 1] /\ Tail(o)[i - m] = s[i + 1]
  <2>1. i - m \in 1 .. l - 1 /\ (i - m) + 1 = (i + 1) - m /\ i + 1 \in 1 .. m + l /\ ~(i + 1 <= m)
        /\ ~(i <= m) /\ i \in 1 .. m + (l - 1)
    BY <1>1, <1>5
  <2>2. s[i + 1] = o[(i + 1) - m]
    BY <1>3, <2>1
  <2>3. Tail(o)[i - m] = o[(i - m) + 1]
    BY <1>2, <2>1
  <2>4. u[i] = Tail(o)[i - m]
    BY <1>5, <2>1
  <2> QED BY <2>1, <2>2, <2>3, <2>4
<1>8. s[m + 1] = Head(o)
  <2>1. m + 1 \in 1 .. m + l /\ ~(m + 1 <= m) /\ (m + 1) - m = 1
    BY <1>1
  <2> QED BY <1>1, <1>3, <2>1
<1>9. Len(u) \in Nat /\ Len(s) = Len(u) + 1 /\ m <= Len(u)
  BY <1>1, <1>3, <1>5
<1> QED BY <1>1, <1>6, <1>7, <1>8, <1>9 DEF s, u, m

\* A blank group is left out.
LEMMA HoldsDropped ==
  ASSUME NEW r \in Seq(Cue), NEW o \in Seq(Cue), o # <<>>, NEW w \in Seq(BOOLEAN),
         Holds(r \o o, w), Head(o).blank
  PROVE  Holds(r \o Tail(o), w)
<1> DEFINE s == r \o o
           u == r \o Tail(o)
           m == Len(r)
           old(i) == IF i <= m THEN i ELSE i + 1
<1>1. /\ m \in Nat /\ Len(u) \in Nat /\ Len(s) = Len(u) + 1 /\ m <= Len(u)
      /\ s \in Seq(Cue) /\ s[m + 1].blank
      /\ \A i \in 1 .. m : u[i] = s[i]
      /\ \A i \in m + 1 .. Len(u) : u[i] = s[i + 1]
  BY TakenApart
<1>2. /\ \A i \in 1 .. Len(s) :
           /\ 1 <= s[i].from /\ s[i].from <= s[i].to /\ s[i].to <= Len(w)
           /\ s[i].blank => \A k \in s[i].from .. s[i].to : ~w[k]
      /\ \A i, j \in 1 .. Len(s) : i < j => s[i].to < s[j].from
      /\ \A k \in 1 .. Len(w) : w[k] => \E i \in 1 .. Len(s) : s[i].from <= k /\ k <= s[i].to
  BY DEF Holds
<1> HIDE DEF s, u, m
<1>3. \A i \in 1 .. Len(u) : old(i) \in 1 .. Len(s) /\ u[i] = s[old(i)]
  BY <1>1
<1>4. \A i, j \in 1 .. Len(u) : i < j => old(i) < old(j)
  BY <1>1
<1>5. \A i \in 1 .. Len(s) : i = m + 1 \/ \E j \in 1 .. Len(u) : i = old(j)
  <2> SUFFICES ASSUME NEW i \in 1 .. Len(s), i # m + 1 PROVE \E j \in 1 .. Len(u) : i = old(j)
    OBVIOUS
  <2>1. CASE i <= m
    BY <1>1, <2>1
  <2>2. CASE ~(i <= m)
    <3>1. i - 1 \in 1 .. Len(u) /\ old(i - 1) = i
      BY <1>1, <2>2
    <3> QED BY <3>1
  <2> QED BY <2>1, <2>2
<1>6. m + 1 \in 1 .. Len(s) /\ \A i \in 1 .. Len(s) : s[i].from \in Nat /\ s[i].to \in Nat
  <2>1. \A i \in 1 .. Len(s) : s[i] \in Cue
    BY <1>1, LenProperties
  <2> QED BY <1>1, <2>1, RangeOfCue
<1> HIDE DEF old
<1>7. ASSUME NEW k \in 1 .. Len(w), w[k]
      PROVE  \E i \in 1 .. Len(u) : u[i].from <= k /\ k <= u[i].to
  <2>1. PICK i \in 1 .. Len(s) : s[i].from <= k /\ k <= s[i].to
    BY <1>2, <1>7
  <2>2. i # m + 1
    <3>1. k \in s[i].from .. s[i].to
      BY <1>6, <2>1
    <3> QED BY <1>1, <1>2, <1>6, <1>7, <3>1
  <2>3. PICK j \in 1 .. Len(u) : i = old(j)
    BY <1>5, <2>2
  <2> QED BY <1>3, <2>1, <2>3
<1>8. \A i, j \in 1 .. Len(u) : i < j => u[i].to < u[j].from
  BY <1>2, <1>3, <1>4
<1>9. \A i \in 1 .. Len(u) :
        /\ 1 <= u[i].from /\ u[i].from <= u[i].to /\ u[i].to <= Len(w)
        /\ u[i].blank => \A k \in u[i].from .. u[i].to : ~w[k]
  BY <1>2, <1>3
<1> QED BY <1>7, <1>8, <1>9 DEF Holds, u

\* A group goes from one list to the other.
LEMMA HoldsMoved ==
  ASSUME NEW r \in Seq(Cue), NEW o \in Seq(Cue), o # <<>>, NEW w \in Seq(BOOLEAN),
         Holds(r \o o, w), NEW a \in Nat, NEW g \in Cue, g = Stretched(Head(o))
  PROVE  Holds(Append(Trimmed(r, a), g) \o Tail(o), w)
<1> DEFINE s == r \o o
           u == r \o Tail(o)
           m == Len(r)
           q == Append(Trimmed(r, a), g)
           t == q \o Tail(o)
<1>1. /\ m \in Nat /\ Len(u) \in Nat /\ Len(s) = Len(u) + 1 /\ m <= Len(u)
      /\ s[m + 1] = Head(o)
      /\ \A i \in 1 .. m : s[i] = r[i]
      /\ \A i \in m + 1 .. Len(u) : Tail(o)[i - m] = s[i + 1]
  BY TakenApart
<1>2. Head(o) \in Cue /\ Tail(o) \in Seq(Cue) /\ Len(u) = m + Len(Tail(o)) /\ Len(Tail(o)) \in Nat
  BY HeadTailProperties, ConcatProperties, LenProperties
<1>3. Trimmed(r, a) \in Seq(Cue) /\ Len(Trimmed(r, a)) = m
  BY TrimmedType
<1>4. /\ q \in Seq(Cue) /\ Len(q) = m + 1 /\ q[m + 1] = g
      /\ \A i \in 1 .. m : q[i] = Trimmed(r, a)[i]
  BY <1>3, Appended
<1>5. /\ Len(t) = Len(q) + Len(Tail(o))
      /\ \A i \in 1 .. Len(q) + Len(Tail(o)) : t[i] = IF i <= Len(q) THEN q[i] ELSE Tail(o)[i - Len(q)]
  BY <1>2, <1>4, ConcatProperties
<1>6. /\ \A i \in 1 .. m :
           /\ Trimmed(r, a)[i].from = r[i].from /\ Trimmed(r, a)[i].to = r[i].to
           /\ Trimmed(r, a)[i].blank = r[i].blank
      /\ g.from = Head(o).from /\ g.to = Head(o).to /\ g.blank = Head(o).blank
  BY <1>2, RangesKept
<1> HIDE DEF s, u, m, q, t
<1>7. ASSUME NEW i \in 1 .. Len(s)
      PROVE  t[i].from = s[i].from /\ t[i].to = s[i].to /\ t[i].blank = s[i].blank
  <2>1. CASE i \in 1 .. m
    <3>1. t[i] = q[i]
      BY <1>1, <1>2, <1>4, <1>5, <2>1
    <3> QED BY <1>1, <1>4, <1>6, <2>1, <3>1
  <2>2. CASE i = m + 1
    <3>1. t[i] = q[i]
      BY <1>1, <1>2, <1>4, <1>5, <2>2
    <3> QED BY <1>1, <1>4, <1>6, <2>2, <3>1
  <2>3. CASE i > m + 1
    <3>1. i - 1 \in m + 1 .. Len(u) /\ (i - 1) - m = i - (m + 1) /\ (i - 1) + 1 = i
      BY <1>1, <2>3
    <3>2. t[i] = Tail(o)[i - (m + 1)]
      <4>1. i \in 1 .. Len(q) + Len(Tail(o)) /\ ~(i <= Len(q)) /\ i - Len(q) = i - (m + 1)
        <5>1. Len(q) = m + 1 /\ Len(s) = (m + Len(Tail(o))) + 1
          BY <1>1, <1>2, <1>4
        <5> QED BY <1>1, <1>2, <2>3, <5>1
      <4> QED BY <1>5, <4>1
    <3>3. Tail(o)[(i - 1) - m] = s[(i - 1) + 1]
      BY <1>1, <3>1
    <3> QED BY <3>1, <3>2, <3>3
  <2> QED BY <1>1, <2>1, <2>2, <2>3
<1>8. Len(t) = Len(s)
  BY <1>1, <1>2, <1>4, <1>5
<1>9. Holds(s, w)
  BY DEF s
<1>10. Holds(t, w)
  BY <1>7, <1>8, <1>9, HoldsSame
<1> QED BY <1>10 DEF t, q

\* In the first loop nothing has been stretched yet, and there is one list.
LEMMA GroupsRead ==
  ASSUME GroupInv, phase = "reading"
  PROVE  /\ res = <<>> /\ out \in Seq(Cue)
         /\ cur = <<>> => out = <<>> /\ Groups = <<>>
         /\ cur # <<>> => /\ cur[1] \in Cue /\ cur = << cur[1] >>
                          /\ Groups = Append(out, cur[1]) /\ out \o cur = Groups
<1>1. res = <<>> /\ out \in Seq(Cue) /\ cur \in Seq(Cue) /\ Len(cur) <= 1
      /\ (cur = <<>> => out = <<>>)
  BY DEF GroupInv, GroupType, LoopInv
<1>2. <<>> \o out = out
  BY <1>1, ConcatEmptySeq
<1>3. Groups = out \o cur
  BY <1>1, <1>2 DEF Groups
<1>4. CASE cur = <<>>
  <2>1. out \o cur = out
    BY <1>1, <1>4, ConcatEmptySeq
  <2> QED BY <1>1, <1>3, <1>4, <2>1
<1>5. CASE cur # <<>>
  <2>1. cur[1] \in Cue /\ cur = << cur[1] >>
    BY <1>1, <1>5, OneCue
  <2>2. Append(out, cur[1]) = out \o << cur[1] >>
    BY <1>1, <2>1, AppendIsConcat
  <2> QED BY <1>1, <1>3, <1>5, <2>1, <2>2
<1> QED BY <1>4, <1>5

LEMMA ReadCueText == GroupInv /\ TextInv /\ ReadCue => TextInv'
<1> SUFFICES ASSUME GroupInv, TextInv, ReadCue PROVE Holds(Groups', words')
  BY DEF TextInv
<1>1. PICK a \in last .. Horizon, d \in 0 .. Horizon, blank \in BOOLEAN :
        LET n == Len(words) + 1
            cue == [start |-> a, end |-> a + d, from |-> n, to |-> n, blank |-> blank]
        IN /\ \/ cur = <<>> /\ cur' = << cue >> /\ UNCHANGED out
              \/ /\ cur # <<>>
                 /\ cur' = << [cur[1] EXCEPT !.end = cue.end, !.to = n,
                                             !.blank = @ /\ blank] >>
                 /\ UNCHANGED out
              \/ cur # <<>> /\ cur' = << cue >> /\ out' = out \o cur
           /\ words' = Append(words, ~blank)
  BY DEF ReadCue
<1> DEFINE n == Len(words) + 1
           cue == [start |-> a, end |-> a + d, from |-> n, to |-> n, blank |-> blank]
<1>2. /\ phase = "reading" /\ res' = <<>> /\ Holds(Groups, words)
      /\ words \in Seq(BOOLEAN) /\ words' = Append(words, ~blank)
  BY <1>1, GroupsRead DEF ReadCue, TextInv, GroupInv, GroupType
<1>3. cue \in Cue /\ cue.from = n /\ cue.to = n /\ cue.blank = blank /\ a + d \in Nat /\ n \in Nat
  <2>1. a \in Nat /\ d \in Nat /\ n \in Nat
    BY MontageAssumption DEF GroupInv, GroupType
  <2> QED BY <2>1 DEF Cue
<1>4. Groups \in Seq(Cue)
  BY ConcatProperties DEF Groups, GroupInv, GroupType
<1>5. /\ out \in Seq(Cue)
      /\ cur = <<>> => out = <<>> /\ Groups = <<>>
      /\ cur # <<>> => /\ cur[1] \in Cue /\ Groups = Append(out, cur[1]) /\ out \o cur = Groups
  BY <1>2, GroupsRead
<1>6. ASSUME NEW o \in Seq(Cue), NEW g \in Cue, out' = o, cur' = << g >>
      PROVE  Groups' = Append(o, g)
  <2>1. <<>> \o o = o
    BY ConcatEmptySeq
  <2> QED BY <1>2, <1>6, <2>1, AppendIsConcat DEF Groups
<1>7. Holds(Append(Groups, cue), Append(words, ~blank))
  <2> HIDE DEF cue
  <2> QED BY <1>2, <1>3, <1>4, HoldsNewGroup
<1>8. CASE cur = <<>> /\ cur' = << cue >> /\ UNCHANGED out
  <2>1. Groups' = Append(Groups, cue)
    <3> HIDE DEF cue
    <3> QED BY <1>3, <1>4, <1>5, <1>6, <1>8
  <2> QED BY <1>2, <1>7, <2>1
<1>9. CASE /\ cur # <<>> /\ UNCHANGED out
           /\ cur' = << [cur[1] EXCEPT !.end = cue.end, !.to = n, !.blank = @ /\ blank] >>
  <2> DEFINE joined == [cur[1] EXCEPT !.end = cue.end, !.to = n, !.blank = @ /\ blank]
  <2>1. cur[1] \in Cue /\ Groups = Append(out, cur[1])
    BY <1>5, <1>9
  <2>2. /\ joined \in Cue /\ joined.from = cur[1].from /\ joined.to = n
        /\ joined.blank = (cur[1].blank /\ blank)
    <3>1. cue.end \in Nat
      BY <1>3
    <3> HIDE DEF cue, n
    <3> QED BY <1>3, <2>1, <3>1 DEF Cue
  <2>3. cur' = << joined >> /\ out' = out
    BY <1>9
  <2> HIDE DEF joined
  <2>4. Groups' = Append(out, joined)
    BY <1>5, <1>6, <2>2, <2>3
  <2>5. Holds(Append(out, joined), Append(words, ~blank))
    BY <1>2, <1>5, <2>1, <2>2, HoldsJoined
  <2> QED BY <1>2, <2>4, <2>5
<1>10. CASE cur # <<>> /\ cur' = << cue >> /\ out' = out \o cur
  <2>1. Groups' = Append(Groups, cue)
    <3> HIDE DEF cue
    <3> QED BY <1>3, <1>4, <1>5, <1>6, <1>10
  <2> QED BY <1>2, <1>7, <2>1
<1> QED BY <1>1, <1>8, <1>9, <1>10

LEMMA EndOfSrtText == GroupInv /\ TextInv /\ EndOfSrt => TextInv'
<1> SUFFICES ASSUME GroupInv, TextInv, EndOfSrt PROVE Holds(Groups', words')
  BY DEF TextInv
<1>1. /\ phase = "reading" /\ out' = out \o cur /\ cur' = <<>> /\ res' = res /\ words' = words
      /\ out \in Seq(Cue) /\ cur \in Seq(Cue)
  BY DEF EndOfSrt, GoTo, GroupInv, GroupType
<1>2. res = <<>> /\ <<>> \o out = out /\ out \o cur \in Seq(Cue)
  BY <1>1, GroupsRead, ConcatEmptySeq, ConcatProperties
<1>3. <<>> \o (out \o cur) = out \o cur /\ (out \o cur) \o <<>> = out \o cur
  BY <1>2, ConcatEmptySeq
<1>4. Groups' = Groups
  BY <1>1, <1>2, <1>3 DEF Groups
<1> QED BY <1>1, <1>4 DEF TextInv

LEMMA TrimText == GroupInv /\ TextInv /\ Trim => TextInv'
<1> SUFFICES ASSUME GroupInv, TextInv, Trim PROVE Holds(Groups', words')
  BY DEF TextInv
<1> DEFINE h == Head(out)
<1>1. /\ phase = "trimming" /\ out # <<>> /\ out' = Tail(out) /\ words' = words
      /\ res' = IF h.blank THEN res ELSE Append(Trimmed(res, h.start), Stretched(h))
      /\ cur = <<>> /\ cur' = <<>>
      /\ res \in Seq(Cue) /\ out \in Seq(Cue) /\ words \in Seq(BOOLEAN)
  BY DEF Trim, GroupInv, GroupType, LoopInv
<1>2. h \in Cue /\ h.start <= h.end /\ Tail(out) \in Seq(Cue)
  BY <1>1, TailSorted DEF GroupInv
<1>3. h.start \in Nat /\ Stretched(h) \in Cue
  BY <1>2, StretchedType DEF Cue
<1>4. res' \in Seq(Cue)
  BY <1>1, <1>3, TrimmedType, AppendProperties
<1>5. Groups = res \o out /\ Groups' = res' \o Tail(out)
  <2>1. res \o out \in Seq(Cue) /\ res' \o Tail(out) \in Seq(Cue)
    BY <1>1, <1>2, <1>4, ConcatProperties
  <2>2. (res \o out) \o <<>> = res \o out /\ (res' \o Tail(out)) \o <<>> = res' \o Tail(out)
    BY <2>1, ConcatEmptySeq
  <2> QED BY <1>1, <2>2 DEF Groups
<1>6. Holds(res \o out, words)
  BY <1>1, <1>5 DEF TextInv
<1>7. CASE h.blank
  <2>1. Holds(res \o Tail(out), words)
    BY <1>1, <1>6, <1>7, HoldsDropped
  <2> QED BY <1>1, <1>5, <1>7, <2>1
<1>8. CASE ~h.blank
  <2>1. Holds(Append(Trimmed(res, h.start), Stretched(h)) \o Tail(out), words)
    BY <1>1, <1>3, <1>6, HoldsMoved
  <2> QED BY <1>1, <1>5, <1>8, <2>1
<1> QED BY <1>7, <1>8

LEMMA TextNext == GroupInv /\ TextInv /\ [Next]_vars => TextInv'
<1> SUFFICES ASSUME GroupInv, TextInv, [Next]_vars PROVE TextInv'
  OBVIOUS
<1>1. CASE ReadCue \/ EndOfSrt \/ Trim
  BY <1>1, ReadCueText, EndOfSrtText, TrimText
<1>2. CASE NextClip
  <2>1. cur' = <<>> /\ out' = <<>> /\ res' = <<>> /\ words' = <<>>
    BY <1>2 DEF NextClip, GroupInv, LoopInv
  <2>2. Groups' = <<>>
    BY <2>1, ConcatEmptySeq, EmptySeq DEF Groups
  <2>3. Holds(<<>>, <<>>)
    BY DEF Holds
  <2> QED BY <2>1, <2>2, <2>3 DEF TextInv
<1>3. CASE \/ Regrouped \/ PlaceCue \/ Render \/ RenderFails \/ LastClip
           \/ Concat \/ WriteSrt \/ Written
  <2>1. phase' \notin {"reading", "trimming"}
    BY <1>3 DEF Regrouped, PlaceCue, Render, RenderFails, LastClip, Concat, WriteSrt, Written, GoTo
  <2> QED BY <2>1 DEF TextInv
<1>4. CASE UNCHANGED vars
  <2>1. Groups' = Groups /\ words' = words /\ phase' = phase
    BY <1>4 DEF vars, clipVars, Groups
  <2> QED BY <2>1 DEF TextInv
<1> QED BY <1>1, <1>2, <1>3, <1>4 DEF Next

\* However whisper cues are joined, stretched and trimmed, and whatever fix_text leaves of
\* them, no text is lost and none shown twice.
THEOREM TextIsKept == Spec => []TextKept
<1>1. Init => TextInv
  BY DEF Init, TextInv
<1>2. GroupInv /\ TextInv => TextKept
  <2> SUFFICES ASSUME GroupInv, TextInv, phase \in {"reading", "trimming"}
               PROVE  /\ \A k \in 1 .. Len(words) : words[k] =>
                           \E i \in 1 .. Len(Groups) : Groups[i].from <= k /\ k <= Groups[i].to
                      /\ \A i \in 1 .. Len(Groups) : Groups[i].from <= Groups[i].to
                      /\ \A i \in 1 .. Len(Groups) - 1 : Groups[i].to < Groups[i + 1].from
    BY DEF TextKept
  <2>1. Holds(Groups, words)
    BY DEF TextInv
  <2>2. Len(Groups) \in Nat
    <3>1. Groups \in Seq(Cue)
      BY ConcatProperties DEF Groups, GroupInv, GroupType
    <3> QED BY <3>1, LenProperties
  <2>3. \A i \in 1 .. Len(Groups) - 1 : i \in 1 .. Len(Groups) /\ i + 1 \in 1 .. Len(Groups) /\ i < i + 1
    BY <2>2
  <2> QED BY <2>1, <2>3 DEF Holds
<1> QED BY <1>1, <1>2, TextNext, InitOK, GroupNext, PTL DEF Spec
=============================================================================
