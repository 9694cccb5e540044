------------------------------- MODULE Montage -------------------------------
(***************************************************************************)
(* The subtitles of the video (docs/video/edicion/montaje_v2.py, and       *)
(* montaje.py, which is the same with CardEnd = CardKeep = 0): for each    *)
(* clip the cues of whisper are read and joined (first loop of regroup),   *)
(* stretched and trimmed (second loop), moved to the time of the clip and  *)
(* of the whole film (render_clip and main) and at last written.           *)
(*                                                                         *)
(* Times within a clip are integers.  The times of the film count in a     *)
(* finer unit, PerSecond to the second, so that the speed of a clip is a   *)
(* whole "rate": the units that one of its ticks takes in the film.  A     *)
(* text is the range of whisper cues joined in it, and "blank" when        *)
(* fix_text leaves nothing of it.  Whether two texts may be joined (their  *)
(* length, the last character) is left open, the limit on time is not.     *)
(*                                                                         *)
(* An operator whose name starts with Faulty is the operator after it with *)
(* a plausible mistake, to show that the properties can fail.              *)
(***************************************************************************)
EXTENDS Integers, Sequences

CONSTANTS
  NClips, Clips,      \* CLIPS: trim from t0 to t1, cut (empty if cut0 = cut1), rate
  MinDur, MaxDur,     \* shortest cue, longest joined cue
  CardEnd, CardKeep,  \* end of the section card; a cue that ends by CardKeep is dropped
  PerSecond,          \* units of the film to the second
  MaxCues,            \* bound: whisper cues of a clip
  Horizon             \* bound: times within a clip

ASSUME MontageAssumption ==
  /\ NClips \in Nat /\ Horizon \in Nat /\ MaxCues \in Nat
  /\ Clips \in [1 .. NClips -> [t0 : Nat, t1 : Nat, cut0 : Nat, cut1 : Nat, rate : Nat \ {0}]]
  /\ \A k \in 1 .. NClips :
       /\ Clips[k].t0 <= Clips[k].cut0 /\ Clips[k].cut0 <= Clips[k].cut1
       /\ Clips[k].cut1 <= Clips[k].t1
  /\ MinDur \in Nat \ {0} /\ MaxDur \in Nat
  /\ CardEnd \in Nat /\ CardKeep \in Nat /\ CardEnd <= CardKeep
  /\ PerSecond \in Nat \ {0}

VARIABLES
  phase, clip,           \* where the script is, the clip it is at
  solo, wanted,          \* whether --solo is given; the clips it lets through
  cur, out, res,         \* the variables of regroup(); cur is empty or one cue
  words,                 \* whether each whisper cue read so far has a text
  last,                  \* start of the last whisper cue read
  ass,                   \* dialogues written for the clip
  allcues, offset, srt   \* main(): cues of the film, start of the clip; stamps written

clipVars == <<cur, out, res, words, last, ass>>
filmVars == <<allcues, offset, srt>>
arguments == <<solo, wanted>>
vars == <<phase, clip, arguments, clipVars, filmVars>>

Cue == [start : Nat, end : Nat, from : Nat, to : Nat, blank : BOOLEAN]

Init ==
  /\ phase = "next" /\ clip = 0
  /\ solo \in BOOLEAN /\ wanted \in SUBSET (1 .. NClips)
  /\ ~solo => wanted = 1 .. NClips
  /\ cur = <<>> /\ out = <<>> /\ res = <<>> /\ words = <<>> /\ last = 0 /\ ass = <<>>
  /\ allcues = <<>> /\ offset = 0 /\ srt = <<>>

GoTo(from, to) == phase = from /\ phase' = to

----------------------------------------------------------------------------
(* load_srt and regroup. *)

\* load_srt: the cues come in the order of their starts.  First loop of regroup: a cue
\* joins the current one or begins a new one.
ReadCue ==
  /\ phase = "reading" /\ Len(words) < MaxCues
  /\ \E a \in last .. Horizon, d \in 0 .. Horizon, blank \in BOOLEAN :
       LET n == Len(words) + 1
           cue == [start |-> a, end |-> a + d, from |-> n, to |-> n, blank |-> blank]
       IN /\ a + d <= Horizon
          /\ \/ cur = <<>> /\ cur' = << cue >> /\ UNCHANGED out
             \/ /\ cur # <<>> /\ cue.end - cur[1].start <= MaxDur
                /\ cur' = << [cur[1] EXCEPT !.end = cue.end, !.to = n,
                                            !.blank = @ /\ blank] >>
                /\ UNCHANGED out
             \/ cur # <<>> /\ cur' = << cue >> /\ out' = out \o cur
          /\ words' = Append(words, ~blank) /\ last' = a
  /\ UNCHANGED <<phase, clip, arguments, res, ass, filmVars>>

EndOfSrt ==
  /\ GoTo("reading", "trimming")
  /\ out' = out \o cur /\ cur' = <<>>
  /\ UNCHANGED <<clip, arguments, res, words, last, ass, filmVars>>

\* Stretches only a cue that is not shown at all.
FaultyStretched(c) == [c EXCEPT !.end = IF c.end = c.start THEN c.start + MinDur ELSE c.end]

Stretched(c) == [c EXCEPT !.end = IF c.end - c.start < MinDur THEN c.start + MinDur ELSE c.end]

\* Does not look at the cue before.
FaultyTrimmed(s, a) == s

\* The last cue of s ends at the latest at a.
Trimmed(s, a) ==
  IF s # <<>> /\ a < s[Len(s)].end THEN [s EXCEPT ![Len(s)].end = a] ELSE s

\* Gives up at the first text that is empty.
FaultyTrim ==
  /\ phase = "trimming" /\ out # <<>>
  /\ out' = IF Head(out).blank THEN <<>> ELSE Tail(out)
  /\ res' = IF Head(out).blank THEN res
            ELSE Append(Trimmed(res, Head(out).start), Stretched(Head(out)))
  /\ UNCHANGED <<phase, clip, arguments, cur, words, last, ass, filmVars>>

\* Second loop of regroup.
Trim ==
  /\ phase = "trimming" /\ out # <<>>
  /\ out' = Tail(out)
  /\ res' = IF Head(out).blank THEN res
            ELSE Append(Trimmed(res, Head(out).start), Stretched(Head(out)))
  /\ UNCHANGED <<phase, clip, arguments, cur, words, last, ass, filmVars>>

Regrouped ==
  /\ out = <<>> /\ GoTo("trimming", "placing")
  /\ UNCHANGED <<clip, arguments, clipVars, filmVars>>

----------------------------------------------------------------------------
(* render_clip and main. *)

\* remap: from the time of the recording to that of the clip.
Remap(c, t) ==
  IF t > c.cut1 THEN t - c.t0 - (c.cut1 - c.cut0)
  ELSE IF t > c.cut0 THEN c.cut0 - c.t0
  ELSE t - c.t0

\* Keeps a cue by its end.
FaultyKept(c, cue) == cue.end >= c.t0 /\ cue.start < c.t1

Kept(c, cue) ==
  /\ cue.start >= c.t0 /\ cue.start < c.t1
  /\ ~(c.cut0 <= cue.start /\ cue.start < c.cut1)

\* Forgets the beginning of a cue that ends after the card.
FaultyDialogue(a, b) ==
  IF a < CardEnd /\ b <= CardKeep THEN <<>> ELSE << [start |-> a, end |-> b] >>

\* write_ass: no subtitle while the section card is shown.
Dialogue(a, b) ==
  CASE a < CardEnd /\ b <= CardKeep -> <<>>
    [] a < CardEnd /\ b > CardKeep -> << [start |-> CardEnd, end |-> b] >>
    [] a >= CardEnd -> << [start |-> a, end |-> b] >>

\* Forgets the clips before.
FaultyFilm(c, t) == Remap(c, t) * c.rate

Film(c, t) == offset + Remap(c, t) * c.rate

\* One cue of the list that render_clip builds and main appends to allcues.
PlaceCue ==
  /\ phase = "placing" /\ res # <<>>
  /\ res' = Tail(res)
  /\ LET c == Clips[clip]
         cue == Head(res)
     IN IF Kept(c, cue)
        THEN /\ ass' = ass \o Dialogue(Remap(c, cue.start), Remap(c, cue.end))
             /\ allcues' = Append(allcues, [start |-> Film(c, cue.start),
                                            end |-> Film(c, cue.end), clip |-> clip])
        ELSE UNCHANGED <<ass, allcues>>
  /\ UNCHANGED <<phase, clip, arguments, cur, out, words, last, offset, srt>>

\* The duration that render_clip returns, after the speed.
Duration(c) == Remap(c, c.t1) * c.rate

Render ==
  /\ res = <<>> /\ GoTo("placing", "next")
  /\ offset' = offset + Duration(Clips[clip])
  /\ UNCHANGED <<clip, arguments, clipVars, allcues, srt>>

\* check=True: the script ends with an exception.
RenderFails ==
  /\ phase \in {"placing", "concat"} /\ res = <<>> /\ phase' = "aborted"
  /\ UNCHANGED <<clip, arguments, clipVars, filmVars>>

\* The loop over CLIPS.
NextClip ==
  /\ clip < NClips /\ phase = "next"
  /\ clip' = clip + 1
  /\ phase' = IF clip + 1 \in wanted THEN "reading" ELSE "next"
  /\ words' = <<>> /\ last' = 0 /\ ass' = <<>>
  /\ UNCHANGED <<arguments, cur, out, res, filmVars>>

LastClip ==
  /\ clip = NClips /\ GoTo("next", IF solo THEN "done" ELSE "concat")
  /\ UNCHANGED <<clip, arguments, clipVars, filmVars>>

Concat ==
  /\ GoTo("concat", "writing")
  /\ UNCHANGED <<clip, arguments, clipVars, filmVars>>

\* Truncates.
FaultyMillis(t) == (1000 * (t % PerSecond) + PerSecond) \div PerSecond

\* round((s - int(s)) * 1000), which may be 1000.
Millis(t) == (2000 * (t % PerSecond) + PerSecond) \div (2 * PerSecond)

\* Hours, minutes, seconds, milliseconds.
Stamp(s, ms) == << s \div 3600, (s % 3600) \div 60, s % 60, ms >>

\* st: the float that stands for a whole second may be a little less than it.
Stamps(t) ==
  LET s == t \div PerSecond
  IN { Stamp(s, Millis(t)) }
       \cup (IF s > 0 /\ t % PerSecond = 0 THEN { Stamp(s - 1, 1000) } ELSE {})

WriteSrt ==
  /\ phase = "writing" /\ Len(srt) < Len(allcues)
  /\ LET cue == allcues[Len(srt) + 1]
     IN \E a \in Stamps(cue.start), b \in Stamps(cue.end) : srt' = Append(srt, << a, b >>)
  /\ UNCHANGED <<phase, clip, arguments, clipVars, allcues, offset>>

Written ==
  /\ Len(srt) = Len(allcues) /\ GoTo("writing", "done")
  /\ UNCHANGED <<clip, arguments, clipVars, filmVars>>

----------------------------------------------------------------------------
Next ==
  \/ ReadCue \/ EndOfSrt \/ Trim \/ Regrouped
  \/ PlaceCue \/ Render \/ RenderFails
  \/ NextClip \/ LastClip \/ Concat \/ WriteSrt \/ Written

Spec == Init /\ [][Next]_vars

----------------------------------------------------------------------------
(* Properties. *)

Placed == [start : Nat, end : Nat, clip : 1 .. NClips]

\* Every variable keeps to its type: no time is negative.
TypeOK ==
  /\ phase \in {"next", "reading", "trimming", "placing", "concat", "writing", "done", "aborted"}
  /\ clip \in 0 .. NClips
  /\ solo \in BOOLEAN /\ wanted \subseteq 1 .. NClips
  /\ {cur, out, res} \subseteq Seq(Cue) /\ Len(cur) <= 1
  /\ words \in Seq(BOOLEAN) /\ last \in Nat
  /\ ass \in Seq([start : Nat, end : Nat])
  /\ allcues \in Seq(Placed) /\ offset \in Nat
  /\ srt \in Seq(Seq(Seq(Nat)))

\* "nunca solapar" (montaje_v2.py, 122): within a clip each cue ends before the next one
\* begins, and not before it begins itself, although cues are stretched to MinDur.
ClipCuesOrdered ==
  \A i \in 1 .. Len(res) :
    /\ res[i].start <= res[i].end
    /\ i < Len(res) => res[i].end <= res[i + 1].start

\* A cue is shown for less than MinDur only if the next one follows it at once.
ShortOnlyIfFollowed ==
  \A i \in 1 .. Len(res) :
    res[i].end - res[i].start < MinDur => i < Len(res) /\ res[i].end = res[i + 1].start

Groups == res \o out \o cur

\* Joining and trimming lose no text and repeat none: every whisper cue with a text is in
\* exactly one group, and the groups are in the order of the cues.
TextKept ==
  phase \in {"reading", "trimming"} =>
    /\ \A k \in 1 .. Len(words) : words[k] =>
         \E i \in 1 .. Len(Groups) : Groups[i].from <= k /\ k <= Groups[i].to
    /\ \A i \in 1 .. Len(Groups) : Groups[i].from <= Groups[i].to
    /\ \A i \in 1 .. Len(Groups) - 1 : Groups[i].to < Groups[i + 1].from

\* In the film the cues are in order: cues of one clip do not overlap, no cue of the
\* present clip starts before the clip does, and none of an earlier clip after that.  (The
\* last cue of a clip may go on into the next one: render_clip filters by the start alone.)
FinalOrder ==
  \A i \in 1 .. Len(allcues) :
    /\ allcues[i].start <= allcues[i].end
    /\ i < Len(allcues) =>
         /\ allcues[i].start <= allcues[i + 1].start
         /\ allcues[i].clip = allcues[i + 1].clip => allcues[i].end <= allcues[i + 1].start
    /\ phase \in {"reading", "trimming", "placing"} =>
         IF allcues[i].clip = clip THEN offset <= allcues[i].start
                                   ELSE allcues[i].start <= offset

\* "durante la tarjeta de sección no hay subtítulo" (montaje_v2.py, 156), and the
\* subtitles burned into a clip do not overlap.
CardClear ==
  \A i \in 1 .. Len(ass) :
    /\ CardEnd <= ass[i].start /\ ass[i].start <= ass[i].end
    /\ i < Len(ass) => ass[i].end <= ass[i + 1].start

\* The stamps written are in the order of the cues and the nearest milliseconds to the
\* times they stand for, with less than 60 minutes and 60 seconds in their fields.  (The
\* last field may be 1000, a digit too many, instead of one second more.)
StampsExact ==
  \A i \in 1 .. Len(srt), k \in {1, 2} :
    LET stamp == srt[i][k]
        t == << allcues[i].start, allcues[i].end >>[k]
        off == (1000 * (3600 * stamp[1] + 60 * stamp[2] + stamp[3]) + stamp[4]) * PerSecond
                 - 1000 * t
    IN /\ stamp[2] < 60 /\ stamp[3] < 60 /\ stamp[4] <= 1000
       /\ 2 * off <= PerSecond /\ 2 * off >= -PerSecond
=============================================================================
