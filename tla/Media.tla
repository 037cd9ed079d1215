-------------------------------- MODULE Media --------------------------------
(* packages/media: the Player, Image and Carousel components, and the        *)
(* headless player core (pickRendition, playbackReducer, the hls.js          *)
(* attachment), which the Player does not use.  `medium` names the one that  *)
(* a behaviour is about.                                                     *)
(*                                                                           *)
(* The media element is external: it plays, it keeps its own mute and volume *)
(* and its native controls change them; so is Svelte, which runs the element's *)
(* attribute effect again whenever one of the attributes it sets changes.    *)
EXTENDS Integers, FiniteSets, Sequences

CONSTANTS
    Absent,         \* undefined, null, NaN
    SeekStep,       \* SEEK_STEP_SECONDS
    MaxTime,        \* bound: length of a source
    Loudest,        \* full volume, in steps of VOLUME_STEP
    Renditions,     \* records: id, height or Absent, bitrate, codec, whether it is the one preferred
    Scale,          \* rank(): the weight of a line of height
    Widths,         \* candidate widths of an image, in tenths of a pixel
    Slides, SlideWidth, Gap, PageWidth  \* a carousel's slides, and its width in their unit

VARIABLES
    medium,         \* "player", "image", "carousel", "headless", "renditions"
    mounted,        \* "no", "yes", "refused": the component
    viewType, tracks, autoplay,                 \* props of the player
    paused, time, duration, volume, silent,     \* the element, silent is its muted
    muted,          \* the player's own copy of it
    native,         \* history: native controls have muted or unmuted since they agreed
    unmuted,        \* history: the user has unmuted
    rewired,        \* history: viewType or tracks has changed since the mount
    late,           \* history: autoplay was turned on after it
    widths, loaded, pictured,       \* the image: props, state, history: what it shows
    offset, aim,                    \* the carousel: scrollLeft, where it is gliding to or Absent
    presses,                        \* history: presses of next that found it at rest
    status, renditionId, instances, \* the machine, and hls instances: their sources or Absent
    offered, limit                  \* renditions to pick from

playerVars == <<viewType, tracks, autoplay, paused, time, duration, volume, silent, muted,
                native, unmuted, rewired, late>>
imageVars == <<widths, loaded, pictured>>
carouselVars == <<offset, aim, presses>>
headlessVars == <<status, renditionId, instances>>
pickVars == <<offered, limit>>
vars == <<medium, mounted, playerVars, imageVars, carouselVars, headlessVars, pickVars>>

Smaller(x, y) == IF x < y THEN x ELSE y
Larger(x, y) == IF x > y THEN x ELSE y

-------------------------------------------------------------------------------
(* pickRendition(): the loop over the eligible renditions, or over all.      *)
IsAtOrBelowHeight(r, maxHeight) ==
    maxHeight = Absent \/ r.height = Absent \/ r.height <= maxHeight
Rank(r) == IF r.height # Absent THEN r.height * Scale + r.bitrate ELSE r.bitrate

Better(r, best) ==
    \/ r.preferred /\ ~best.preferred
    \/ r.preferred = best.preferred /\ Rank(r) > Rank(best)

Pool(renditions, maxHeight) ==
    LET eligible == {i \in DOMAIN renditions : IsAtOrBelowHeight(renditions[i], maxHeight)}
    IN IF eligible # {} THEN eligible ELSE DOMAIN renditions

PickRendition(renditions, maxHeight) ==
    LET pool == Pool(renditions, maxHeight)
        best[i \in 0..Len(renditions)] ==
            IF i = 0 THEN Absent
            ELSE IF i \in pool /\ (best[i - 1] = Absent \/ Better(renditions[i], best[i - 1]))
            THEN renditions[i] ELSE best[i - 1]
    IN best[Len(renditions)]

(* The widths of a srcset: positive, rounded, each once, ascending.  The src *)
(* for a browser without srcset is the last.                                 *)
Rounded(w) == (w + 5) \div 10
NormaliseWidths(ws) ==
    LET sizes == {Rounded(w) : w \in {v \in ws : v > 0}}
    IN [k \in 1..Cardinality(sizes) |->
           CHOOSE x \in sizes : Cardinality({y \in sizes : y < x}) = k - 1]
FallbackWidth(ws) ==
    LET candidates == NormaliseWidths(ws)
    IN IF candidates = <<>> THEN Absent ELSE candidates[Len(candidates)]

-------------------------------------------------------------------------------
Init ==
    /\ medium \in {"player", "image", "carousel", "headless", "renditions"}
    /\ mounted = "no"
    /\ viewType \in {"video", "audio"} /\ tracks \in {Absent, "given"} /\ autoplay \in BOOLEAN
    /\ medium # "player" => viewType = "video" /\ tracks = Absent /\ ~autoplay
    /\ paused = TRUE /\ time = 0 /\ duration = Absent /\ volume = Loudest
    /\ silent = FALSE /\ muted = FALSE
    /\ native = FALSE /\ unmuted = FALSE /\ rewired = FALSE /\ late = FALSE
    /\ widths \in IF medium = "image" THEN SUBSET Widths ELSE {{}}
    /\ loaded = FALSE /\ pictured = FALSE
    /\ offset = 0 /\ aim = Absent /\ presses = 0
    /\ status = "idle" /\ renditionId = Absent /\ instances = <<>>
    /\ offered \in IF medium = "renditions" THEN UNION {[1..n -> Renditions] : n \in 0..3} ELSE {<<>>}
    /\ limit \in IF medium = "renditions" THEN {Absent} \cup {r.height : r \in Renditions} ELSE {Absent}

-------------------------------------------------------------------------------
(* Player.  assertCaptionsContract() runs once, and so does the reading of   *)
(* autoplay into `muted`.                                                    *)
CaptionsContract == viewType = "audio" \/ tracks # Absent

MountPlayer ==
    /\ medium = "player" /\ mounted = "no"
    /\ IF CaptionsContract
       THEN mounted' = "yes" /\ muted' = autoplay /\ silent' = autoplay
       ELSE mounted' = "refused" /\ UNCHANGED <<muted, silent>>
    /\ UNCHANGED <<medium, viewType, tracks, autoplay, paused, time, duration, volume, native, unmuted,
                   rewired, late, imageVars, carouselVars, headlessVars, pickVars>>

Plays == medium = "player" /\ mounted = "yes"

(* New props.  A new source starts over, in the element's effect, which sets *)
(* the element's muted from the copy again; another view type is another     *)
(* element.                                                                  *)
SetProps ==
    /\ Plays
    /\ \E view \in {"video", "audio"}, given \in {Absent, "given"}, auto \in BOOLEAN, new \in BOOLEAN :
          LET anew == new \/ view # viewType
          IN /\ viewType' = view /\ tracks' = given /\ autoplay' = auto
             /\ rewired' = (rewired \/ view # viewType \/ given # tracks)
             /\ late' = (late \/ (auto /\ ~autoplay))
             /\ time' = IF anew THEN 0 ELSE time
             /\ paused' = IF anew THEN TRUE ELSE paused
             /\ duration' = IF anew THEN Absent ELSE duration
             /\ volume' = IF view # viewType THEN Loudest ELSE volume
             /\ silent' = IF anew \/ auto # autoplay THEN muted ELSE silent
             /\ native' = IF anew \/ auto # autoplay THEN FALSE ELSE native
    /\ UNCHANGED <<medium, mounted, muted, unmuted, imageVars, carouselVars, headlessVars, pickVars>>

SetElement(halted, at, loudness) ==
    /\ paused' = halted /\ time' = at /\ volume' = loudness
    /\ UNCHANGED <<medium, mounted, viewType, tracks, autoplay, duration, silent, muted, native, unmuted,
                   rewired, late, imageVars, carouselVars, headlessVars, pickVars>>

(* The browser: metadata, autoplay, the passing of time and the end.         *)
LoadMetadata ==
    /\ Plays /\ duration = Absent
    /\ duration' \in 0..MaxTime
    /\ time' = Smaller(time, duration')
    /\ UNCHANGED <<medium, mounted, viewType, tracks, autoplay, paused, volume, silent, muted, native,
                   unmuted, rewired, late, imageVars, carouselVars, headlessVars, pickVars>>
Autoplay == Plays /\ autoplay /\ duration # Absent /\ paused /\ time = 0 /\ SetElement(FALSE, time, volume)
Elapse ==
    /\ Plays /\ ~paused /\ duration # Absent
    /\ IF time < duration THEN SetElement(paused, time + 1, volume) ELSE SetElement(TRUE, time, volume)

(* applyTransportAction(), on a key without a modifier.  The element itself  *)
(* goes no further than its source, once it knows how long that is.          *)
Reachable(t) == IF duration = Absent THEN t ELSE Smaller(t, duration)
Ahead == IF duration \in {Absent, 0} THEN time + SeekStep ELSE Smaller(duration, time + SeekStep)
ClampVolume(value, step) == Larger(0, Smaller(Loudest, value + step))

TogglePlay == Plays /\ SetElement(~paused, time, volume)
SeekBack == Plays /\ SetElement(paused, Larger(0, time - SeekStep), volume)
SeekForward == Plays /\ time + SeekStep <= MaxTime /\ SetElement(paused, Reachable(Ahead), volume)
ChangeVolume == Plays /\ \E step \in {-1, 1} : SetElement(paused, time, ClampVolume(volume, step))

(* The key M: the element, then the copy of it.                              *)
Forgotten(element) == muted                 \* mistake: the copy is left as it was
Mirrored(element) == element

ToggleMute ==
    /\ Plays
    /\ silent' = ~silent
    /\ muted' = Mirrored(silent')
    /\ native' = FALSE
    /\ unmuted' = (unmuted \/ silent)
    /\ UNCHANGED <<medium, mounted, viewType, tracks, autoplay, paused, time, duration, volume, rewired, late,
                   imageVars, carouselVars, headlessVars, pickVars>>

(* The native controls; what else they do, the keys do as well.              *)
NativeMute ==
    /\ Plays
    /\ silent' = ~silent
    /\ native' = (silent' # muted)
    /\ unmuted' = (unmuted \/ silent)
    /\ UNCHANGED <<medium, mounted, viewType, tracks, autoplay, paused, time, duration, volume, muted, rewired,
                   late, imageVars, carouselVars, headlessVars, pickVars>>

-------------------------------------------------------------------------------
(* Image: the placeholder is there until the first load event; a failure is  *)
(* not listened to, and a new src does not bring the placeholder back.       *)
Load ==
    /\ medium = "image"
    /\ loaded' = TRUE /\ pictured' = TRUE
    /\ UNCHANGED <<medium, mounted, playerVars, widths, carouselVars, headlessVars, pickVars>>
ChangeSrc ==
    /\ medium = "image"
    /\ widths' \in SUBSET Widths
    /\ pictured' = FALSE
    /\ UNCHANGED <<medium, mounted, playerVars, loaded, carouselVars, headlessVars, pickVars>>

(* Carousel without embla: scrollByPage() scrolls on from where it has got   *)
(* to, at once for a duration of zero and else smoothly, which takes the     *)
(* place of a scroll that is under way; the browser stops at either end.     *)
ScrollWidth == Slides * (SlideWidth + Gap) - Gap
End == Larger(0, ScrollWidth - PageWidth)
Within(x) == Larger(0, Smaller(End, x))

PageOn(direction) == Within(offset + direction * PageWidth)

Scrolled == UNCHANGED <<medium, mounted, playerVars, imageVars, headlessVars, pickVars>>

ScrollByPage(direction) ==
    /\ medium = "carousel"
    /\ \/ offset' = PageOn(direction) /\ aim' = Absent
       \/ offset' = offset /\ aim' = PageOn(direction)
    /\ presses' = IF direction = -1 THEN 0
                  ELSE IF aim = Absent THEN Smaller(End, presses + 1) ELSE presses
    /\ Scrolled
Glide ==
    /\ medium = "carousel" /\ aim # Absent
    /\ offset' \in Smaller(offset, aim)..Larger(offset, aim)
    /\ aim' = IF offset' = aim THEN Absent ELSE aim
    /\ UNCHANGED presses
    /\ Scrolled
Drag ==
    /\ medium = "carousel"
    /\ offset' \in 0..End /\ aim' = Absent /\ presses' = 0
    /\ Scrolled

-------------------------------------------------------------------------------
(* playbackReducer(): the table, what is outside of it, and the attachments. *)
Transitions ==
    [load |-> [from |-> {"idle"}, to |-> "loading"],
     ready |-> [from |-> {"loading"}, to |-> "paused"],
     play |-> [from |-> {"paused", "ended"}, to |-> "playing"],
     pause |-> [from |-> {"playing"}, to |-> "paused"],
     end |-> [from |-> {"playing"}, to |-> "ended"]]

Headless == medium = "headless" /\ UNCHANGED <<medium, mounted, playerVars, imageVars, carouselVars, pickVars>>

Dispatch ==
    /\ Headless
    /\ \E type \in DOMAIN Transitions :
          status' = IF status \in Transitions[type].from THEN Transitions[type].to ELSE status
    /\ UNCHANGED <<renditionId, instances>>
SelectQuality ==
    /\ Headless
    /\ \E r \in Renditions : renditionId' = IF status = "idle" THEN renditionId ELSE r
    /\ UNCHANGED <<status, instances>>
Reset == Headless /\ status' = "idle" /\ renditionId' = Absent /\ UNCHANGED instances

(* attach() makes an instance of its own each time, and the handle it gives  *)
(* back destroys that one.                                                   *)
Attach ==
    /\ Headless /\ Len(instances) < 2
    /\ \E source \in {"one", "other"} : instances' = Append(instances, source)
    /\ UNCHANGED <<status, renditionId>>
Destroy ==
    /\ Headless
    /\ \E i \in DOMAIN instances : instances' = [instances EXCEPT ![i] = Absent]
    /\ UNCHANGED <<status, renditionId>>

Next ==
    \/ MountPlayer \/ SetProps \/ LoadMetadata \/ Autoplay \/ Elapse
    \/ TogglePlay \/ SeekBack \/ SeekForward \/ ChangeVolume \/ ToggleMute \/ NativeMute
    \/ Load \/ ChangeSrc
    \/ ScrollByPage(-1) \/ ScrollByPage(1) \/ Glide \/ Drag
    \/ Dispatch \/ SelectQuality \/ Reset \/ Attach \/ Destroy

Spec == Init /\ [][Next]_vars

-------------------------------------------------------------------------------
(* What pickRendition() promises: one of the pool, of the preferred codec if *)
(* any is, then the highest, then the one of the highest bitrate, as long as *)
(* no bitrate reaches the weight of a line of height.                        *)
Height(r) == IF r.height = Absent THEN 0 ELSE r.height
IsBest(r, pool) ==
    /\ r \in pool
    /\ \A other \in pool :
          \/ r.preferred /\ ~other.preferred
          \/ /\ r.preferred = other.preferred
             /\ \/ Height(other) < Height(r)
                \/ Height(other) = Height(r) /\ other.bitrate <= r.bitrate
                \/ {r.bitrate, other.bitrate} \cap 0..(Scale - 1) # {r.bitrate, other.bitrate}

(* The player's copy of `muted` differs from the element only when the       *)
(* native controls were used since; a caption-less video is on the page only *)
(* if the props changed after the mount; autoplay is never heard unless the  *)
(* user unmuted or it was turned on after the mount; time and volume stay in *)
(* range.  An image that has arrived is not behind its placeholder, and a     *)
(* srcset is made of widths that ascend and are positive unless one was      *)
(* below a half.  A carousel that comes to rest is a page further on for      *)
(* every press of "next" that found it at rest, whatever was pressed while   *)
(* it was gliding, so that it gets to its end.  The quality of the machine   *)
(* belongs to what is loaded, and the rendition it is given is the best.     *)
ShowsMedia ==
    /\ [](Plays => (muted # silent => native))
    /\ [](Plays => (CaptionsContract \/ rewired))
    /\ [][Autoplay => (silent \/ unmuted \/ late)]_vars
    /\ [](duration # Absent => time <= duration)
    /\ [](volume \in 0..Loudest)
    /\ [](pictured => loaded)
    /\ [](LET candidates == NormaliseWidths(widths)
          IN /\ \A i \in 1..(Len(candidates) - 1) : candidates[i] < candidates[i + 1]
             /\ \A i \in DOMAIN candidates : candidates[i] > 0 \/ \E v \in widths : v \in 1..4
             /\ FallbackWidth(widths) = Absent <=> {w \in widths : w > 0} = {})
    /\ [](aim = Absent => offset >= Smaller(End, presses * PageWidth))
    /\ [](status = "idle" => renditionId = Absent)
    /\ [](LET pick == PickRendition(offered, limit)
          IN IF offered = <<>> THEN pick = Absent
             ELSE IsBest(pick, {offered[i] : i \in Pool(offered, limit)}))
==============================================================================
