--------------------------- MODULE Tooling_proofs ---------------------------
(* Proofs about the modules that Tooling puts side by side, of which         *)
(* MCTooling checks a small instance.                                        *)
EXTENDS Tooling, FiniteSetTheorems, WellFoundedInduction, TLAPS

(* A set of numbers has a least one: what a proof by induction comes down to *)
(* that takes the least number its formula is false of.                      *)
LEMMA LeastNumber ==
    ASSUME NEW T, T \subseteq Nat, T # {}
    PROVE  \E x \in T : \A y \in T : x <= y
<1> DEFINE R == {ss \in Nat \X Nat : ss[1] < ss[2]}
<1>1. IsWellFoundedOn(R, Nat)
  BY NatLessThanWellFounded DEF OpToRel
<1>2. ASSUME NEW a \in Nat, NEW b \in Nat, a < b PROVE <<a, b>> \in R
  BY <1>2
<1> HIDE DEF R
<1>3. PICK x \in T : \A y \in T : <<y, x>> \notin R
  BY <1>1, WFMin
<1>4. ASSUME NEW y \in T PROVE x <= y
  <2>1. x \in Nat /\ y \in Nat /\ ~(y < x)
    BY <1>2, <1>3
  <2> QED
    BY <2>1
<1> QED
  BY <1>4

(* A function may be defined on 0..n by recursion, for any n: the step takes *)
(* the number and the value before it.                                       *)
IsRecursive(f, base, step, n) ==
    \A i \in 0..n : f[i] = IF i = 0 THEN base ELSE step[<<i, f[i - 1]>>]

LEMMA Recursion ==
    ASSUME NEW V, NEW base \in V, NEW step \in [Nat \X V -> V]
    PROVE  \A n \in Nat : \E f \in [0..n -> V] : IsRecursive(f, base, step, n)
<1> DEFINE T == {n \in Nat : ~ \E f \in [0..n -> V] : IsRecursive(f, base, step, n)}
<1> SUFFICES ASSUME T # {} PROVE FALSE
  OBVIOUS
<1>1. PICK n \in T : \A k \in T : n <= k
  BY LeastNumber, Zenon
<1>2. n # 0
  <2>1. [i \in 0..0 |-> base] \in [0..0 -> V] /\ IsRecursive([i \in 0..0 |-> base], base, step, 0)
    BY DEF IsRecursive
  <2> QED
    BY <2>1
<1>3. n \in Nat /\ n - 1 \in Nat /\ n - 1 \notin T
  BY <1>1, <1>2
<1>4. PICK g \in [0..(n - 1) -> V] : IsRecursive(g, base, step, n - 1)
  BY <1>3
<1> DEFINE f == [i \in 0..n |-> IF i = n THEN step[<<n, g[n - 1]>>] ELSE g[i]]
<1>5. f \in [0..n -> V]
  <2>1. n - 1 \in 0..(n - 1)
    BY <1>3
  <2>2. g[n - 1] \in V /\ step[<<n, g[n - 1]>>] \in V
    BY <1>3, <1>4, <2>1
  <2>3. \A i \in 0..n : i # n => i \in 0..(n - 1)
    BY <1>3
  <2> QED
    BY <1>4, <2>2, <2>3
<1>6. ASSUME NEW i \in 0..n PROVE f[i] = IF i = 0 THEN base ELSE step[<<i, f[i - 1]>>]
  <2>1. CASE i = n
    <3>1. n \in 0..n /\ n - 1 \in 0..n /\ n - 1 # n
      BY <1>2, <1>3
    <3>2. f[n] = step[<<n, g[n - 1]>>] /\ f[n - 1] = g[n - 1]
      BY <3>1
    <3> QED
      BY <1>2, <2>1, <3>2
  <2>2. CASE i # n
    <3>1. i \in 0..(n - 1) /\ (i # 0 => i - 1 \in 0..(n - 1))
      BY <1>3, <2>2
    <3>2. g[i] = IF i = 0 THEN base ELSE step[<<i, g[i - 1]>>]
      BY <1>4, <3>1 DEF IsRecursive
    <3>3. f[i] = g[i] /\ (i # 0 => f[i - 1] = g[i - 1])
      BY <1>3, <2>2, <3>1
    <3> QED
      BY <3>2, <3>3
  <2> QED
    BY <2>1, <2>2
<1>7. IsRecursive(f, base, step, n)
  <2> HIDE DEF f
  <2> QED
    BY <1>6 DEF IsRecursive
<1> QED
  BY <1>1, <1>5, <1>7

\* Counting up to a number, one at a time.
LEMMA CountUp ==
    ASSUME NEW n \in Nat, NEW T, 0 \in T, \A i \in 1..n : i - 1 \in T => i \in T
    PROVE  \A i \in 0..n : i \in T
<1> DEFINE U == {i \in 0..n : i \notin T}
<1> SUFFICES ASSUME U # {} PROVE FALSE
  OBVIOUS
<1>1. U \subseteq Nat
  OBVIOUS
<1>2. PICK i \in U : \A j \in U : i <= j
  BY <1>1, LeastNumber, Zenon
<1>3. i \in 1..n /\ i - 1 \in 0..n /\ ~(i <= i - 1)
  BY <1>2
<1>4. i - 1 \in T
  BY <1>2, <1>3
<1> QED
  BY <1>2, <1>3, <1>4

------------------------------------------------------------------------------
(* FigureSite: any figures, versions and pages.                              *)

(* What a page is rendered to with the JSON there is: the html of each of    *)
(* its fences, or nothing at all where one of them has none.                 *)
Html(drawn, p) == [i \in DOMAIN p |-> [slug |-> p[i], html |-> drawn[p[i]]]]
RenderedFrom(drawn, p, shown) == shown = Html(drawn, p) \/ shown = <<>>

(* The store holds what the page it remembers is rendered to from the JSON   *)
(* its digest stands for.  While a site build is under way its digest is of  *)
(* the JSON there is, and what the build shows is the page rendered from it, *)
(* unless that was edited; a fresh site was published from there.  All this  *)
(* unless a JSON was written under a site build.                             *)
StoreInv ==
    /\ store = [digest |-> store.digest, page |-> store.page, shown |-> store.shown]
    /\ ~stirred /\ store.page # None => store.shown = Html(store.digest, store.page)
BuildInv ==
    /\ astro.step \in {"idle", "set up", "rendered"}
    /\ astro.step # "idle" => ~site.built
    /\ astro.step # "idle" /\ ~stirred => store.digest = json
    /\ astro.step = "rendered" /\ ~stirred /\ site.fresh => RenderedFrom(json, page, astro.shown)
SiteInv ==
    /\ site = [built |-> site.built, fresh |-> site.fresh, shown |-> site.shown, files |-> site.files]
    /\ site.built \in BOOLEAN /\ site.fresh \in BOOLEAN
    /\ site.built /\ site.fresh /\ ~stirred =>
           RenderedFrom(json, page, site.shown) /\ site.files = Built!Published

(* A development server has read the JSON there is, unless one was written   *)
(* that it has not been told of, or is about to restart for.                 *)
DevInv ==
    /\ dev = [state |-> dev.state, digest |-> dev.digest, timer |-> dev.timer]
    /\ dev.timer \in BOOLEAN /\ (dev.timer => dev.state = "up")
    /\ dev.state \in {"set up", "up"} /\ ~dev.timer /\ ~missed => dev.digest = json
FigureSiteInv ==
    /\ stirred \in BOOLEAN /\ missed \in BOOLEAN
    /\ page \in Built!Pages
    /\ StoreInv /\ BuildInv /\ SiteInv /\ DevInv

LEMMA InitFigureSiteInv == Built!Init => FigureSiteInv
<1> SUFFICES ASSUME Built!Init PROVE FigureSiteInv
  OBVIOUS
<1> USE DEF Built!Init
<1>1. StoreInv
  BY DEF StoreInv
<1>2. BuildInv /\ SiteInv
  BY DEF BuildInv, SiteInv
<1>3. DevInv
  BY DEF DevInv, Built!Down
<1> QED
  BY <1>1, <1>2, <1>3 DEF FigureSiteInv

(* What is edited leaves the site stale.                                     *)
LEMMA ChangedSite ==
    ASSUME SiteInv, Built!Change
    PROVE  /\ site' = [built |-> site.built, fresh |-> FALSE, shown |-> site.shown,
                       files |-> site.files]
           /\ site.built \in BOOLEAN /\ site'.built = site.built /\ ~site'.fresh
           /\ SiteInv'
  BY DEF SiteInv, Built!Change

LEMMA NextFigureSiteInv ==
    ASSUME None \notin Built!Pages, FigureSiteInv, [Built!Next]_(Built!vars)
    PROVE  FigureSiteInv'
<1> USE DEF FigureSiteInv
<1>1. ASSUME NEW s \in SiteSlugs, Built!WriteJson(s) PROVE FigureSiteInv'
  <2> USE <1>1 DEF Built!WriteJson
  <2>1. SiteInv' /\ site'.built = site.built /\ ~site'.fresh
    BY ChangedSite
  <2>2. StoreInv'
    BY DEF StoreInv
  <2>3. BuildInv'
    BY <2>1 DEF BuildInv
  <2>4. DevInv'
    <3>1. dev' = [state |-> dev.state, digest |-> dev.digest,
                  timer |-> dev.timer \/ dev.state = "up"]
      BY DEF DevInv, Built!OnEvent
    <3> QED
      BY <3>1 DEF DevInv
  <2> QED
    BY <2>1, <2>2, <2>3, <2>4
<1>2. CASE (\E s \in SiteSlugs : Built!WriteSvg(s)) \/ Built!EditPage
  <2> USE <1>2 DEF Built!WriteSvg, Built!EditPage
  <2>1. SiteInv' /\ site'.built = site.built /\ ~site'.fresh
    BY ChangedSite
  <2>2. StoreInv'
    BY DEF StoreInv, Built!outputs
  <2>3. BuildInv'
    BY <2>1 DEF BuildInv, Built!outputs
  <2>4. DevInv'
    BY DEF DevInv, Built!outputs
  <2> QED
    BY <2>1, <2>2, <2>3, <2>4
<1>3. CASE Built!ConfigSetup
  <2> USE <1>3 DEF Built!ConfigSetup, Built!Digest, Built!outputs
  <2>1. store' = store \/ store' = [digest |-> json, page |-> None, shown |-> None]
    OBVIOUS
  <2>2. StoreInv'
    BY <2>1 DEF StoreInv
  <2>3. BuildInv'
    BY <2>1 DEF BuildInv
  <2>4. SiteInv' /\ DevInv'
    BY DEF SiteInv, DevInv
  <2> QED
    BY <2>2, <2>3, <2>4
<1>4. CASE Built!Reuse
  <2> USE <1>4 DEF Built!Reuse, Built!outputs
  <2>1. StoreInv' /\ SiteInv' /\ DevInv'
    BY DEF StoreInv, BuildInv, SiteInv, DevInv
  <2>2. BuildInv'
    BY DEF StoreInv, BuildInv, RenderedFrom
  <2> QED
    BY <2>1, <2>2
<1>5. CASE Built!Render
  <2>1. CASE Built!Replaceable
    <3>1. /\ astro' = [step |-> "rendered", shown |-> Html(json, page)]
          /\ store' = [digest |-> store.digest, page |-> page, shown |-> Html(json, page)]
      BY <1>5, <2>1 DEF Built!Render, Built!Replaced, StoreInv, Html
    <3>2. StoreInv'
      BY <1>5, <3>1 DEF Built!Render, StoreInv, BuildInv
    <3>3. BuildInv'
      BY <1>5, <3>1 DEF Built!Render, Built!outputs, BuildInv, RenderedFrom
    <3>4. SiteInv' /\ DevInv'
      BY <1>5 DEF Built!Render, Built!outputs, BuildInv, SiteInv, DevInv
    <3> QED
      BY <1>5, <3>2, <3>3, <3>4 DEF Built!Render
  <2>2. CASE ~Built!Replaceable
    <3>1. /\ astro' \in {[step |-> "idle", shown |-> None], [step |-> "rendered", shown |-> <<>>]}
          /\ store' = [digest |-> store.digest, page |-> None, shown |-> None]
      BY <1>5, <2>2 DEF Built!Render, StoreInv
    <3>2. StoreInv'
      BY <3>1 DEF StoreInv
    <3>3. BuildInv'
      <4>1. UNCHANGED <<json, page, site, stirred>> /\ astro.step = "set up"
        BY <1>5 DEF Built!Render, Built!outputs
      <4>2. ~stirred => store'.digest = json
        BY <3>1, <4>1 DEF BuildInv
      <4>3. CASE astro' = [step |-> "idle", shown |-> None]
        BY <4>1, <4>3 DEF BuildInv
      <4>4. CASE astro' = [step |-> "rendered", shown |-> <<>>]
        BY <4>1, <4>2, <4>4 DEF BuildInv, RenderedFrom
      <4> QED
        BY <3>1, <4>3, <4>4
    <3>4. SiteInv' /\ DevInv'
      BY <1>5 DEF Built!Render, Built!outputs, BuildInv, SiteInv, DevInv
    <3> QED
      BY <1>5, <3>2, <3>3, <3>4 DEF Built!Render
  <2> QED
    BY <2>1, <2>2
<1>6. CASE Built!BuildDone
  <2>1. Built!Published' = Built!Published
    BY <1>6 DEF Built!BuildDone, Built!outputs, Built!Published
  <2> QED
    BY <1>6, <2>1 DEF Built!BuildDone, Built!outputs, StoreInv, BuildInv, SiteInv, DevInv
<1>7. CASE Built!DevSetup \/ Built!ServerSetup \/ Built!Restart \/ Built!DevStop
  <2>1. UNCHANGED <<json, svg, own, page, store, astro, site, stirred, missed>>
    BY <1>7 DEF Built!DevSetup, Built!ServerSetup, Built!Restart, Built!DevStop, Built!outputs
  <2>2. Built!Published' = Built!Published
    BY <2>1 DEF Built!Published
  <2>3. StoreInv' /\ BuildInv' /\ SiteInv'
    BY <2>1, <2>2 DEF StoreInv, BuildInv, SiteInv
  <2>4. CASE Built!DevSetup
    BY <2>1, <2>3, <2>4 DEF Built!DevSetup, Built!Digest, DevInv
  <2>5. CASE Built!ServerSetup
    <3>1. dev' = [state |-> "up", digest |-> dev.digest, timer |-> FALSE]
      BY <2>5 DEF Built!ServerSetup, DevInv
    <3>2. dev.state = "set up" /\ ~dev.timer
      BY <2>5 DEF Built!ServerSetup, DevInv
    <3>3. DevInv'
      BY <2>1, <3>1, <3>2 DEF DevInv
    <3> QED
      BY <2>1, <2>3, <3>3
  <2>6. CASE Built!Restart \/ Built!DevStop
    <3>1. PICK t \in {"down", "restarting", "failed"}, d \in {None, dev.digest} :
              dev' = [state |-> t, digest |-> d, timer |-> FALSE]
      BY <2>6 DEF Built!Restart, Built!DevStop, Built!Down, DevInv
    <3>2. dev'.state = t /\ dev'.digest = d /\ dev'.timer = FALSE
      BY <3>1
    <3>3. DevInv'
      BY <3>1, <3>2 DEF DevInv
    <3> QED
      BY <2>1, <2>3, <3>3
  <2> QED
    BY <1>7, <2>4, <2>5, <2>6
<1>8. CASE UNCHANGED Built!vars
  <2> USE <1>8 DEF Built!vars, Built!outputs
  <2>1. Built!Published' = Built!Published
    BY DEF Built!Published
  <2> QED
    BY <2>1 DEF StoreInv, BuildInv, SiteInv, DevInv
<1> QED
  BY <1>1, <1>2, <1>3, <1>4, <1>5, <1>6, <1>7, <1>8 DEF Built!Next

(* Where the check of a built site passes that nothing was edited since, its *)
(* page shows what the figures say now, and a development server that has    *)
(* nothing to restart for has read them as they are, unless one was written  *)
(* under a site build or before the server watched.  None is not a page.     *)
THEOREM ShowsCurrentFiguresCorrect ==
    ASSUME None \notin Built!Pages
    PROVE  Built!Spec => []ShowsCurrentFigures
<1>1. Built!Init => FigureSiteInv
  BY InitFigureSiteInv
<1>2. FigureSiteInv /\ [Built!Next]_(Built!vars) => FigureSiteInv'
  BY NextFigureSiteInv
<1>3. FigureSiteInv => ShowsCurrentFigures
  <2> SUFFICES ASSUME FigureSiteInv PROVE ShowsCurrentFigures
    OBVIOUS
  <2>1. dev.state = "up" /\ ~dev.timer /\ ~missed => dev.digest = Built!Digest
    BY DEF FigureSiteInv, DevInv, Built!Digest
  <2>2. ASSUME Built!SitePasses, site.fresh, ~stirred, NEW i \in DOMAIN page
        PROVE  /\ site.shown[i].html = json[page[i]]
               /\ page[i] \notin own => site.files[page[i]] = svg[page[i]]
    <3>1. site.shown = Html(json, page) /\ site.files = Built!Published
      BY <2>2 DEF FigureSiteInv, SiteInv, RenderedFrom, Built!SitePasses
    <3>2. page[i] \in SiteSlugs
      BY DEF FigureSiteInv, Built!Pages
    <3> QED
      BY <3>1, <3>2 DEF Html, Built!Published
  <2> QED
    BY <2>1, <2>2 DEF ShowsCurrentFigures, Built!ShowsCurrentFigures
<1> QED
  BY <1>1, <1>2, <1>3, PTL DEF Built!Spec

------------------------------------------------------------------------------
(* PrivateLinkScan: any inventories.                                         *)

(* What the model's parameters are: files have a number of links, and None   *)
(* is no number.                                                             *)
File == [trouble : Scan!Troubles, links : Nat]
ScanAssumption == /\ Inventories \subseteq Seq(File)
                  /\ MaxFindings \in Nat
                  /\ None \notin Int

(* The links of the first n files are added up by a recursive function, and  *)
(* there is one, for sequences of any length.                                *)
AreSums(f, s, n) == f = [i \in 0..n |-> IF i = 0 THEN 0 ELSE f[i - 1] + s[i].links]
Sums(s) == CHOOSE f : AreSums(f, s, Len(s))

LEMMA SumsAdd ==
    ASSUME NEW s \in Seq(File)
    PROVE  /\ Sums(s)[0] = 0
           /\ \A i \in 1..Len(s) : Sums(s)[i] = Sums(s)[i - 1] + s[i].links
<1>1. AreSums(Sums(s), s, Len(s))
  <2> DEFINE step == [x \in Nat \X Nat |-> IF x[1] \in 1..Len(s) THEN x[2] + s[x[1]].links ELSE 0]
  <2>1. Len(s) \in Nat /\ \A i \in 1..Len(s) : s[i].links \in Nat
    <3>1. \A i \in 1..Len(s) : s[i] \in File
      OBVIOUS
    <3> QED
      BY <3>1 DEF File
  <2>2. step \in [Nat \X Nat -> Nat]
    BY <2>1
  <2>3. \A i \in 1..Len(s), k \in Nat : step[<<i, k>>] = k + s[i].links
    BY <2>1
  <2> HIDE DEF step
  <2>4. PICK f \in [0..Len(s) -> Nat] : IsRecursive(f, 0, step, Len(s))
    BY <2>1, <2>2, Recursion
  <2>5. ASSUME NEW i \in 0..Len(s) PROVE f[i] = IF i = 0 THEN 0 ELSE f[i - 1] + s[i].links
    <3>1. i # 0 => i \in 1..Len(s) /\ f[i - 1] \in Nat
      BY SMTT(30), <2>1, <2>4
    <3> QED
      BY <2>3, <2>4, <3>1 DEF IsRecursive
  <2>6. f = [i \in 0..Len(s) |-> IF i = 0 THEN 0 ELSE f[i - 1] + s[i].links]
    BY <2>4, <2>5, Zenon
  <2> QED
    BY <2>6 DEF AreSums, Sums
<1>2. ASSUME NEW i \in 0..Len(s)
      PROVE  Sums(s)[i] = IF i = 0 THEN 0 ELSE Sums(s)[i - 1] + s[i].links
  BY <1>1 DEF AreSums
<1> QED
  BY <1>2

LEMMA SumIsLast == Scan!Sum = Sums(files)[Len(files)]
  BY DEF Scan!Sum, Sums, AreSums

Requests == [file : 1..Len(files), limit : Nat]
Answers == [file : Nat, kind : {"error"}] \cup [file : Nat, kind : {"findings"}, found : Nat]
Events == [kind : {"reply"}, answer : Answers] \cup {[kind |-> "error"], [kind |-> "exit"]}

ScanTypeOK ==
    /\ files \in Inventories
    /\ persists \in BOOLEAN
    /\ scanning \in 1..(Len(files) + 1)
    /\ emitted \in 0..MaxFindings
    /\ status \in {None, 0, 1, 2}
    /\ asked # None => asked = scanning /\ scanning <= Len(files)
    /\ armed \in BOOLEAN /\ retired \in BOOLEAN /\ stopFailed \in BOOLEAN
    /\ inbox \in Seq(Requests)
    /\ events \in Seq(Events)
    /\ worker \in Requests \cup {Scan!Idle, Scan!Gone, Scan!Closed}
    /\ answers \in Seq(Answers) /\ Len(answers) = scanning - 1

(* The answer a request for a file should have.                              *)
RightFor(i, answer) ==
    /\ answer \in Answers
    /\ answer.file = i
    /\ answer.kind = "findings" =>
        /\ ~Scan!IsTrouble(files[i])
        /\ answer.found = Scan!Min2(files[i].links, MaxFindings - emitted + 1)

(* A worker that has not been retired has one request at a time, the one     *)
(* that is asked: posted, worked on, or answered; or it died, and says so.   *)
Asked == [file |-> asked, limit |-> MaxFindings - emitted + 1]
Resting == asked = None /\ worker = Scan!Idle /\ inbox = <<>> /\ events = <<>>
Posted == asked # None /\ worker = Scan!Idle /\ inbox = <<Asked>> /\ events = <<>>
WorkedOn == asked # None /\ worker = Asked /\ inbox = <<>> /\ events = <<>>
Answered ==
    /\ asked # None /\ worker = Scan!Idle /\ inbox = <<>>
    /\ \E a \in Answers : events = <<[kind |-> "reply", answer |-> a]>> /\ RightFor(asked, a)
Died == worker = Scan!Gone /\ \A i \in DOMAIN events : events[i].kind # "reply"

OneAtATime ==
    /\ asked # None => ~retired /\ status = None
    /\ armed => asked # None
    /\ worker = Scan!Closed => asked = None /\ status # None
    /\ ~retired /\ worker # Scan!Closed => Resting \/ Posted \/ WorkedOn \/ Answered \/ Died

(* What has been written is what the files scanned so far have, as long as   *)
(* every answer counts; 0 and 1 are set once every file is through.          *)
Counted ==
    /\ Scan!AnswersOwnFile
    /\ ~persists /\ status \in {None, 0, 1} =>
        /\ \A i \in 1..(scanning - 1) : ~Scan!IsTrouble(files[i])
        /\ emitted = Sums(files)[scanning - 1]
    /\ status \in {0, 1} =>
        /\ scanning = Len(files) + 1
        /\ status = 0 <=> emitted = 0
        /\ worker = Scan!Closed

ScanInv == ScanTypeOK /\ OneAtATime /\ Counted

(* What the inventory is made of, and who the worker is told apart from.     *)
LEMMA ScanFacts ==
    ASSUME ScanAssumption, ScanTypeOK
    PROVE  /\ files \in Seq(File) /\ Len(files) \in Nat
           /\ \A i \in 1..Len(files) : files[i] \in File /\ files[i].links \in Nat
           /\ None \notin Nat
           /\ MaxFindings \in Nat /\ MaxFindings - emitted \in Nat
           /\ scanning \in Nat
           /\ Scan!Idle # Scan!Gone /\ Scan!Idle # Scan!Closed /\ Scan!Gone # Scan!Closed
           /\ \A r \in Requests : r # Scan!Idle /\ r # Scan!Gone /\ r # Scan!Closed
           /\ \A a \in Answers : a.kind \in {"error", "findings"} /\ a.file \in Nat
<1>1. files \in Seq(File) /\ None \notin Nat /\ MaxFindings \in Nat /\ emitted \in 0..MaxFindings
  BY DEF ScanAssumption, ScanTypeOK
<1>2. Len(files) \in Nat /\ \A i \in 1..Len(files) : files[i] \in File
  BY <1>1
<1>3. \A i \in 1..Len(files) : files[i].links \in Nat
  BY <1>2 DEF File
<1>4. scanning \in Nat
  BY <1>2 DEF ScanTypeOK
<1>5. MaxFindings - emitted \in Nat
  BY <1>1
<1>6. Scan!Idle # Scan!Gone /\ Scan!Idle # Scan!Closed /\ Scan!Gone # Scan!Closed
  BY DEF Scan!Idle, Scan!Gone, Scan!Closed
<1>7. ASSUME NEW r \in Requests PROVE r # Scan!Idle /\ r # Scan!Gone /\ r # Scan!Closed
  <2>1. r.file # None
    BY <1>1, <1>2 DEF Requests
  <2> QED
    BY <2>1 DEF Scan!Idle, Scan!Gone, Scan!Closed
<1>8. \A a \in Answers : a.kind \in {"error", "findings"} /\ a.file \in Nat
  BY DEF Answers
<1> QED
  BY <1>1, <1>2, <1>3, <1>4, <1>5, <1>6, <1>7, <1>8

LEMMA InitScanInv == ASSUME ScanAssumption, Scan!Init PROVE ScanInv
<1> USE DEF Scan!Init
<1>1. ScanTypeOK
  <2>1. files \in Seq(File) /\ MaxFindings \in Nat
    BY DEF ScanAssumption
  <2>2. Len(files) \in Nat
    BY <2>1
  <2>3. 1 \in 1..(Len(files) + 1) /\ 0 \in 0..MaxFindings
    BY <2>1, <2>2
  <2>4. <<>> \in Seq(Requests) /\ <<>> \in Seq(Events) /\ <<>> \in Seq(Answers) /\ Len(<<>>) = 0
    OBVIOUS
  <2>5. inbox \in Seq(Requests) /\ events \in Seq(Events) /\ answers \in Seq(Answers)
    BY <2>4
  <2>6. Len(answers) = scanning - 1
    BY <2>4
  <2> QED
    BY <2>3, <2>5, <2>6 DEF ScanTypeOK
<1>2. OneAtATime
  BY DEF OneAtATime, Resting, Scan!Idle, Scan!Closed
<1>3. Counted
  BY <1>1, ScanFacts, SumsAdd DEF Counted, Scan!AnswersOwnFile, ScanAssumption
<1> QED
  BY <1>1, <1>2, <1>3 DEF ScanInv

(* An answer to the request for the next file is written down and counted.   *)
LEMMA ReportCounts ==
    ASSUME ScanAssumption, ScanTypeOK, Counted, status = None, scanning <= Len(files),
           NEW a, RightFor(scanning, a), Scan!Report(a), UNCHANGED <<files, persists>>
    PROVE  /\ scanning' = scanning + 1
           /\ emitted' \in 0..MaxFindings
           /\ status' \in {None, 2}
           /\ answers' \in Seq(Answers) /\ Len(answers') = scanning' - 1
           /\ Counted'
<1> USE ScanFacts
<1>1. /\ answers' = Append(answers, a) /\ scanning' = scanning + 1
      /\ a \in Answers /\ a.file = scanning
  BY DEF RightFor, Scan!Report
<1>2. /\ answers' \in Seq(Answers) /\ Len(answers') = scanning' - 1
      /\ \A i \in 1..(scanning - 1) : answers'[i] = answers[i]
      /\ answers'[scanning] = a
      /\ DOMAIN answers' = 1..scanning /\ DOMAIN answers = 1..(scanning - 1)
  BY SMTT(30), <1>1 DEF ScanTypeOK
<1> DEFINE links == files[scanning].links
<1>3. links \in Nat /\ files[scanning] \in File
  BY DEF ScanTypeOK
<1> DEFINE rest == MaxFindings - emitted
<1>4. rest \in Nat /\ rest = Scan!Remaining /\ emitted \in Nat
  BY DEF Scan!Remaining, ScanTypeOK
<1>5. CASE a.kind = "error"
  <2>1. emitted' = emitted /\ status' = IF persists THEN status ELSE 2
    BY <1>5 DEF Scan!Report
  <2>2. Scan!AnswersOwnFile'
    BY <1>1, <1>2, <1>5 DEF Counted, Scan!AnswersOwnFile, Scan!IsTrouble
  <2>3. Counted'
    BY <2>1, <2>2, <1>1 DEF Counted
  <2> QED
    BY <1>1, <1>2, <2>1, <2>3 DEF ScanTypeOK
<1>6. CASE a.kind = "findings"
  <2>1. /\ ~Scan!IsTrouble(files[scanning])
        /\ a.found = IF links < rest + 1 THEN links ELSE rest + 1
    BY <1>6 DEF RightFor, Scan!Min2
  <2>2. /\ emitted' = emitted + (IF a.found < rest THEN a.found ELSE rest)
        /\ status' = IF a.found > rest THEN 2 ELSE status
    BY <1>4, <1>6 DEF Scan!Report, Scan!Min2
  <2>3. a.found \in Nat /\ a.found <= links
    BY <1>3, <1>4, <2>1
  <2>4. Scan!AnswersOwnFile'
    BY SMTT(30), <1>1, <1>2, <1>3, <2>1, <2>3 DEF Counted, Scan!AnswersOwnFile, Scan!IsTrouble
  <2>5. emitted' \in 0..MaxFindings
    <3> HIDE DEF links
    <3> QED
      BY <1>4, <2>2, <2>3
  <2>6. status' \in {None, 2}
    BY <2>2
  <2>7. ASSUME ~persists', status' \in {None, 0, 1}
        PROVE  /\ \A i \in 1..(scanning' - 1) : ~Scan!IsTrouble(files[i])
               /\ emitted' = Sums(files)[scanning' - 1]
    <3>1. a.found = links /\ emitted' = emitted + links
      BY SMTT(30), <1>3, <1>4, <2>1, <2>2, <2>3, <2>7
    <3>2. /\ \A i \in 1..(scanning - 1) : ~Scan!IsTrouble(files[i])
          /\ emitted = Sums(files)[scanning - 1]
      BY <2>7 DEF Counted
    <3>3. Sums(files)[scanning] = Sums(files)[scanning - 1] + links
      BY SMTT(30), SumsAdd DEF ScanTypeOK
    <3> QED
      BY SMTT(30), <1>1, <2>1, <3>1, <3>2, <3>3
  <2>8. Counted'
    <3>1. status' \notin {0, 1}
      BY <2>6
    <3>2. files' = files
      OBVIOUS
    <3> QED
      BY <2>4, <2>7, <3>1, <3>2 DEF Counted, Scan!IsTrouble
  <2> QED
    BY <1>1, <1>2, <2>5, <2>6, <2>8
<1> QED
  BY <1>1, <1>5, <1>6

(* With the answer to the request that is asked, the worker is at rest.      *)
LEMMA SettleCounts ==
    ASSUME ScanAssumption, ScanInv, NEW a, asked # None => RightFor(asked, a), Scan!Settle(a),
           UNCHANGED <<files, persists>>
    PROVE  /\ asked' = None
           /\ scanning' \in 1..(Len(files) + 1)
           /\ emitted' \in 0..MaxFindings
           /\ status' \in {None, 0, 1, 2}
           /\ status # None => status' = status
           /\ armed' = FALSE
           /\ answers' \in Seq(Answers) /\ Len(answers') = scanning' - 1
           /\ worker' = worker \/ worker # Scan!Closed => Counted'
<1> USE DEF ScanInv
<1>1. CASE asked = None
  <2>1. UNCHANGED <<asked, armed, answers, scanning, emitted, status>> /\ ~armed
    BY <1>1 DEF Scan!Settle, OneAtATime
  <2>2. status \in {0, 1} => worker = Scan!Closed
    BY DEF Counted
  <2>3. worker' = worker \/ worker # Scan!Closed => Counted'
    BY <2>1, <2>2 DEF Counted, Scan!AnswersOwnFile, Scan!IsTrouble
  <2> QED
    BY <1>1, <2>1, <2>3 DEF ScanTypeOK
<1>2. CASE asked # None
  <2>1. /\ asked' = None /\ armed' = FALSE /\ Scan!Report(a)
        /\ status = None /\ asked = scanning /\ scanning <= Len(files)
    BY <1>2 DEF Scan!Settle, OneAtATime, ScanTypeOK
  <2>2. /\ scanning' = scanning + 1
        /\ emitted' \in 0..MaxFindings
        /\ status' \in {None, 2}
        /\ answers' \in Seq(Answers) /\ Len(answers') = scanning' - 1
        /\ Counted'
    BY <1>2, <2>1, ReportCounts
  <2>3. scanning' \in 1..(Len(files) + 1)
    BY <2>1, <2>2, ScanFacts DEF ScanTypeOK
  <2> QED
    BY <2>1, <2>2, <2>3
<1> QED
  BY <1>1, <1>2

LEMMA ErrorIsRight ==
    ASSUME ScanAssumption, ScanTypeOK, NEW i \in 1..Len(files)
    PROVE  RightFor(i, Scan!Error(i))
  BY ScanFacts DEF RightFor, Scan!Error, Answers

LEMMA NextScanInv ==
    ASSUME ScanAssumption, ScanInv, [Scan!Next]_(Scan!vars)
    PROVE  ScanInv'
<1> USE ScanFacts DEF ScanInv
<1>1. CASE Scan!Scan
  <2>1. /\ status = None /\ asked = None /\ scanning \in 1..Len(files)
        /\ UNCHANGED <<files, persists, retired, stopFailed, events, worker>>
        /\ worker # Scan!Closed /\ ~armed
    BY <1>1 DEF Scan!Scan, ScanTypeOK, OneAtATime
  <2>2. CASE retired
    <3>1. Scan!Report(Scan!Error(scanning)) /\ UNCHANGED <<asked, armed, inbox>>
      BY <1>1, <2>2 DEF Scan!Scan
    <3>2. RightFor(scanning, Scan!Error(scanning))
      BY <2>1, ErrorIsRight
    <3>3. /\ scanning' = scanning + 1
          /\ emitted' \in 0..MaxFindings
          /\ status' \in {None, 2}
          /\ answers' \in Seq(Answers) /\ Len(answers') = scanning' - 1
          /\ Counted'
      BY <2>1, <3>1, <3>2, ReportCounts
    <3>4. ScanTypeOK'
      BY <2>1, <3>1, <3>3 DEF ScanTypeOK, Requests
    <3>5. OneAtATime'
      BY <2>1, <2>2, <3>1 DEF OneAtATime
    <3> QED
      BY <3>3, <3>4, <3>5
  <2>3. CASE ~retired
    <3>1. /\ asked' = scanning /\ armed' = TRUE
          /\ inbox' = Append(inbox, [file |-> scanning, limit |-> MaxFindings - emitted + 1])
          /\ UNCHANGED <<answers, scanning, emitted, status>>
      BY <1>1, <2>3 DEF Scan!Scan, Scan!TimerSet, Scan!Limit, Scan!Remaining
    <3>2. [file |-> scanning, limit |-> MaxFindings - emitted + 1] \in Requests
      BY <2>1 DEF Requests
    <3>3. ScanTypeOK'
      <4>1. inbox' \in Seq(Requests)
        BY <3>1, <3>2 DEF ScanTypeOK
      <4> QED
        BY <2>1, <3>1, <4>1 DEF ScanTypeOK, Requests
    <3>4. OneAtATime'
      <4>1. CASE Resting
        <5>1. Posted'
          BY <2>1, <3>1, <4>1 DEF Resting, Posted, Asked, Scan!Idle
        <5> QED
          BY <2>1, <2>3, <3>1, <5>1 DEF OneAtATime
      <4>2. CASE Died
        <5>1. Died'
          BY <2>1, <4>2 DEF Died
        <5> QED
          BY <2>1, <2>3, <3>1, <5>1 DEF OneAtATime
      <4>3. Resting \/ Died
        BY <2>1, <2>3 DEF OneAtATime, Posted, WorkedOn, Answered
      <4> QED
        BY <4>1, <4>2, <4>3
    <3>5. Counted'
      BY <2>1, <3>1 DEF Counted, Scan!AnswersOwnFile, Scan!IsTrouble
    <3> QED
      BY <3>3, <3>4, <3>5
  <2> QED
    BY <2>2, <2>3
<1>2. CASE Scan!Expire
  <2>1. /\ asked \in 1..Len(files) /\ asked # None /\ status = None /\ worker # Scan!Closed
        /\ retired' = TRUE
        /\ Scan!Settle(Scan!Error(asked))
        /\ stopFailed' \in BOOLEAN
        /\ worker' \in {worker, Scan!Gone}
        /\ events' \in {events, Append(events, [kind |-> "exit"])}
        /\ UNCHANGED <<files, persists, inbox>>
    BY <1>2 DEF Scan!Expire, Scan!Retire, OneAtATime, ScanTypeOK
  <2>2. RightFor(asked, Scan!Error(asked))
    BY <2>1, ErrorIsRight
  <2>3. /\ asked' = None
        /\ scanning' \in 1..(Len(files) + 1)
        /\ emitted' \in 0..MaxFindings
        /\ status' \in {None, 0, 1, 2}
        /\ armed' = FALSE
        /\ answers' \in Seq(Answers) /\ Len(answers') = scanning' - 1
        /\ Counted'
    BY <2>1, <2>2, SettleCounts
  <2>4. events' \in Seq(Events)
    <3>1. events \in Seq(Events) /\ [kind |-> "exit"] \in Events
      BY DEF ScanTypeOK, Events
    <3>2. Append(events, [kind |-> "exit"]) \in Seq(Events)
      BY <3>1
    <3> QED
      BY <2>1, <3>1, <3>2
  <2>5. ScanTypeOK'
    BY <2>1, <2>3, <2>4 DEF ScanTypeOK, Requests
  <2>6. OneAtATime'
    BY <2>1, <2>3 DEF OneAtATime
  <2> QED
    BY <2>3, <2>5, <2>6
<1>3. CASE Scan!Deliver
  <2> DEFINE posted == Head(events)
             a == CASE posted.kind = "reply" -> posted.answer [] OTHER -> Scan!Error(asked)
  <2>1. /\ events # <<>> /\ events' = Tail(events)
        /\ Scan!Settle(a)
        /\ retired' = (retired \/ posted.kind = "exit")
        /\ UNCHANGED <<files, persists, stopFailed, inbox, worker>>
    BY <1>3 DEF Scan!Deliver
  <2>2. /\ events' \in Seq(Events) /\ posted \in Events /\ posted = events[1]
        /\ 1 \in DOMAIN events
        /\ \A i \in DOMAIN events' : i + 1 \in DOMAIN events /\ events'[i] = events[i + 1]
    BY <2>1 DEF ScanTypeOK
  <2>3. ASSUME asked # None PROVE RightFor(asked, a)
    <3>1. asked \in 1..Len(files)
      BY <2>3 DEF ScanTypeOK
    <3>2. CASE posted.kind = "reply"
      <4>1. Answered
        BY <2>1, <2>2, <2>3, <3>2 DEF OneAtATime, Resting, Posted, WorkedOn, Died
      <4> QED
        BY <2>2, <3>2, <4>1 DEF Answered
    <3>3. CASE posted.kind # "reply"
      BY <3>1, <3>3, ErrorIsRight
    <3> QED
      BY <3>2, <3>3
  <2> HIDE DEF a
  <2>4. /\ asked' = None
        /\ scanning' \in 1..(Len(files) + 1)
        /\ emitted' \in 0..MaxFindings
        /\ status' \in {None, 0, 1, 2}
        /\ status # None => status' = status
        /\ armed' = FALSE
        /\ answers' \in Seq(Answers) /\ Len(answers') = scanning' - 1
        /\ Counted'
    BY <2>1, <2>3, SettleCounts
  <2>5. ScanTypeOK'
    BY <2>1, <2>2, <2>4 DEF ScanTypeOK, Requests
  <2>6. OneAtATime'
    <3>1. ASSUME ~retired', worker # Scan!Closed PROVE Resting' \/ Died'
      <4>1. CASE Answered
        <5>1. events' = <<>>
          BY <2>1, <4>1 DEF Answered
        <5> QED
          BY <2>1, <2>4, <4>1, <5>1 DEF Answered, Resting, Scan!Idle
      <4>2. CASE Died
        BY <2>1, <2>2, <4>2 DEF Died
      <4> QED
        BY <2>1, <3>1, <4>1, <4>2 DEF OneAtATime, Resting, Posted, WorkedOn
    <3> QED
      BY <2>1, <2>4, <3>1 DEF OneAtATime
  <2> QED
    BY <2>4, <2>5, <2>6
<1>4. CASE Scan!Close
  <2>1. /\ worker # Scan!Closed /\ asked = None
        /\ status # None \/ scanning > Len(files)
        /\ status' = IF stopFailed THEN 2 ELSE IF status = None THEN Scan!Outcome ELSE status
        /\ worker' = Scan!Closed /\ inbox' = <<>> /\ events' = <<>>
        /\ UNCHANGED <<files, persists, scanning, emitted, asked, armed, retired, stopFailed, answers>>
    BY <1>4 DEF Scan!Close
  <2>2. status \in {None, 2} /\ (status = None => scanning = Len(files) + 1) /\ ~armed
    BY <2>1 DEF Counted, ScanTypeOK, OneAtATime
  <2>3. /\ status' \in {0, 1, 2}
        /\ status' \in {0, 1} => status = None /\ (status' = 0 <=> emitted = 0)
    BY <2>1, <2>2 DEF Scan!Outcome
  <2>4. ScanTypeOK'
    BY <2>1, <2>3 DEF ScanTypeOK, Requests
  <2>5. OneAtATime'
    BY <2>1, <2>2, <2>3 DEF OneAtATime, Scan!Closed
  <2>6. Counted'
    BY <2>1, <2>2, <2>3 DEF Counted, Scan!AnswersOwnFile, Scan!IsTrouble, Scan!Closed
  <2> QED
    BY <2>4, <2>5, <2>6
<1>5. CASE Scan!Take
  <2>1. /\ worker = Scan!Idle /\ inbox # <<>>
        /\ worker' = Head(inbox) /\ inbox' = Tail(inbox)
        /\ UNCHANGED <<files, persists, scanning, emitted, status, asked, armed, retired,
                       stopFailed, events, answers>>
    BY <1>5 DEF Scan!Take
  <2>2. Head(inbox) \in Requests /\ Tail(inbox) \in Seq(Requests)
    BY <2>1 DEF ScanTypeOK
  <2>3. ScanTypeOK'
    BY <2>1, <2>2 DEF ScanTypeOK, Requests
  <2>4. OneAtATime'
    <3>1. ASSUME ~retired PROVE WorkedOn'
      <4>1. Posted
        BY <2>1, <3>1 DEF OneAtATime, Resting, WorkedOn, Answered, Died
      <4>2. worker' = Asked /\ inbox' = <<>>
        BY <2>1, <4>1 DEF Posted
      <4> QED
        BY <2>1, <4>1, <4>2 DEF Posted, WorkedOn, Asked
    <3>2. worker' # Scan!Closed
      BY <2>1, <2>2
    <3> QED
      BY <2>1, <3>1, <3>2 DEF OneAtATime, Scan!Closed
  <2>5. Counted'
    BY <2>1, <2>2 DEF Counted, Scan!AnswersOwnFile, Scan!IsTrouble
  <2> QED
    BY <2>3, <2>4, <2>5
<1>6. CASE Scan!Reply
  <2> DEFINE it == files[worker.file]
             a == IF Scan!IsTrouble(it) THEN Scan!Error(worker.file)
                  ELSE Scan!Findings(worker.file, Scan!Min2(it.links, worker.limit))
  <2>1. /\ worker \in Requests
        /\ events' = Append(events, [kind |-> "reply", answer |-> a])
        /\ worker' = Scan!Idle
        /\ UNCHANGED <<files, persists, scanning, emitted, status, asked, armed, retired,
                       stopFailed, inbox, answers>>
    BY <1>6 DEF Scan!Reply, Scan!Working, ScanTypeOK
  <2>2. worker.file \in 1..Len(files) /\ worker.limit \in Nat /\ it.links \in Nat
    BY <2>1 DEF Requests
  <2>3. a \in Answers
    BY <2>2 DEF Answers, Scan!Error, Scan!Findings, Scan!Min2
  <2>4. PICK b \in Answers : b = a /\ (worker = Asked => RightFor(asked, b))
    <3>1. ASSUME worker = Asked PROVE RightFor(asked, a)
      BY <2>2, <2>3, <3>1 DEF RightFor, Asked, Scan!Error, Scan!Findings
    <3> QED
      BY <2>3, <3>1
  <2> HIDE DEF a
  <2>5. events' \in Seq(Events)
    BY <2>1, <2>3 DEF Events, ScanTypeOK
  <2>6. ScanTypeOK'
    BY <2>1, <2>5 DEF ScanTypeOK, Requests
  <2>7. OneAtATime'
    <3>1. worker # Scan!Idle /\ worker # Scan!Gone /\ worker # Scan!Closed
      BY <2>1
    <3>2. ASSUME ~retired PROVE Answered'
      <4>1. WorkedOn
        BY <3>1, <3>2 DEF OneAtATime, Resting, Posted, Answered, Died
      <4>2. events' = <<[kind |-> "reply", answer |-> b]>>
        BY <2>1, <2>4, <4>1 DEF WorkedOn
      <4>3. RightFor(asked, b)'
        BY <2>1, <2>4, <4>1 DEF WorkedOn, RightFor, Answers, Scan!IsTrouble
      <4>4. asked' # None /\ worker' = Scan!Idle /\ inbox' = <<>>
        BY <2>1, <4>1 DEF WorkedOn
      <4> QED
        BY <2>4, <4>2, <4>3, <4>4 DEF Answered, Scan!Idle, Answers
    <3> QED
      BY <2>1, <3>1, <3>2 DEF OneAtATime
  <2>8. Counted'
    BY <2>1 DEF Counted, Scan!AnswersOwnFile, Scan!IsTrouble
  <2> QED
    BY <2>6, <2>7, <2>8
<1>7. CASE Scan!RunOut
  <2>1. /\ worker \in Requests
        /\ events' = events \o <<[kind |-> "error"], [kind |-> "exit"]>>
        /\ worker' = Scan!Gone
        /\ UNCHANGED <<files, persists, scanning, emitted, status, asked, armed, retired,
                       stopFailed, inbox, answers>>
    BY <1>7 DEF Scan!RunOut, Scan!Working, ScanTypeOK
  <2>2. ScanTypeOK'
    <3>1. events' \in Seq(Events)
      BY <2>1 DEF Events, ScanTypeOK
    <3> QED
      BY <2>1, <3>1 DEF ScanTypeOK, Requests
  <2>3. OneAtATime'
    <3>1. worker # Scan!Idle /\ worker # Scan!Gone /\ worker # Scan!Closed
      BY <2>1
    <3>2. ASSUME ~retired PROVE Died'
      <4>1. events = <<>>
        BY <3>1, <3>2 DEF OneAtATime, Resting, Posted, Answered, Died, WorkedOn
      <4>2. events' = <<[kind |-> "error"], [kind |-> "exit"]>>
        BY <2>1, <4>1
      <4>3. ASSUME NEW i \in DOMAIN events' PROVE events'[i].kind # "reply"
        <5>1. i = 1 \/ i = 2
          BY <4>2
        <5> QED
          BY <4>2, <5>1
      <4> QED
        BY <2>1, <4>3 DEF Died, Scan!Gone
    <3> QED
      BY <2>1, <3>1, <3>2 DEF OneAtATime
  <2>4. Counted'
    BY <2>1 DEF Counted, Scan!AnswersOwnFile, Scan!IsTrouble
  <2> QED
    BY <2>2, <2>3, <2>4
<1>8. CASE UNCHANGED Scan!vars
  BY <1>8 DEF Scan!vars, ScanTypeOK, OneAtATime, Counted, Requests, Resting, Posted, WorkedOn,
              Answered, Died, Asked, RightFor, Answers, Scan!AnswersOwnFile, Scan!IsTrouble,
              Scan!Idle, Scan!Gone, Scan!Closed
<1> QED
  BY <1>1, <1>2, <1>3, <1>4, <1>5, <1>6, <1>7, <1>8 DEF Scan!Next

(* The safety half of what the run checks: an answer is about the file asked *)
(* for, and an exit status of 0 or 1 means that every file was scanned and   *)
(* that each of its links is written out, however deadlines, deaths of the   *)
(* worker and late replies interleave.                                       *)
THEOREM RuleIsTrueCorrect ==
    ASSUME ScanAssumption
    PROVE  Scan!Spec => []Scan!RuleIsTrue
<1>1. Scan!Init => ScanInv
  BY InitScanInv
<1>2. ScanInv /\ [Scan!Next]_(Scan!vars) => ScanInv'
  BY NextScanInv
<1>3. ScanInv => Scan!RuleIsTrue
  <2> SUFFICES ASSUME ScanInv PROVE Scan!RuleVerdict
    BY DEF ScanInv, Counted, Scan!RuleIsTrue
  <2>1. emitted <= MaxFindings /\ Len(files) \in Nat /\ DOMAIN files = 1..Len(files)
    BY ScanFacts DEF ScanInv, ScanTypeOK
  <2>2. ASSUME status \in {0, 1}, ~persists
        PROVE  /\ \A i \in DOMAIN files : ~Scan!IsTrouble(files[i])
               /\ emitted = Scan!Sum /\ (status = 0 <=> emitted = 0)
    BY <2>1, <2>2, SumIsLast DEF ScanInv, Counted
  <2> QED
    BY <2>1, <2>2 DEF Scan!RuleVerdict
<1> QED
  BY <1>1, <1>2, <1>3, PTL DEF Scan!Spec

------------------------------------------------------------------------------
(* Figures: any number of figures, of what their specs say and of engines.   *)

(* What the model's parameters are: only what a spec can say is invalid, and *)
(* None is neither that nor a file.                                          *)
FiguresAssumption ==
    /\ Invalid \subseteq Specs /\ None \notin Specs
    /\ \A c : Drawn!Clean(c) # None

Figs == 1..Count

(* A rendering as a build writes it: of a spec that is valid, and the one    *)
(* whose bytes were hashed unless it was edited between the two reads.       *)
Draws(r, s, edited) ==
    /\ r = [spec |-> r.spec, drawn |-> r.drawn, engine |-> r.engine, vendor |-> r.vendor]
    /\ r.vendor \in Commits
    /\ Drawn!Valid(r.drawn)
    /\ s \notin edited => r.spec = r.drawn

(* What is on disk was rendered, and no image's content is its own after it  *)
(* was touched; a build renders with the vendored copy it has read, and the  *)
(* bytes it holds are those of the spec unless it is edited right now.       *)
IsFile(output) == output = [content |-> output.content, touched |-> output.touched]
Disk ==
    /\ disk = [s \in Figs |-> [f \in Drawn!Outputs |-> disk[s][f]]]
    /\ \A s \in Figs, f \in Drawn!Outputs : disk[s][f] # None => IsFile(disk[s][f])
    /\ \A s \in Figs : disk[s]["json"] # None => Draws(disk[s]["json"].content, s, gaps)
Job ==
    /\ job = [step |-> job.step, left |-> job.left, bytes |-> job.bytes, out |-> job.out,
              errors |-> job.errors, engine |-> job.engine, vendor |-> job.vendor,
              todo |-> job.todo]
    /\ job.out = [s \in Figs |-> job.out[s]]
    /\ job.step # "idle" => job.vendor \in Commits
    /\ \A s \in Figs : job.out[s] # None => Draws(job.out[s], s, gaps)
    /\ job.step = "loading" /\ Head(job.left) \in Figs \ gaps => job.bytes = specs[Head(job.left)]
FiguresInv ==
    /\ vendor \in Commits
    /\ specs = [s \in Figs |-> specs[s]]
    /\ Disk /\ Job

LEMMA RenderingFields ==
    ASSUME NEW r
    PROVE  /\ Drawn!Rendering(r)["json"] = r
           /\ Drawn!Rendering(r)["svg"] = Drawn!Image(r)
           /\ Drawn!Rendering(r)["static"] = Drawn!Image(r)
           /\ DOMAIN Drawn!Rendering(r) = Drawn!Outputs
  BY DEF Drawn!Rendering, Drawn!Outputs

LEMMA DrawsMore ==
    ASSUME NEW r, NEW s, NEW few, NEW many, few \subseteq many, Draws(r, s, few)
    PROVE  Draws(r, s, many)
  BY DEF Draws

LEMMA InitFiguresInv == ASSUME FiguresAssumption, Drawn!Init PROVE FiguresInv
<1>1. vendor \in Commits /\ specs = [s \in Figs |-> specs[s]] /\ job = Drawn!IdleJob
  BY DEF Drawn!Init, Drawn!Slugs, Figs
<1>2. Job
  BY <1>1 DEF Job, Drawn!IdleJob, Drawn!Slugs, Figs
<1>3. Disk
  <2>1. CASE disk = [s \in Figs |-> Drawn!NoOutputs]
    BY <2>1 DEF Disk, Drawn!NoOutputs, Drawn!Outputs
  <2>2. CASE disk # [s \in Figs |-> Drawn!NoOutputs]
    <3>1. PICK v \in {v \in Specs : Drawn!Valid(v)} :
              disk = [s \in Figs |-> [f \in Drawn!Outputs |->
                         Drawn!Clean(Drawn!Rendering([spec |-> v, drawn |-> v, engine |-> engine,
                                                      vendor |-> vendor])[f])]]
      BY <2>2 DEF Drawn!Init, Drawn!Slugs, Figs
    <3> DEFINE r == [spec |-> v, drawn |-> v, engine |-> engine, vendor |-> vendor]
    <3>2. \A s \in Figs, f \in Drawn!Outputs : disk[s][f] = Drawn!Clean(Drawn!Rendering(r)[f])
      BY <3>1
    <3>3. \A s \in Figs : disk[s]["json"] = Drawn!Clean(r)
      BY <3>2, RenderingFields DEF Drawn!Outputs
    <3>4. \A s : Draws(r, s, gaps)
      BY <1>1, <3>1 DEF Draws
    <3> HIDE DEF r
    <3>5. disk = [s \in Figs |-> [f \in Drawn!Outputs |-> disk[s][f]]]
      BY <3>1
    <3>6. \A s \in Figs, f \in Drawn!Outputs : IsFile(disk[s][f])
      <4>1. \A c : IsFile(Drawn!Clean(c))
        BY DEF IsFile, Drawn!Clean
      <4> QED
        BY <3>2, <4>1
    <3>7. \A s \in Figs : disk[s]["json"].content = r
      BY <3>3 DEF Drawn!Clean
    <3> QED
      BY <3>4, <3>5, <3>6, <3>7 DEF Disk
  <2> QED
    BY <2>1, <2>2
<1> QED
  BY <1>1, <1>2, <1>3 DEF FiguresInv

(* A build that is over, or that goes on with the renderings it had.         *)
LEMMA JobGoesOn ==
    ASSUME FiguresInv, UNCHANGED <<specs, gaps>>,
           \/ job' = Drawn!IdleJob
           \/ /\ job' = [step |-> job'.step, left |-> job'.left, bytes |-> job'.bytes,
                         out |-> job.out, errors |-> job'.errors, engine |-> job.engine,
                         vendor |-> job.vendor, todo |-> job'.todo]
              /\ job.step # "idle"
              /\ job'.step = "loading" => job'.bytes = specs[Head(job'.left)]
    PROVE  Job'
<1>1. CASE job' = Drawn!IdleJob
  BY <1>1 DEF Job, Drawn!IdleJob, Drawn!Slugs, Figs
<1>2. CASE job' # Drawn!IdleJob
  BY <1>2 DEF Job, FiguresInv
<1> QED
  BY <1>1, <1>2

LEMMA NextFiguresInv ==
    ASSUME FiguresAssumption, FiguresInv, [Drawn!Next]_(Drawn!vars)
    PROVE  FiguresInv'
<1> USE DEF FiguresInv
<1>1. ASSUME NEW s \in Drawn!Slugs, Drawn!EditSpec(s) PROVE FiguresInv'
  <2>1. PICK v : specs' = [specs EXCEPT ![s] = v]
    BY <1>1 DEF Drawn!EditSpec
  <2>2. /\ gaps \subseteq gaps'
        /\ job.step = "loading" /\ Head(job.left) = s => s \in gaps'
        /\ UNCHANGED <<engine, vendor, disk, fences, blocks, job>>
    BY <1>1 DEF Drawn!EditSpec, Drawn!pages
  <2>3. specs' = [t \in Figs |-> specs'[t]] /\ \A t \in Figs : t # s => specs'[t] = specs[t]
    BY <2>1
  <2>4. Disk'
    BY <2>2, DrawsMore DEF Disk
  <2>5. Job'
    BY <2>2, <2>3, DrawsMore DEF Job
  <2> QED
    BY <2>2, <2>3, <2>4, <2>5
<1>2. ASSUME NEW s \in Drawn!Slugs, NEW f \in Drawn!Outputs, Drawn!Touch(s, f) PROVE FiguresInv'
  <2>1. UNCHANGED <<specs, engine, vendor, fences, blocks, job, gaps>> /\ disk[s][f] # None
    BY <1>2 DEF Drawn!Touch, Drawn!sources, Drawn!pages
  <2>2. /\ s \in Figs
        /\ disk = [t \in Figs |-> [g \in Drawn!Outputs |-> disk[t][g]]]
        /\ disk[s][f] = [content |-> disk[s][f].content, touched |-> disk[s][f].touched]
    BY <2>1 DEF Disk, IsFile, Drawn!Slugs, Figs
  <2>3. PICK output : /\ disk' = [disk EXCEPT ![s][f] = output]
                      /\ output = None \/ \E t : output = [content |-> disk[s][f].content, touched |-> t]
    <3>1. CASE disk' = [disk EXCEPT ![s][f] = None]
      BY <3>1
    <3>2. ASSUME NEW t \in Drawn!Touches(f), disk' = [disk EXCEPT ![s][f].touched = t]
          PROVE  disk' = [disk EXCEPT ![s][f] = [content |-> disk[s][f].content, touched |-> t]]
      <4>1. [disk[s][f] EXCEPT !.touched = t] = [content |-> disk[s][f].content, touched |-> t]
        BY <2>2
      <4> QED
        BY <3>2, <4>1
    <3> QED
      BY <1>2, <3>1, <3>2 DEF Drawn!Touch
  <2>4. /\ disk' = [t \in Figs |-> [g \in Drawn!Outputs |-> disk'[t][g]]]
        /\ \A t \in Figs, g \in Drawn!Outputs :
               disk'[t][g] = IF t = s /\ g = f THEN output ELSE disk[t][g]
    BY ZenonT(50), <2>2, <2>3
  <2>5. Disk'
    <3>1. output # None => IsFile(output) /\ output.content = disk[s][f].content
      BY <2>3 DEF IsFile
    <3>2. \A t \in Figs, g \in Drawn!Outputs : disk'[t][g] # None => IsFile(disk'[t][g])
      BY <2>4, <3>1 DEF Disk
    <3>3. ASSUME NEW t \in Figs, disk'[t]["json"] # None
          PROVE  Draws(disk'[t]["json"].content, t, gaps)
      <4>1. disk[t]["json"] # None /\ disk'[t]["json"].content = disk[t]["json"].content
        BY <2>1, <2>4, <3>1, <3>3 DEF Drawn!Outputs
      <4> QED
        BY <4>1 DEF Disk
    <3> QED
      BY <2>1, <2>4, <3>2, <3>3 DEF Disk
  <2>6. Job'
    BY <2>1 DEF Job
  <2> QED
    BY <2>1, <2>5, <2>6
<1>3. CASE Drawn!EditEngine
  BY <1>3 DEF Drawn!EditEngine, Drawn!pages, Disk, Job
<1>4. CASE Drawn!EditPage \/ Drawn!Refresh
  BY <1>4 DEF Drawn!EditPage, Drawn!Refresh, Drawn!sources, Disk, Job
<1>5. CASE Drawn!StartBuild
  <2>1. /\ job' = [Drawn!IdleJob EXCEPT !.step = "reading", !.engine = engine, !.vendor = vendor,
                                        !.left = Drawn!Sorted({s \in Drawn!Slugs : specs[s] # None})]
        /\ UNCHANGED <<specs, engine, vendor, disk, gaps>>
    BY <1>5 DEF Drawn!StartBuild, Drawn!sources
  <2>2. Job'
    BY <2>1 DEF Job, Drawn!IdleJob, Drawn!Slugs, Figs
  <2> QED
    BY <2>1, <2>2 DEF Disk
<1>6. CASE Drawn!ReadSpec
  <2>1. /\ job.step = "reading" /\ UNCHANGED <<specs, engine, vendor, disk, gaps>>
        /\ job' = IF specs[Head(job.left)] = None THEN Drawn!IdleJob
                  ELSE [job EXCEPT !.step = "loading", !.bytes = specs[Head(job.left)]]
    BY <1>6 DEF Drawn!ReadSpec, Drawn!sources
  <2>2. Job'
    BY <2>1, JobGoesOn DEF Job
  <2> QED
    BY <2>1, <2>2 DEF Disk
<1>7. CASE Drawn!LoadSpec
  <2> DEFINE s == Head(job.left)
             rendering == [spec |-> job.bytes, drawn |-> specs[s],
                           engine |-> job.engine, vendor |-> job.vendor]
  <2>1. /\ job.step = "loading" /\ UNCHANGED <<specs, engine, vendor, disk, gaps>>
        /\ \/ job' = Drawn!IdleJob
           \/ job' = [job EXCEPT !.step = "reading", !.left = Tail(@), !.bytes = None,
                                 !.errors = TRUE]
           \/ /\ Drawn!Valid(specs[s])
              /\ job' = [job EXCEPT !.step = "reading", !.left = Tail(@), !.bytes = None,
                                    !.out[s] = rendering]
    BY <1>7 DEF Drawn!LoadSpec, Drawn!sources, Job
  <2>2. CASE Drawn!Valid(specs[s]) /\ job' = [job EXCEPT !.step = "reading", !.left = Tail(@),
                                                         !.bytes = None, !.out[s] = rendering]
    <3>1. /\ job' = [step |-> "reading", left |-> Tail(job.left), bytes |-> None,
                     out |-> [job.out EXCEPT ![s] = rendering], errors |-> job.errors,
                     engine |-> job.engine, vendor |-> job.vendor, todo |-> job.todo]
      BY <2>2 DEF Job
    <3>2. s \in Figs => Draws(rendering, s, gaps)
      BY <2>1, <2>2 DEF Draws, Job
    <3> HIDE DEF rendering
    <3>3. \A t \in Figs : job'.out[t] = IF t = s THEN rendering ELSE job.out[t]
      BY <3>1 DEF Job
    <3>4. job'.out = [t \in Figs |-> job'.out[t]]
      BY <3>1 DEF Job
    <3>5. \A t \in Figs : job'.out[t] # None => Draws(job'.out[t], t, gaps)
      BY <3>2, <3>3 DEF Job
    <3>6. Job'
      BY <2>1, <3>1, <3>4, <3>5 DEF Job
    <3> QED
      BY <2>1, <3>6 DEF Disk
  <2>3. CASE ~(Drawn!Valid(specs[s]) /\ job' = [job EXCEPT !.step = "reading", !.left = Tail(@),
                                                           !.bytes = None, !.out[s] = rendering])
    <3>1. Job'
      BY <2>1, <2>3, JobGoesOn DEF Job
    <3> QED
      BY <2>1, <3>1 DEF Disk
  <2> QED
    BY <2>2, <2>3
<1>8. CASE Drawn!Rendered \/ Drawn!EndBuild
  <2>1. UNCHANGED <<specs, engine, vendor, disk, gaps>>
    BY <1>8 DEF Drawn!Rendered, Drawn!EndBuild, Drawn!sources
  <2>2. job' = Drawn!IdleJob \/ \E t : job' = [job EXCEPT !.step = "writing", !.todo = t]
    BY <1>8 DEF Drawn!Rendered, Drawn!EndBuild
  <2>3. job.step # "idle"
    BY <1>8 DEF Drawn!Rendered, Drawn!EndBuild
  <2>4. Job'
    BY <2>1, <2>2, <2>3, JobGoesOn DEF Job
  <2> QED
    BY <2>1, <2>4 DEF Disk
<1>9. CASE Drawn!WriteOutput
  <2> DEFINE s == Head(job.todo)[1]
             f == Head(job.todo)[2]
             output == IF job.out[s] = None THEN None ELSE Drawn!Clean(Drawn!Rendering(job.out[s])[f])
  <2>1. /\ disk' = [disk EXCEPT ![s][f] = output]
        /\ job' = [job EXCEPT !.todo = Tail(@)] /\ job.step = "writing"
        /\ UNCHANGED <<specs, engine, vendor, fences, blocks, gaps>>
    BY <1>9 DEF Drawn!WriteOutput, Drawn!sources, Drawn!pages
  <2>2. disk = [t \in Figs |-> [g \in Drawn!Outputs |-> disk[t][g]]]
    BY DEF Disk
  <2>3. s \in Figs /\ f = "json" /\ output # None =>
            output = Drawn!Clean(job.out[s]) /\ Draws(job.out[s], s, gaps)
    BY RenderingFields DEF Job
  <2>4. output # None => IsFile(output)
    BY DEF IsFile, Drawn!Clean
  <2> HIDE DEF output, s, f
  <2>5. /\ disk' = [t \in Figs |-> [g \in Drawn!Outputs |-> disk'[t][g]]]
        /\ \A t \in Figs, g \in Drawn!Outputs :
               disk'[t][g] = IF t = s /\ g = f THEN output ELSE disk[t][g]
    BY ZenonT(50), <2>1, <2>2
  <2>6. Disk'
    <3>1. \A t \in Figs, g \in Drawn!Outputs : disk'[t][g] # None => IsFile(disk'[t][g])
      BY <2>4, <2>5 DEF Disk
    <3>2. ASSUME NEW t \in Figs, disk'[t]["json"] # None
          PROVE  Draws(disk'[t]["json"].content, t, gaps)
      <4>1. CASE t = s /\ f = "json"
        BY <2>3, <2>5, <3>2, <4>1 DEF Drawn!Clean, Drawn!Outputs
      <4>2. CASE ~(t = s /\ f = "json")
        BY <2>5, <3>2, <4>2 DEF Disk, Drawn!Outputs
      <4> QED
        BY <4>1, <4>2
    <3> QED
      BY <2>1, <2>5, <3>1, <3>2 DEF Disk
  <2>7. Job'
    BY <2>1, JobGoesOn DEF Job
  <2> QED
    BY <2>1, <2>6, <2>7
<1>10. CASE UNCHANGED Drawn!vars
  BY <1>10 DEF Drawn!vars, Drawn!sources, Drawn!pages, Disk, Job
<1> QED
  BY <1>1, <1>2, <1>3, <1>4, <1>5, <1>6, <1>7, <1>8, <1>9, <1>10 DEF Drawn!Next

(* Where the check of the sources passes, whatever builds were broken off    *)
(* and whatever was edited by hand before, every figure shows what its spec  *)
(* and the engine there are draw, unless the spec was edited between the two *)
(* reads of a build; and what `check` passes, it passes too.                 *)
THEOREM PassMeansCurrentCorrect ==
    ASSUME FiguresAssumption
    PROVE  Drawn!Spec => []PassMeansCurrent
<1>1. Drawn!Init => FiguresInv
  BY InitFiguresInv
<1>2. FiguresInv /\ [Drawn!Next]_(Drawn!vars) => FiguresInv'
  BY NextFiguresInv
<1>3. FiguresInv => PassMeansCurrent
  <2> SUFFICES ASSUME FiguresInv PROVE PassMeansCurrent
    OBVIOUS
  <2>1. ASSUME Drawn!SourcesPass, Drawn!HasFigures, NEW s \in Drawn!Slugs \ gaps
        PROVE  /\ Drawn!Valid(specs[s])
               /\ specs[s] # None =>
                    /\ \A f \in Drawn!Outputs : \E c \in Commits :
                           /\ disk[s][f].content = [Drawn!RendersTo(s)[f] EXCEPT !.vendor = c]
                           /\ f # "json" => disk[s][f].touched = "no"
                    /\ blocks[s] # None => blocks[s].drawn = specs[s] /\ blocks[s].engine = engine
               /\ specs[s] = None => s \notin fences /\ blocks[s] = None
    <3> DEFINE r == disk[s]["json"].content
    <3>1. /\ Drawn!FiguresPass /\ fences \subseteq Drawn!Known
          /\ Drawn!Renderable /\ blocks = Drawn!Refreshed
      BY <2>1 DEF Drawn!SourcesPass
    <3>2. s \in Figs /\ s \notin gaps
      BY DEF Drawn!Slugs, Figs
    <3>3. specs[s] # None <=> disk[s]["json"] # None
      BY <3>1 DEF Drawn!FiguresPass, Drawn!Json
    <3>4. CASE specs[s] = None
      BY <3>1, <3>3, <3>4 DEF FiguresAssumption, Drawn!Valid, Drawn!Known, Drawn!Renderable, Drawn!Json
    <3>5. CASE specs[s] # None
      <4>1. Draws(r, s, gaps)
        BY <3>2, <3>3, <3>5 DEF FiguresInv, Disk
      <4>2. Drawn!Bound(s)
        BY <3>1, <3>3, <3>5 DEF Drawn!FiguresPass, Drawn!Known
      <4>3. /\ r = [spec |-> specs[s], drawn |-> specs[s], engine |-> engine, vendor |-> r.vendor]
            /\ r.vendor \in Commits /\ Drawn!Valid(specs[s])
        BY <3>2, <4>1, <4>2 DEF Draws, Drawn!Bound, Drawn!Json
      <4> DEFINE now == [spec |-> specs[s], drawn |-> specs[s], engine |-> engine, vendor |-> vendor]
      <4>4. Drawn!RendersTo(s) = Drawn!Rendering(now)
        BY DEF Drawn!RendersTo
      <4>5. disk[s]["json"].content = [Drawn!RendersTo(s)["json"] EXCEPT !.vendor = r.vendor]
        <5>1. [now EXCEPT !.vendor = r.vendor] =
                  [spec |-> specs[s], drawn |-> specs[s], engine |-> engine, vendor |-> r.vendor]
          OBVIOUS
        <5> QED
          BY <4>3, <4>4, <5>1, RenderingFields
      <4>6. Drawn!Image(r) = [Drawn!Image(now) EXCEPT !.vendor = r.vendor]
        <5>1. Drawn!Image(now) = [drawn |-> specs[s], engine |-> engine, vendor |-> vendor]
          BY DEF Drawn!Image
        <5>2. Drawn!Image(r) = [drawn |-> specs[s], engine |-> engine, vendor |-> r.vendor]
          BY <4>3 DEF Drawn!Image
        <5> QED
          BY <5>1, <5>2
      <4>7. ASSUME NEW f \in {"svg", "static"}
            PROVE  /\ disk[s][f].content = [Drawn!RendersTo(s)[f] EXCEPT !.vendor = r.vendor]
                   /\ disk[s][f].touched = "no"
        <5>1. disk[s][f] = Drawn!Clean(Drawn!Image(r))
          BY <4>2 DEF Drawn!Bound, Drawn!Json
        <5>2. Drawn!RendersTo(s)[f] = Drawn!Image(now)
          BY <4>4, RenderingFields
        <5> QED
          BY <4>6, <5>1, <5>2 DEF Drawn!Clean
      <4>8. blocks[s] # None => blocks[s].drawn = specs[s] /\ blocks[s].engine = engine
        <5>1. blocks[s] # None => blocks[s] = Drawn!Html(disk[s]["json"])
          BY <3>1 DEF Drawn!Refreshed, Drawn!Json
        <5>2. r.drawn = specs[s] /\ r.engine = engine
          BY <4>3
        <5> QED
          BY <5>1, <5>2 DEF Drawn!Html
      <4>9. \A f \in Drawn!Outputs : f = "json" \/ f \in {"svg", "static"}
        BY DEF Drawn!Outputs
      <4> QED
        BY <3>5, <4>3, <4>5, <4>7, <4>8, <4>9
    <3> QED
      BY <3>4, <3>5
  <2>2. ASSUME Drawn!CheckPasses PROVE Drawn!FiguresPass
    <3>1. ASSUME NEW s \in Drawn!Slugs
          PROVE  /\ specs[s] # None <=> Drawn!Json(s) # None
                 /\ s \in Drawn!Known => Drawn!Bound(s) /\ Drawn!WellFormed(s)
      <4> DEFINE now == [spec |-> specs[s], drawn |-> specs[s], engine |-> engine, vendor |-> vendor]
      <4>1. \A f \in Drawn!Outputs :
                disk[s][f] = IF specs[s] = None THEN None ELSE Drawn!Clean(Drawn!Rendering(now)[f])
        BY <2>2 DEF Drawn!CheckPasses, Drawn!RendersTo
      <4>2. /\ now.spec = specs[s] /\ now.engine = engine
            /\ "json" \in Drawn!Outputs /\ "svg" \in Drawn!Outputs /\ "static" \in Drawn!Outputs
        BY DEF Drawn!Outputs
      <4> HIDE DEF now
      <4>3. CASE specs[s] = None
        BY <4>1, <4>2, <4>3 DEF Drawn!Json, Drawn!Known
      <4>4. CASE specs[s] # None
        <5>1. /\ disk[s]["json"] = Drawn!Clean(now)
              /\ disk[s]["svg"] = Drawn!Clean(Drawn!Image(now))
              /\ disk[s]["static"] = Drawn!Clean(Drawn!Image(now))
          BY <4>1, <4>2, <4>4, RenderingFields
        <5>2. Drawn!Clean(now).content = now /\ Drawn!Clean(now).touched = "no"
          BY DEF Drawn!Clean
        <5>3. Drawn!Clean(now) # None
          BY DEF FiguresAssumption
        <5> QED
          BY <4>2, <4>4, <5>1, <5>2, <5>3 DEF Drawn!Json, Drawn!Bound, Drawn!WellFormed
      <4> QED
        BY <4>3, <4>4
    <3> QED
      BY <3>1 DEF Drawn!FiguresPass
  <2> QED
    BY <2>1, <2>2 DEF PassMeansCurrent, Drawn!PassMeansCurrent
<1> QED
  BY <1>1, <1>2, <1>3, PTL DEF Drawn!Spec

------------------------------------------------------------------------------
(* MarkdownGate: any repositories, limits and children.                      *)

(* What the model's parameters are: a repository's files and names are       *)
(* sequences, limits are numbers, and no child ends within one unit of time. *)
GateAssumption ==
    /\ \A r \in Repositories :
           /\ \E S : r.files \in Seq(S)
           /\ \E S : r.exclude \in Seq(S)
           /\ r.only \in Seq(Nat)
    /\ Deadline \in Nat /\ InstallLimit \in Nat /\ CommandTimeout \in Nat
    /\ Durations \subseteq Nat /\ \A d \in Durations : d > 1
    /\ OutputLines \in Nat /\ ChildLines \subseteq Nat
    /\ Bounds.lint \in Nat /\ Bounds.lintCeiling \in Nat

(* What is packed into batches.                                              *)
Packed(batches) == UNION {Gate!Range(batches[i]) : i \in DOMAIN batches}

LEMMA PackAdds ==
    ASSUME NEW q \in Seq(Seq(Nat)), NEW f \in Nat
    PROVE  Gate!Pack(q, f) \in Seq(Seq(Nat)) /\ Packed(Gate!Pack(q, f)) = Packed(q) \cup {f}
<1>1. Len(q) \in Nat /\ DOMAIN q = 1..Len(q) /\ \A i \in DOMAIN q : q[i] \in Seq(Nat)
  OBVIOUS
<1>2. CASE Gate!Pack(q, f) = Append(q, <<f>>)
  <2> DEFINE r == Append(q, <<f>>)
  <2>1. /\ r \in Seq(Seq(Nat)) /\ DOMAIN r = 1..(Len(q) + 1)
        /\ \A i \in DOMAIN q : r[i] = q[i]
        /\ r[Len(q) + 1] = <<f>>
    BY <1>1
  <2>2. Gate!Range(<<f>>) = {f}
    BY DEF Gate!Range
  <2> HIDE DEF r
  <2>3. Packed(r) = Packed(q) \cup {f}
    <3>1. \A i \in DOMAIN r : i = Len(q) + 1 \/ i \in DOMAIN q
      BY <1>1, <2>1
    <3>2. DOMAIN q \subseteq DOMAIN r /\ Len(q) + 1 \in DOMAIN r
      BY <1>1, <2>1
    <3>3. \A x \in Packed(r) : x \in Packed(q) \cup {f}
      BY <2>1, <2>2, <3>1 DEF Packed
    <3>4. \A x \in Packed(q) : x \in Packed(r)
      BY <2>1, <3>2 DEF Packed
    <3>5. f \in Packed(r)
      BY <2>1, <2>2, <3>2 DEF Packed
    <3> QED
      BY <3>3, <3>4, <3>5
  <2> QED
    BY <1>2, <2>1, <2>3 DEF r
<1>3. CASE Gate!Pack(q, f) # Append(q, <<f>>)
  <2> DEFINE last == Append(q[Len(q)], f)
             r == [q EXCEPT ![Len(q)] = last]
  <2>1. q # <<>> /\ Gate!Pack(q, f) = r
    BY <1>3 DEF Gate!Pack
  <2>2. Len(q) \in DOMAIN q /\ q[Len(q)] \in Seq(Nat)
    BY <1>1, <2>1
  <2>3. last \in Seq(Nat) /\ Gate!Range(last) = Gate!Range(q[Len(q)]) \cup {f}
    <3> DEFINE s == q[Len(q)]
    <3>1. /\ Append(s, f) \in Seq(Nat) /\ DOMAIN Append(s, f) = 1..(Len(s) + 1)
          /\ DOMAIN s = 1..Len(s) /\ Len(s) \in Nat
          /\ \A i \in 1..Len(s) : Append(s, f)[i] = s[i]
          /\ Append(s, f)[Len(s) + 1] = f
      BY <2>2
    <3> DEFINE t == Append(s, f)
    <3> HIDE DEF s, t
    <3>2. Gate!Range(t) = Gate!Range(s) \cup {f}
      <4>1. \A x \in Gate!Range(t) : x \in Gate!Range(s) \cup {f}
        BY <3>1 DEF Gate!Range, t
      <4>2. \A x \in Gate!Range(s) : x \in Gate!Range(t)
        BY <3>1 DEF Gate!Range, t
      <4>3. f \in Gate!Range(t)
        <5>1. Len(s) + 1 \in DOMAIN t /\ t[Len(s) + 1] = f
          BY <3>1 DEF t
        <5> QED
          BY <5>1 DEF Gate!Range
      <4> QED
        BY <4>1, <4>2, <4>3
    <3> QED
      BY <3>1, <3>2 DEF s, t
  <2> HIDE DEF last
  <2>4. /\ r \in Seq(Seq(Nat)) /\ DOMAIN r = DOMAIN q
        /\ \A i \in DOMAIN q : r[i] = IF i = Len(q) THEN last ELSE q[i]
    BY <2>2, <2>3
  <2> HIDE DEF r
  <2>5. Packed(r) = Packed(q) \cup {f}
    <3>1. \A x \in Packed(r) : x \in Packed(q) \cup {f}
      BY <2>2, <2>3, <2>4 DEF Packed
    <3>2. \A x \in Packed(q) : x \in Packed(r)
      BY <2>2, <2>3, <2>4 DEF Packed
    <3>3. f \in Packed(r)
      BY <2>2, <2>3, <2>4 DEF Packed
    <3> QED
      BY <3>1, <3>2, <3>3
  <2> QED
    BY <2>1, <2>4, <2>5
<1> QED
  BY <1>2, <1>3

LEMMA HeadIsPacked ==
    ASSUME NEW q \in Seq(Seq(Nat)), q # <<>>
    PROVE  /\ Head(q) \in Seq(Nat) /\ Tail(q) \in Seq(Seq(Nat))
           /\ Packed(q) = Gate!Range(Head(q)) \cup Packed(Tail(q))
<1>1. /\ Head(q) = q[1] /\ 1 \in DOMAIN q /\ Tail(q) \in Seq(Seq(Nat)) /\ q[1] \in Seq(Nat)
      /\ \A i \in DOMAIN Tail(q) : i + 1 \in DOMAIN q /\ Tail(q)[i] = q[i + 1]
      /\ \A i \in DOMAIN q : i = 1 \/ (i - 1 \in DOMAIN Tail(q) /\ Tail(q)[i - 1] = q[i])
  OBVIOUS
<1>2. Packed(q) = Gate!Range(q[1]) \cup Packed(Tail(q))
  <2>1. \A x \in Packed(q) : x \in Gate!Range(q[1]) \cup Packed(Tail(q))
    BY ZenonT(50), <1>1 DEF Packed
  <2>2. \A x \in Packed(Tail(q)) : x \in Packed(q)
    BY <1>1 DEF Packed
  <2>3. \A x \in Gate!Range(q[1]) : x \in Packed(q)
    BY <1>1 DEF Packed
  <2> QED
    BY <2>1, <2>2, <2>3
<1> QED
  BY <1>1, <1>2

(* The batches hold the wanted files, each of them.                          *)
LEMMA BatchesPack ==
    ASSUME Len(repo.files) \in Nat, Gate!Wanted \subseteq 1..Len(repo.files)
    PROVE  Gate!Batches \in Seq(Seq(Nat)) /\ Packed(Gate!Batches) = Gate!Wanted
<1> DEFINE n == Len(repo.files)
           W == Gate!Wanted
           V == Seq(Seq(Nat))
           step == [x \in Nat \X V |-> IF x[1] \in W THEN Gate!Pack(x[2], x[1]) ELSE x[2]]
           Made(f) == f = [i \in 0..n |-> IF i = 0 THEN <<>>
                                          ELSE IF i \in W THEN Gate!Pack(f[i - 1], i) ELSE f[i - 1]]
<1>1. Gate!Batches = (CHOOSE f : Made(f))[n]
  BY DEF Gate!Batches
<1> HIDE DEF W
<1>2. step \in [Nat \X V -> V] /\ <<>> \in V
  <2>1. \A i \in Nat, q \in V : Gate!Pack(q, i) \in V
    BY PackAdds
  <2> HIDE DEF V
  <2>2. step \in [Nat \X V -> V]
    BY <2>1
  <2> QED
    BY <2>2 DEF V
<1>3. \A i \in Nat, q \in V : step[<<i, q>>] = IF i \in W THEN Gate!Pack(q, i) ELSE q
  OBVIOUS
<1> HIDE DEF step, V
<1>4. PICK g \in [0..n -> V] : IsRecursive(g, <<>>, step, n)
  BY <1>2, Recursion
<1>5. Made(g)
  <2>1. ASSUME NEW i \in 0..n
        PROVE  g[i] = IF i = 0 THEN <<>> ELSE IF i \in W THEN Gate!Pack(g[i - 1], i) ELSE g[i - 1]
    <3>1. i \in Nat /\ (i # 0 => g[i - 1] \in V)
      BY <1>4
    <3> QED
      BY <1>3, <1>4, <3>1 DEF IsRecursive
  <2> QED
    BY <1>4, <2>1, Zenon
<1>6. PICK f : Made(f) /\ Gate!Batches = f[n]
  BY <1>1, <1>5
<1>7. \A i \in 0..n : f[i] = IF i = 0 THEN <<>>
                             ELSE IF i \in W THEN Gate!Pack(f[i - 1], i) ELSE f[i - 1]
  BY <1>6
<1> HIDE DEF Made
<1> DEFINE Good(i) == f[i] \in V /\ Packed(f[i]) = W \cap (1..i)
           T == {i \in 0..n : ~Good(i)}
<1>8. T = {}
  <2> SUFFICES ASSUME T # {} PROVE FALSE
    OBVIOUS
  <2>1. T \subseteq Nat
    OBVIOUS
  <2>2. PICK i \in T : \A k \in T : i <= k
    BY <2>1, LeastNumber, Zenon
  <2>3. i # 0
    <3>1. Packed(<<>>) = {} /\ 1..0 = {}
      BY DEF Packed
    <3>2. f[0] = <<>>
      BY <1>7
    <3>3. Good(0)
      BY <1>2, <3>1, <3>2
    <3> QED
      BY <2>2, <3>3
  <2>4. i \in 1..n /\ i \in Nat /\ i - 1 \in 0..n /\ i - 1 \notin T
    BY <2>2, <2>3
  <2>5. f[i - 1] \in V /\ Packed(f[i - 1]) = W \cap (1..(i - 1))
    BY <2>4
  <2>6. W \cap (1..i) = IF i \in W THEN (W \cap (1..(i - 1))) \cup {i} ELSE W \cap (1..(i - 1))
    BY <2>4
  <2>7. Good(i)
    <3>1. CASE i \in W
      <4>1. f[i] = Gate!Pack(f[i - 1], i)
        BY <1>7, <2>4, <3>1
      <4>2. f[i] \in V /\ Packed(f[i]) = Packed(f[i - 1]) \cup {i}
        BY <2>4, <2>5, <4>1, PackAdds DEF V
      <4> QED
        BY <2>5, <2>6, <3>1, <4>2
    <3>2. CASE i \notin W
      BY <1>7, <2>4, <2>5, <2>6, <3>2
    <3> QED
      BY <3>1, <3>2
  <2> QED
    BY <2>2, <2>7
<1>9. Good(n)
  BY <1>8
<1>10. W \cap (1..n) = W
  BY DEF W
<1> QED
  BY <1>6, <1>9, <1>10 DEF V, W

(* The steps that come after a check that can refuse; none of them, nor a    *)
(* verdict, comes after a refusal.                                           *)
Phases == {"install", "root", "tracked", "targets", "files", "scratch", "library", "lint", "done"}
Past(steps) == phase \in steps \/ exit \in {0, 1}

GateTypeOK ==
    /\ repo \in Repositories
    /\ phase \in Phases
    /\ clock \in Nat
    /\ exit \in {-1, 0, 1, 2} /\ (phase = "done" <=> exit # -1)
    /\ scratch \in {0, 1, 2} /\ failed \in BOOLEAN /\ overflow \in BOOLEAN
    /\ queue \in Seq(Seq(Nat))
    /\ left \in Int
InTime == clock <= Deadline + 1 /\ (phase # "done" => clock <= Deadline)
Accepted ==
    /\ Past({"tracked", "targets", "files", "scratch", "library", "lint"}) => ~Gate!SettingsRefused
    /\ Past({"files", "scratch", "library", "lint"}) => ~Gate!TrackedRefused
    /\ Past({"scratch", "library", "lint"}) =>
           ~Gate!InventoryRefused /\ ~Gate!SelectionRefused /\ (Gate!Named => ~Gate!NamesRefused)

(* The private-link rule is only skipped for named files; the files wanted   *)
(* have been linted or wait in the queue, and were tidy unless the gate      *)
(* remembers that one was not.                                               *)
Found ==
    /\ phase = "scratch" => ~Gate!Named
    /\ Past({"library", "lint"}) /\ scratch = 0 => Gate!Named \/ Gate!NoPrivateLink
    /\ phase \notin {"lint", "done"} => linted = {} /\ ~failed /\ ~overflow
    /\ phase = "lint" => linted \cup Packed(queue) = Gate!Wanted
    /\ Past({"lint"}) /\ ~failed => \A f \in linted : Gate!File(f).tidy
    /\ exit \in {0, 1} => linted = Gate!Wanted /\ ~overflow
    /\ exit = 0 => ~failed /\ scratch = 0
GateInv == GateTypeOK /\ InTime /\ Accepted /\ Found

LEMMA MaxOfTwo ==
    ASSUME NEW a \in Int, NEW b \in Int
    PROVE  Gate!Max({a, b}) = IF a >= b THEN a ELSE b
<1>1. \E x \in {a, b} : \A y \in {a, b} : x >= y
  OBVIOUS
<1>2. Gate!Max({a, b}) \in {a, b} /\ \A y \in {a, b} : Gate!Max({a, b}) >= y
  BY <1>1 DEF Gate!Max
<1> QED
  BY <1>2

(* A child ends before the deadline, or is stopped at it.                    *)
LEMMA ChildInTime ==
    ASSUME GateAssumption, clock \in Nat, clock <= Deadline, NEW allowed \in Nat
    PROVE  /\ Gate!Ended(allowed) => clock' \in Nat /\ clock' <= Deadline
           /\ Gate!Stopped(allowed) => clock' \in Nat /\ clock' <= Deadline + 1
<1> DEFINE rest == Deadline - clock
<1>1. rest \in Nat /\ Deadline \in Nat /\ clock + rest = Deadline
  BY DEF GateAssumption
<1>2. Gate!Max({rest, 1}) = IF rest >= 1 THEN rest ELSE 1
  BY <1>1, MaxOfTwo
<1>3. Gate!CommandLimit(allowed) = IF rest < allowed THEN (IF rest >= 1 THEN rest ELSE 1) ELSE allowed
  BY <1>2 DEF Gate!CommandLimit
<1> HIDE DEF rest
<1>4. \A d \in Durations : d \in Nat /\ d > 1
  BY DEF GateAssumption
<1> QED
  BY <1>1, <1>3, <1>4 DEF Gate!Ended, Gate!Stopped

LEMMA RepoFixed ==
    ASSUME UNCHANGED repo
    PROVE  /\ Gate!SettingsRefused' = Gate!SettingsRefused
           /\ Gate!TrackedRefused' = Gate!TrackedRefused
           /\ Gate!InventoryRefused' = Gate!InventoryRefused
           /\ Gate!Wanted' = Gate!Wanted
           /\ Gate!SelectionRefused' = Gate!SelectionRefused
           /\ Gate!Named' = Gate!Named
           /\ Gate!NamesRefused' = Gate!NamesRefused
           /\ Gate!NoPrivateLink' = Gate!NoPrivateLink
           /\ \A f : Gate!File(f)' = Gate!File(f)
<1>1. \A f : Gate!File(f)' = Gate!File(f)
  BY DEF Gate!File
<1>2. Gate!SettingsRefused' = Gate!SettingsRefused
  BY DEF Gate!SettingsRefused
<1>3. Gate!TrackedRefused' = Gate!TrackedRefused
  BY DEF Gate!TrackedRefused
<1>4. Gate!Files' = Gate!Files /\ Gate!MaxFiles' = Gate!MaxFiles
      /\ Gate!MaxFileBytes' = Gate!MaxFileBytes
  BY DEF Gate!Files, Gate!MaxFiles, Gate!MaxFileBytes
<1>5. Gate!TotalBytes' = Gate!TotalBytes
  BY DEF Gate!TotalBytes, Gate!File
<1>6. Gate!InventoryRefused' = Gate!InventoryRefused
  BY <1>1, <1>4, <1>5 DEF Gate!InventoryRefused
<1>7. Gate!Eligible' = Gate!Eligible
  BY <1>1, <1>4 DEF Gate!Eligible
<1>8. Gate!Styled' = Gate!Styled
  BY <1>1, <1>7 DEF Gate!Styled, Gate!Excluding
<1>9. Gate!Named' = Gate!Named
  BY DEF Gate!Named
<1>10. Gate!Wanted' = Gate!Wanted
  BY <1>8, <1>9 DEF Gate!Wanted
<1>11. Gate!SelectionRefused' = Gate!SelectionRefused /\ Gate!NamesRefused' = Gate!NamesRefused
  BY <1>7, <1>8 DEF Gate!SelectionRefused, Gate!NamesRefused
<1>12. Gate!NoPrivateLink' = Gate!NoPrivateLink
  BY <1>1, <1>4 DEF Gate!NoPrivateLink
<1> QED
  BY <1>1, <1>2, <1>3, <1>6, <1>9, <1>10, <1>11, <1>12

LEMMA InitGateInv == ASSUME GateAssumption, Gate!Init PROVE GateInv
<1> USE DEF Gate!Init
<1>1. GateTypeOK
  <2>1. <<>> \in Seq(Seq(Nat)) /\ 0 \in Nat /\ -1 \in {-1, 0, 1, 2} /\ "install" # "done"
    OBVIOUS
  <2>2. left \in Int
    BY DEF GateAssumption
  <2> QED
    BY <2>1, <2>2 DEF GateTypeOK, Phases
<1>2. InTime
  BY DEF InTime, GateAssumption
<1>3. Accepted /\ Found
  BY DEF Accepted, Found, Past
<1> QED
  BY <1>1, <1>2, <1>3 DEF GateInv

(* A run that ends with 2 has nothing more to say.                           *)
LEMMA FailsSafely ==
    ASSUME GateInv, phase # "done", Gate!Fail, clock' \in Nat, clock' <= Deadline + 1,
           UNCHANGED repo, scratch' \in {0, 1, 2}, failed' \in BOOLEAN, overflow' \in BOOLEAN,
           queue' \in Seq(Seq(Nat)), left' \in Int
    PROVE  GateInv'
<1> USE DEF Gate!Fail
<1>1. GateTypeOK'
  BY DEF GateInv, GateTypeOK, Phases
<1>2. InTime' /\ Accepted' /\ Found'
  BY DEF InTime, Accepted, Found, Past
<1> QED
  BY <1>1, <1>2 DEF GateInv

(* A step that asks a child: the gate fails, or goes on unless refused.      *)
LEMMA AskGoesOn ==
    ASSUME GateAssumption, GateInv, NEW step \in Phases, step # "done", NEW allowed \in Nat,
           NEW after \in Phases, NEW refused, Gate!Ask(step, allowed, after, refused)
    PROVE  \/ GateInv'
           \/ /\ phase' = after /\ ~refused
              /\ clock' \in Nat /\ clock' <= Deadline
              /\ UNCHANGED <<exit, repo, scratch, queue, failed, overflow, left, linted>>
<1>1. /\ phase = step /\ phase # "done" /\ clock \in Nat /\ clock <= Deadline
      /\ UNCHANGED <<repo, scratch, queue, failed, overflow, left, linted>>
  BY DEF Gate!Ask, GateInv, GateTypeOK, InTime
<1>2. CASE Gate!Fail
  <2>1. Gate!Ended(allowed) \/ Gate!Stopped(allowed)
    BY DEF Gate!Ask
  <2>2. clock' \in Nat /\ clock' <= Deadline + 1
    BY <1>1, <2>1, ChildInTime DEF GateAssumption
  <2> QED
    BY <1>1, <1>2, <2>2, FailsSafely DEF GateInv, GateTypeOK
<1>3. CASE ~Gate!Fail
  <2>1. Gate!Ended(allowed) /\ ~refused /\ phase' = after /\ UNCHANGED exit
    BY <1>3 DEF Gate!Ask
  <2>2. clock' \in Nat /\ clock' <= Deadline
    BY <1>1, <2>1, ChildInTime
  <2> QED
    BY <1>1, <2>1, <2>2
<1> QED
  BY <1>2, <1>3

LEMMA LintTimeoutIsNat ==
    ASSUME GateAssumption, ~Gate!SettingsRefused
    PROVE  Gate!LintTimeout \in Nat
<1>1. repo.lintTimeout = Absent \/ repo.lintTimeout \in 1..Bounds.lintCeiling
  BY DEF Gate!SettingsRefused, Gate!SettingRefused
<1>2. Gate!LintTimeout = IF repo.lintTimeout = Absent THEN Bounds.lint ELSE repo.lintTimeout
  BY DEF Gate!LintTimeout, Gate!Setting
<1>3. Bounds.lint \in Nat /\ Bounds.lintCeiling \in Nat
  BY DEF GateAssumption
<1> QED
  BY <1>1, <1>2, <1>3

(* With settings, names and a selection that were not refused, the wanted    *)
(* files are files.                                                          *)
LEMMA WantedAreFiles ==
    ASSUME GateAssumption, repo \in Repositories, Gate!Named => ~Gate!NamesRefused
    PROVE  Len(repo.files) \in Nat /\ Gate!Wanted \subseteq 1..Len(repo.files)
<1>1. Gate!Wanted \subseteq Gate!Styled /\ Gate!Styled \subseteq DOMAIN repo.files
  BY DEF Gate!Wanted, Gate!NamesRefused, Gate!Styled, Gate!Eligible, Gate!Files
<1>2. PICK S : repo.files \in Seq(S)
  BY DEF GateAssumption
<1>3. Len(repo.files) \in Nat /\ DOMAIN repo.files = 1..Len(repo.files)
  BY <1>2
<1> QED
  BY <1>1, <1>3

LEMMA NextGateInv ==
    ASSUME GateAssumption, GateInv, [Gate!Next]_(Gate!vars)
    PROVE  GateInv'
<1>0. InstallLimit \in Nat /\ CommandTimeout \in Nat /\ Deadline \in Nat
      /\ GateTypeOK /\ InTime /\ Accepted /\ Found
  BY DEF GateAssumption, GateInv
<1> DEFINE Goes(after) == /\ phase' = after /\ after # "done"
                          /\ clock' \in Nat /\ clock' <= Deadline
                          /\ UNCHANGED <<exit, repo, queue, failed, overflow, left, linted>>
<1>1. ASSUME NEW after \in Phases, Goes(after), phase # "done", scratch' \in {0, 1, 2}
      PROVE  GateTypeOK' /\ InTime'
  <2>1. exit' = -1 /\ phase' \in Phases /\ phase' # "done"
    BY <1>0, <1>1 DEF GateTypeOK
  <2>2. InTime'
    BY <1>0, <1>1 DEF InTime
  <2> QED
    BY <1>0, <1>1, <2>1, <2>2 DEF GateTypeOK
<1>2. CASE Gate!Install
  <2>1. GateInv' \/ (Goes("root") /\ UNCHANGED scratch)
    BY <1>0, <1>2, AskGoesOn DEF Gate!Install, Phases
  <2>2. CASE Goes("root") /\ UNCHANGED scratch
    <3>1. phase = "install" /\ exit = -1
      BY <1>0, <1>2 DEF Gate!Install, Gate!Ask, GateTypeOK
    <3>2. GateTypeOK' /\ InTime'
      BY <1>0, <1>1, <2>2, <3>1 DEF GateTypeOK, Phases
    <3>3. Accepted' /\ Found'
      BY <1>0, <2>2, <3>1 DEF Accepted, Found, Past
    <3> QED
      BY <3>2, <3>3 DEF GateInv
  <2> QED
    BY <2>1, <2>2
<1>3. CASE Gate!Root
  <2>1. GateInv' \/ (Goes("tracked") /\ UNCHANGED scratch /\ ~Gate!SettingsRefused)
    BY <1>0, <1>3, AskGoesOn DEF Gate!Root, Phases
  <2>2. CASE Goes("tracked") /\ UNCHANGED scratch /\ ~Gate!SettingsRefused
    <3>1. phase = "root" /\ exit = -1
      BY <1>0, <1>3 DEF Gate!Root, Gate!Ask, GateTypeOK
    <3>2. GateTypeOK' /\ InTime'
      BY <1>0, <1>1, <2>2, <3>1 DEF GateTypeOK, Phases
    <3>3. Accepted' /\ Found'
      BY <1>0, <2>2, <3>1, RepoFixed DEF Accepted, Found, Past
    <3> QED
      BY <3>2, <3>3 DEF GateInv
  <2> QED
    BY <2>1, <2>2
<1>4. CASE Gate!Tracked
  <2> DEFINE after == IF repo.links = {} THEN "files" ELSE "targets"
  <2>1. GateInv' \/ (Goes(after) /\ UNCHANGED scratch)
    BY <1>0, <1>4, AskGoesOn DEF Gate!Tracked, Phases
  <2>2. CASE Goes(after) /\ UNCHANGED scratch
    <3>1. phase = "tracked" /\ exit = -1
      BY <1>0, <1>4 DEF Gate!Tracked, Gate!Ask, GateTypeOK
    <3>2. after \in {"files", "targets"} /\ (after = "files" => ~Gate!TrackedRefused)
      BY DEF Gate!TrackedRefused
    <3> HIDE DEF after
    <3>3. GateTypeOK' /\ InTime'
      BY <1>0, <1>1, <2>2, <3>1, <3>2 DEF GateTypeOK, Phases
    <3>4. Accepted' /\ Found'
      BY <1>0, <2>2, <3>1, <3>2, RepoFixed DEF Accepted, Found, Past
    <3> QED
      BY <3>3, <3>4 DEF GateInv
  <2> QED
    BY <2>1, <2>2
<1>5. CASE Gate!Targets
  <2>1. GateInv' \/ (Goes("files") /\ UNCHANGED scratch /\ ~Gate!TrackedRefused)
    BY <1>0, <1>5, AskGoesOn DEF Gate!Targets, Phases
  <2>2. CASE Goes("files") /\ UNCHANGED scratch /\ ~Gate!TrackedRefused
    <3>1. phase = "targets" /\ exit = -1
      BY <1>0, <1>5 DEF Gate!Targets, Gate!Ask, GateTypeOK
    <3>2. GateTypeOK' /\ InTime'
      BY <1>0, <1>1, <2>2, <3>1 DEF GateTypeOK, Phases
    <3>3. Accepted' /\ Found'
      BY <1>0, <2>2, <3>1, RepoFixed DEF Accepted, Found, Past
    <3> QED
      BY <3>2, <3>3 DEF GateInv
  <2> QED
    BY <2>1, <2>2
<1>6. CASE Gate!Inventory
  <2> DEFINE after == IF Gate!Named THEN "library" ELSE "scratch"
             refused == \/ Gate!InventoryRefused \/ Gate!SelectionRefused
                        \/ (Gate!Named /\ Gate!NamesRefused)
  <2>1. GateInv' \/ (Goes(after) /\ UNCHANGED scratch /\ ~refused)
    BY <1>0, <1>6, AskGoesOn DEF Gate!Inventory, Phases
  <2>2. CASE Goes(after) /\ UNCHANGED scratch /\ ~refused
    <3>1. phase = "files" /\ exit = -1
      BY <1>0, <1>6 DEF Gate!Inventory, Gate!Ask, GateTypeOK
    <3>2. after \in {"library", "scratch"} /\ (after = "library" <=> Gate!Named)
      OBVIOUS
    <3> HIDE DEF after
    <3>3. GateTypeOK' /\ InTime'
      BY <1>0, <1>1, <2>2, <3>1, <3>2 DEF GateTypeOK, Phases
    <3>4. Accepted' /\ Found'
      BY <1>0, <2>2, <3>1, <3>2, RepoFixed DEF Accepted, Found, Past
    <3> QED
      BY <3>3, <3>4 DEF GateInv
  <2> QED
    BY <2>1, <2>2
<1>7. CASE Gate!ScratchRule
  <2>1. /\ phase = "scratch" /\ exit = -1 /\ clock \in Nat /\ clock <= Deadline
        /\ UNCHANGED <<repo, queue, failed, overflow, left, linted>>
    BY <1>0, <1>7 DEF Gate!ScratchRule, GateTypeOK, InTime
  <2>2. CASE Gate!Ended(CommandTimeout) /\ scratch' \in {IF Gate!NoPrivateLink THEN 0 ELSE 1, 2}
             /\ phase' = "library" /\ UNCHANGED exit
    <3>1. clock' \in Nat /\ clock' <= Deadline
      BY <1>0, <2>1, <2>2, ChildInTime
    <3>2. scratch' \in {0, 1, 2} /\ (scratch' = 0 => Gate!NoPrivateLink)
      BY <2>2
    <3>3. GateTypeOK' /\ InTime'
      BY <1>0, <1>1, <2>1, <2>2, <3>1, <3>2 DEF Phases
    <3>4. Accepted' /\ Found'
      BY <1>0, <2>1, <2>2, <3>2, RepoFixed DEF Accepted, Found, Past
    <3> QED
      BY <3>3, <3>4 DEF GateInv
  <2>3. CASE Gate!Stopped(CommandTimeout) /\ Gate!Fail /\ UNCHANGED scratch
    <3>1. clock' \in Nat /\ clock' <= Deadline + 1
      BY <1>0, <2>1, <2>3, ChildInTime
    <3> QED
      BY <1>0, <2>1, <2>3, <3>1, FailsSafely DEF GateTypeOK
  <2> QED
    BY <1>7, <2>2, <2>3 DEF Gate!ScratchRule
<1>8. CASE Gate!Library
  <2>1. /\ phase = "library" /\ exit = -1
        /\ UNCHANGED <<repo, clock, scratch, failed, overflow, left, linted>>
        /\ clock \in Nat /\ clock <= Deadline
    BY <1>0, <1>8 DEF Gate!Library, GateTypeOK, InTime
  <2>2. CASE repo.locked
    <3>1. queue' = Gate!Batches /\ phase' = "lint" /\ exit' = exit
      BY <1>8, <2>2 DEF Gate!Library
    <3>2. Gate!Batches \in Seq(Seq(Nat)) /\ Packed(Gate!Batches) = Gate!Wanted
      BY <1>0, <2>1, WantedAreFiles, BatchesPack DEF GateTypeOK, Accepted, Past
    <3>3. GateTypeOK' /\ InTime'
      BY <1>0, <2>1, <3>1, <3>2 DEF GateTypeOK, InTime, Phases
    <3>4. Packed(queue)' = Gate!Wanted
      BY <3>1, <3>2 DEF Packed
    <3>5. Accepted' /\ Found'
      BY <1>0, <2>1, <3>1, <3>4, RepoFixed DEF Accepted, Found, Past
    <3> QED
      BY <3>3, <3>5 DEF GateInv
  <2>3. CASE ~repo.locked
    <3>1. Gate!Fail /\ UNCHANGED queue
      BY <1>8, <2>3 DEF Gate!Library
    <3>2. clock' \in Nat /\ clock' <= Deadline + 1
      BY <1>0, <2>1
    <3> QED
      BY <1>0, <2>1, <3>1, <3>2, FailsSafely DEF GateTypeOK
  <2> QED
    BY <2>2, <2>3
<1>9. CASE Gate!LintBatch
  <2>1. /\ phase = "lint" /\ exit = -1 /\ queue # <<>> /\ queue \in Seq(Seq(Nat))
        /\ clock \in Nat /\ clock <= Deadline
        /\ UNCHANGED <<repo, scratch>>
    BY <1>0, <1>9 DEF Gate!LintBatch, GateTypeOK, InTime
  <2>2. Gate!LintTimeout \in Nat
    BY <1>0, <2>1, LintTimeoutIsNat DEF Accepted, Past
  <2>3. CASE phase' = phase
    <3>1. PICK verdict \in {IF Gate!Tidy(Head(queue)) THEN 0 ELSE 1, 2} :
              /\ failed' = Gate!Failed(verdict)
              /\ IF verdict = 0 THEN UNCHANGED <<left, overflow>>
                 ELSE \E lines \in ChildLines : Gate!Emit(lines)
      BY <1>9, <2>1, <2>3 DEF Gate!LintBatch, Gate!Fail
    <3>2. /\ Gate!Ended(Gate!LintTimeout)
          /\ queue' = Tail(queue)
          /\ linted' = linted \cup Gate!Range(Head(queue))
          /\ UNCHANGED <<phase, exit>>
      BY <1>9, <2>1, <2>3 DEF Gate!LintBatch, Gate!Fail
    <3>3. clock' \in Nat /\ clock' <= Deadline
      BY <1>0, <2>1, <2>2, <3>2, ChildInTime
    <3>4. /\ failed' \in BOOLEAN /\ overflow' \in BOOLEAN /\ left' \in Int
          /\ failed' <=> failed \/ verdict # 0
      <4>1. failed' \in BOOLEAN /\ (failed' <=> failed \/ verdict # 0)
        BY <3>1 DEF Gate!Failed
      <4>2. ASSUME NEW lines \in ChildLines, Gate!Emit(lines)
            PROVE  overflow' \in BOOLEAN /\ left' \in Int
        <5>1. lines \in Nat /\ left \in Int /\ overflow \in BOOLEAN
          BY <1>0 DEF GateAssumption, GateTypeOK
        <5>2. Gate!Max({left - lines, 0}) \in Int
          BY <5>1, MaxOfTwo
        <5>3. CASE overflow
          BY <4>2, <5>1, <5>3 DEF Gate!Emit
        <5>4. CASE ~overflow
          <6>1. left' = Gate!Max({left - lines, 0}) /\ overflow' = (lines > left)
            BY <4>2, <5>4 DEF Gate!Emit
          <6>2. (lines > left) \in BOOLEAN
            BY <5>1
          <6> QED
            BY <5>2, <6>1, <6>2
        <5> QED
          BY <5>3, <5>4
      <4> QED
        BY <1>0, <3>1, <4>1, <4>2 DEF GateTypeOK
    <3>5. /\ Tail(queue) \in Seq(Seq(Nat))
          /\ Packed(queue) = Gate!Range(Head(queue)) \cup Packed(Tail(queue))
      BY <2>1, HeadIsPacked
    <3>6. GateTypeOK' /\ InTime'
      BY <1>0, <2>1, <3>2, <3>3, <3>4, <3>5 DEF GateTypeOK, InTime
    <3>7. Packed(queue)' = Packed(Tail(queue))
      BY <3>2 DEF Packed
    <3>8. linted' \cup Packed(queue)' = Gate!Wanted
      BY <1>0, <2>1, <3>2, <3>5, <3>7 DEF Found
    <3>9. ~failed' => \A f \in linted' : Gate!File(f).tidy
      BY <1>0, <2>1, <3>1, <3>2, <3>4 DEF Found, Past, Gate!Tidy
    <3>10. Accepted' /\ Found'
      BY <1>0, <2>1, <3>2, <3>8, <3>9, RepoFixed DEF Accepted, Found, Past
    <3> QED
      BY <3>6, <3>10 DEF GateInv
  <2>4. CASE phase' # phase
    <3>1. Gate!Stopped(Gate!LintTimeout) /\ Gate!Fail /\ UNCHANGED <<queue, failed, left, overflow, linted>>
      BY <1>9, <2>4 DEF Gate!LintBatch
    <3>2. clock' \in Nat /\ clock' <= Deadline + 1
      BY <1>0, <2>1, <2>2, <3>1, ChildInTime
    <3> QED
      BY <1>0, <2>1, <3>1, <3>2, FailsSafely DEF GateTypeOK
  <2> QED
    BY <2>3, <2>4
<1>10. CASE Gate!Finish
  <2>1. /\ phase = "lint" /\ queue = <<>> /\ phase' = "done" /\ exit' = Gate!Verdict
        /\ UNCHANGED <<repo, clock, scratch, queue, failed, overflow, left, linted>>
    BY <1>10 DEF Gate!Finish
  <2>2. /\ Gate!LintStatus = IF overflow THEN 2 ELSE IF failed THEN 1 ELSE 0
        /\ Gate!Verdict = IF scratch >= Gate!LintStatus THEN scratch ELSE Gate!LintStatus
    BY <1>0, MaxOfTwo DEF Gate!LintStatus, Gate!Verdict, GateTypeOK
  <2>3. /\ exit' \in {0, 1, 2} /\ (exit' \in {0, 1} => ~overflow)
        /\ exit' = 0 => ~failed /\ scratch = 0
    BY <1>0, <2>1, <2>2 DEF GateTypeOK
  <2>4. linted = Gate!Wanted
    <3>1. Packed(queue) = {}
      BY <2>1 DEF Packed
    <3> QED
      BY <1>0, <2>1, <3>1 DEF Found
  <2>5. GateTypeOK' /\ InTime'
    BY <1>0, <2>1, <2>3 DEF GateTypeOK, InTime, Phases
  <2>6. Accepted' /\ Found'
    BY <1>0, <2>1, <2>3, <2>4, RepoFixed DEF Accepted, Found, Past
  <2> QED
    BY <2>5, <2>6 DEF GateInv
<1>11. CASE UNCHANGED Gate!vars
  <2>1. UNCHANGED <<repo, phase, clock, exit, scratch, queue, failed, overflow, left, linted>>
    BY <1>11 DEF Gate!vars
  <2>2. GateTypeOK' /\ InTime'
    BY <1>0, <2>1 DEF GateTypeOK, InTime
  <2>3. Accepted' /\ Found'
    BY <1>0, <2>1, RepoFixed DEF Accepted, Found, Past, Packed
  <2> QED
    BY <2>2, <2>3 DEF GateInv
<1> QED
  BY <1>2, <1>3, <1>4, <1>5, <1>6, <1>7, <1>8, <1>9, <1>10, <1>11 DEF Gate!Next

(* The gate is done by its deadline, or one unit after where the last child  *)
(* was started at it; a status of 0 means that every file was read and every *)
(* wanted one linted without a finding; and what was linted is what neither  *)
(* list of exclusions names.                                                 *)
THEOREM TrueInTimeCorrect ==
    ASSUME GateAssumption
    PROVE  Gate!Spec => []TrueInTime
<1>1. Gate!Init => GateInv
  BY InitGateInv
<1>2. GateInv /\ [Gate!Next]_(Gate!vars) => GateInv'
  BY NextGateInv
<1>3. GateInv => TrueInTime
  <2> SUFFICES ASSUME GateInv PROVE TrueInTime
    OBVIOUS
  <2>0. GateTypeOK /\ InTime /\ Accepted /\ Found
    BY DEF GateInv
  <2>1. \E S : repo.exclude \in Seq(S)
    BY <2>0 DEF GateAssumption, GateTypeOK
  <2>2. /\ Len(repo.exclude) \in Nat /\ DOMAIN repo.exclude = 1..Len(repo.exclude)
        /\ repo.only \in Seq(Nat)
        /\ Len(repo.only) \in Nat /\ DOMAIN repo.only = 1..Len(repo.only)
    BY <2>0, <2>1 DEF GateAssumption, GateTypeOK
  <2>5. Gate!EndsByDeadline
    BY <2>0 DEF InTime, Gate!EndsByDeadline
  <2>6. Gate!OnlyDeclaredAreExcluded
    <3> SUFFICES ASSUME exit \in {0, 1}, NEW f \in Gate!Files
                 PROVE  f \in linted <=>
                            /\ ~Gate!File(f).builtin
                            /\ \A g \in Gate!File(f).globs : g \notin Gate!Range(repo.exclude)
                            /\ ~Gate!Named \/ f \in Gate!Range(repo.only)
      BY DEF Gate!OnlyDeclaredAreExcluded
    <3>1. linted = Gate!Wanted /\ (Gate!Named => Gate!Range(repo.only) \subseteq Gate!Styled)
      BY <2>0 DEF Found, Accepted, Past, Gate!NamesRefused
    <3>2. f \in Gate!Styled <=> /\ ~Gate!File(f).builtin
                               /\ \A g \in Gate!File(f).globs : g \notin Gate!Range(repo.exclude)
      BY DEF Gate!Styled, Gate!Eligible, Gate!Excluding
    <3> QED
      BY <3>1, <3>2 DEF Gate!Wanted
  <2>7. Gate!VerdictIsTrue
    <3>1. Gate!Eligible # {} /\ ~Gate!SelectionRefused => Gate!Wanted # {}
      <4>1. Gate!Named => Gate!Range(repo.only) # {}
        <5>1. repo.only # <<>> => 1 \in DOMAIN repo.only
          BY <2>2
        <5> QED
          BY <5>1 DEF Gate!Named, Gate!Range
      <4> QED
        BY <4>1 DEF Gate!SelectionRefused, Gate!Wanted
    <3> QED
      BY <2>0, <3>1 DEF Gate!VerdictIsTrue, Found, Accepted, Past
  <2> QED
    BY <2>5, <2>6, <2>7 DEF TrueInTime, Gate!TrueInTime
<1> QED
  BY <1>1, <1>2, <1>3, PTL DEF Gate!Spec

------------------------------------------------------------------------------
(* CiPipeline: any packages, dependencies, files and jobs.                   *)

\* Packages depend on packages and files are read by them; a change-scoped job
\* is no other job too.
CiAssumption ==
    /\ IsFiniteSet(Packages) /\ Dependencies \subseteq Packages \X Packages
    /\ \A f \in CiFiles : f.package \in Packages \cup {Outside} /\ f.readers \subseteq Packages
    /\ ChangeScoped \cap (EventScoped \cup MustSucceed) = {}

(* Reached, one step after the other.                                        *)
AreWithin(f, n) ==
    f = [i \in 0..n |->
            IF i = 0 THEN Ci!Owners
            ELSE f[i - 1] \cup {d[1] : d \in {d \in Dependencies : d[2] \in f[i - 1]}}]
Within == CHOOSE f : AreWithin(f, Ci!Cardinality(Packages))

LEMMA OwnersArePackages ==
    ASSUME CiAssumption, changed \subseteq CiFiles
    PROVE  Ci!Owners \subseteq Packages /\ Ci!Readers \subseteq Packages
  BY DEF CiAssumption, Ci!Owners, Ci!Readers

LEMMA WithinGrows ==
    ASSUME CiAssumption, changed \subseteq CiFiles
    PROVE  AreWithin(Within, Cardinality(Packages)) /\ Cardinality(Packages) \in Nat
<1> DEFINE V == SUBSET Packages
           step == [v \in Nat \X V |-> v[2] \cup {d[1] : d \in {d \in Dependencies : d[2] \in v[2]}}]
           n == Cardinality(Packages)
<1>1. n \in Nat /\ Ci!Cardinality(Packages) = n
  BY FS_CardinalityType DEF CiAssumption, Ci!Cardinality, Cardinality
<1>2. Ci!Owners \in V
  BY OwnersArePackages
<1>3. step \in [Nat \X V -> V]
  <2> SUFFICES ASSUME NEW v \in Nat \X V
               PROVE  v[2] \cup {d[1] : d \in {d \in Dependencies : d[2] \in v[2]}} \in V
    OBVIOUS
  <2> QED
    BY DEF CiAssumption
<1> HIDE DEF n
<1>4. PICK f \in [0..n -> V] : IsRecursive(f, Ci!Owners, step, n)
  <2> HIDE DEF V, step
  <2> QED
    BY <1>1, <1>2, <1>3, Recursion
<1>5. ASSUME NEW i \in 0..n
      PROVE  f[i] = IF i = 0 THEN Ci!Owners
                    ELSE f[i - 1] \cup {d[1] : d \in {d \in Dependencies : d[2] \in f[i - 1]}}
  <2>1. f[i] = IF i = 0 THEN Ci!Owners ELSE step[<<i, f[i - 1]>>]
    BY <1>4 DEF IsRecursive
  <2>2. i # 0 => <<i, f[i - 1]>> \in Nat \X V
    BY <1>1, <1>4
  <2> QED
    BY <2>1, <2>2
<1>6. AreWithin(f, n)
  BY <1>4, <1>5 DEF AreWithin
<1>7. AreWithin(Within, n)
  BY <1>1, <1>6 DEF Within
<1> QED
  BY <1>1, <1>7 DEF n

(* However many steps a dependent is away, turbo's filter holds it.          *)
LEMMA ReachedIsUpward ==
    ASSUME CiAssumption, changed \subseteq CiFiles, NEW p \in Packages, p \in Ci!Reached
    PROVE  p \in Ci!Upward(Ci!Owners)
<1> DEFINE n == Cardinality(Packages)
<1>1. AreWithin(Within, n) /\ n \in Nat
  BY WithinGrows
<1>2. p \in Within[n]
  <2>1. Ci!Cardinality(Packages) = Cardinality(Packages)
    BY DEF Ci!Cardinality, Cardinality
  <2> QED
    BY <2>1 DEF Ci!Reached, Within, AreWithin
<1> SUFFICES ASSUME NEW held \in SUBSET Packages, Ci!Owners \subseteq held,
                    \A d \in Dependencies : d[2] \in held => d[1] \in held
             PROVE  p \in held
  BY DEF Ci!Upward
<1> HIDE DEF n
<1> DEFINE T == {i \in 0..n : ~(Within[i] \subseteq held)}
<1>3. T = {}
  <2> SUFFICES ASSUME T # {} PROVE FALSE
    OBVIOUS
  <2>0. T \subseteq Nat
    BY <1>1
  <2> HIDE DEF T
  <2>1. PICK i \in T : \A j \in T : i <= j
    BY <2>0, LeastNumber, Zenon
  <2>2. i \in 0..n /\ ~(Within[i] \subseteq held)
    BY <2>1 DEF T
  <2>3. Within[i] = IF i = 0 THEN Ci!Owners
                    ELSE Within[i - 1] \cup {d[1] : d \in {d \in Dependencies : d[2] \in Within[i - 1]}}
    BY <1>1, <2>2 DEF AreWithin
  <2>4. i # 0
    BY <2>2, <2>3
  <2>5. i - 1 \in 0..n /\ ~(i <= i - 1)
    BY <1>1, <2>2, <2>4
  <2>6. Within[i - 1] \subseteq held
    BY <2>1, <2>5 DEF T
  <2> QED
    BY <2>2, <2>3, <2>4, <2>6
<1> QED
  BY <1>1, <1>2, <1>3

(* What a change reaches is selected, and where nothing is, nothing is       *)
(* reached.                                                                  *)
Reaches(p) ==
    \/ event = "push"
    \/ \E f \in changed : p \in f.readers
    \/ /\ \E f \in changed : ~ f.docs
       /\ (\E f \in changed : f.shared) \/ p \in Ci!Reached

LEMMA OwnersAreUpward ==
    ASSUME NEW owned, owned \subseteq Packages
    PROVE  owned = {} => Ci!Upward(owned) = {}
  BY DEF Ci!Upward, CiAssumption

LEMMA ReachedIsSelected ==
    ASSUME CiAssumption, changed \subseteq CiFiles, event \in {"push", "pull_request"},
           NEW p \in Packages, Reaches(p)
    PROVE  p \in Ci!Outputs.selected /\ Ci!Outputs.code = "true"
<1>1. CASE event = "push" \/ ((\E f \in changed : ~ f.docs) /\ (\E f \in changed : f.shared))
  <2>1. Ci!Outputs = Ci!Everything
    BY <1>1 DEF Ci!Outputs, Ci!AnalyzeChanges
  <2> QED
    BY <2>1 DEF Ci!Everything
<1>2. ASSUME NEW owned, NEW readers, p \in Ci!Upward(owned) \/ p \in readers,
             Ci!Outputs = Ci!SelectPackages(owned, readers), owned \subseteq Packages
      PROVE  p \in Ci!Outputs.selected /\ Ci!Outputs.code = "true"
  <2>1. owned \cup readers # {}
    BY <1>2, OwnersAreUpward
  <2>2. Ci!Outputs = [code |-> "true", all |-> FALSE,
                      selected |-> Ci!Around(owned) \cup readers,
                      stories |-> (owned \cup readers) \cap Stories # {}]
    BY <1>2, <2>1 DEF Ci!SelectPackages
  <2>3. Ci!Outputs.code = "true" /\ Ci!Outputs.selected = Ci!Around(owned) \cup readers
    BY <2>2
  <2> QED
    BY <1>2, <2>3 DEF Ci!Around
<1>3. CASE event # "push" /\ ~((\E f \in changed : ~ f.docs) /\ (\E f \in changed : f.shared))
  <2>1. CASE \E f \in changed : ~ f.docs
    <3>1. Ci!Outputs = Ci!SelectPackages(Ci!Owners, Ci!Readers)
      BY <1>3, <2>1 DEF Ci!Outputs, Ci!AnalyzeChanges
    <3>2. p \in Ci!Reached \/ p \in Ci!Readers
      BY <1>3, <2>1 DEF Reaches, Ci!Readers
    <3> QED
      BY <1>2, <3>1, <3>2, ReachedIsUpward, OwnersArePackages
  <2>2. CASE \A f \in changed : f.docs
    <3>1. Ci!Outputs = Ci!SelectPackages({}, Ci!Readers)
      BY <1>3, <2>2 DEF Ci!Outputs, Ci!AnalyzeChanges
    <3>2. p \in Ci!Readers
      BY <1>3, <2>2 DEF Reaches, Ci!Readers
    <3> QED
      BY <1>2, <3>1, <3>2
  <2> QED
    BY <2>1, <2>2
<1> QED
  BY <1>1, <1>3

(* The detector's outputs are those of its result; a change-scoped job that  *)
(* succeeded found nothing broken in its scope; a verdict is of jobs that    *)
(* have all ended.                                                           *)
CiInv ==
    /\ event \in {"push", "pull_request"} /\ changed \subseteq CiFiles
    /\ DOMAIN results = Ci!Jobs /\ DOMAIN checked = ChangeScoped
    /\ results = [j \in Ci!Jobs |-> results[j]] /\ checked = [j \in ChangeScoped |-> checked[j]]
    /\ detector = "success" => outputs = Ci!Outputs
    /\ \A j \in ChangeScoped : results[j] = "success" =>
           /\ detector = "success"
           /\ checked[j] = Ci!Scope(j) /\ Ci!Scope(j) \cap broken = {}
    /\ gate = "green" => detector = "success" /\ \A j \in Ci!Jobs : Ci!Accepted(j)

LEMMA NextCiInv ==
    ASSUME CiAssumption, CiInv, [Ci!Next]_(Ci!vars)
    PROVE  CiInv'
<1>0. /\ event \in {"push", "pull_request"} /\ changed \subseteq CiFiles
      /\ results = [j \in Ci!Jobs |-> results[j]] /\ checked = [j \in ChangeScoped |-> checked[j]]
      /\ detector = "success" => outputs = Ci!Outputs
      /\ \A j \in ChangeScoped : results[j] = "success" =>
             /\ detector = "success"
             /\ checked[j] = Ci!Scope(j) /\ Ci!Scope(j) \cap broken = {}
      /\ gate = "green" => detector = "success" /\ \A j \in Ci!Jobs : Ci!Accepted(j)
      /\ ChangeScoped \subseteq Ci!Jobs
  BY DEF CiInv, Ci!Jobs
<1>1. CASE Ci!Detect
  <2>1. /\ detector = "waiting" /\ UNCHANGED <<event, changed, broken, results, checked, gate>>
        /\ detector' = "success" => outputs' = Ci!Outputs
    BY <1>1 DEF Ci!Detect
  <2>2. gate # "green" /\ \A j \in ChangeScoped : results[j] # "success"
    BY <1>0, <2>1
  <2>3. (Ci!Outputs)' = Ci!Outputs
    BY <2>1 DEF Ci!Outputs, Ci!AnalyzeChanges, Ci!Readers, Ci!Owners
  <2> QED
    BY <1>0, <2>1, <2>2, <2>3 DEF CiInv
<1>2. CASE Ci!Gate
  <2>1. /\ UNCHANGED <<event, changed, broken, detector, outputs, results, checked>>
        /\ gate' = "green" => detector = "success" /\ \A j \in Ci!Jobs : Ci!Accepted(j)
    BY <1>2 DEF Ci!Gate
  <2>2. (Ci!Outputs)' = Ci!Outputs
    BY <2>1 DEF Ci!Outputs, Ci!AnalyzeChanges, Ci!Readers, Ci!Owners
  <2>3. \A j : Ci!Scope(j)' = Ci!Scope(j) /\ Ci!Accepted(j)' = Ci!Accepted(j)
    BY <2>1 DEF Ci!Scope, Ci!Accepted, Ci!SkipsWithReason
  <2> QED
    BY <1>0, <2>1, <2>2, <2>3 DEF CiInv
<1>3. ASSUME NEW j \in Ci!Jobs, NEW final, Ci!Ends(j, final), checked' = [i \in ChangeScoped |-> checked'[i]],
             \A i \in ChangeScoped : i # j => checked'[i] = checked[i],
             j \in ChangeScoped /\ final = "success" =>
                 /\ detector = "success"
                 /\ checked'[j] = Ci!Scope(j) /\ Ci!Scope(j) \cap broken = {}
      PROVE  CiInv'
  <2>1. /\ results[j] = "waiting" /\ results' = [results EXCEPT ![j] = final]
        /\ UNCHANGED <<event, changed, broken, detector, outputs, gate>>
    BY <1>3 DEF Ci!Ends
  <2>2. results'[j] = final /\ \A i \in Ci!Jobs : i # j => results'[i] = results[i]
    BY <1>0, <2>1
  <2>3. (Ci!Outputs)' = Ci!Outputs
    BY <2>1 DEF Ci!Outputs, Ci!AnalyzeChanges, Ci!Readers, Ci!Owners
  <2>4. \A i : Ci!Scope(i)' = Ci!Scope(i)
    BY <2>1 DEF Ci!Scope
  <2>5. gate # "green"
    <3>1. ~Ci!Accepted(j)
      BY <2>1 DEF Ci!Accepted
    <3> QED
      BY <1>0, <3>1
  <2>6. results' = [i \in Ci!Jobs |-> results'[i]]
    BY <1>0, <2>1
  <2>7. ASSUME NEW i \in ChangeScoped, results'[i] = "success"
        PROVE  detector = "success" /\ checked'[i] = Ci!Scope(i) /\ Ci!Scope(i) \cap broken = {}
    BY <1>0, <1>3, <2>2, <2>7
  <2> QED
    BY <1>0, <1>3, <2>1, <2>3, <2>4, <2>5, <2>6, <2>7 DEF CiInv
<1>4. ASSUME NEW j \in ChangeScoped, Ci!RunChangeScoped(j) PROVE CiInv'
  <2> DEFINE final == IF Ci!Scope(j) \cap broken = {} THEN "success" ELSE "failure"
  <2>1. /\ detector = "success" /\ Ci!Ends(j, final)
        /\ checked' = [checked EXCEPT ![j] = Ci!Scope(j)]
    BY <1>4 DEF Ci!RunChangeScoped
  <2>2. /\ checked'[j] = Ci!Scope(j) /\ checked' = [i \in ChangeScoped |-> checked'[i]]
        /\ \A i \in ChangeScoped : i # j => checked'[i] = checked[i]
    BY <1>0, <2>1
  <2>3. final = "success" => Ci!Scope(j) \cap broken = {}
    OBVIOUS
  <2> HIDE DEF final
  <2> QED
    BY <1>0, <1>3, <2>1, <2>2, <2>3
<1>5. ASSUME NEW j \in ChangeScoped, Ci!SkipChangeScoped(j) PROVE CiInv'
  BY <1>0, <1>3, <1>5 DEF Ci!SkipChangeScoped
<1>6. ASSUME NEW j \in EventScoped, Ci!SkipEvent(j) PROVE CiInv'
  <2>1. j \in Ci!Jobs
    BY DEF Ci!Jobs
  <2> QED
    BY <1>0, <1>3, <1>6, <2>1 DEF Ci!SkipEvent
<1>7. ASSUME NEW j \in EventScoped \cup MustSucceed, Ci!Run(j) PROVE CiInv'
  <2>1. j \in Ci!Jobs /\ j \notin ChangeScoped
    BY DEF Ci!Jobs, CiAssumption
  <2>2. PICK final \in {"success", "failure"} : Ci!Ends(j, final)
    BY <1>7 DEF Ci!Run
  <2>3. UNCHANGED checked
    BY <1>7 DEF Ci!Run
  <2> QED
    BY <1>0, <1>3, <2>1, <2>2, <2>3
<1>8. ASSUME NEW j \in Ci!Jobs, Ci!Cancel(j) PROVE CiInv'
  BY <1>0, <1>3, <1>8 DEF Ci!Cancel
<1>9. CASE UNCHANGED Ci!vars
  <2>1. UNCHANGED <<event, changed, broken, detector, outputs, results, checked, gate>>
    BY <1>9 DEF Ci!vars
  <2>2. (Ci!Outputs)' = Ci!Outputs
    BY <2>1 DEF Ci!Outputs, Ci!AnalyzeChanges, Ci!Readers, Ci!Owners
  <2>3. \A j : Ci!Scope(j)' = Ci!Scope(j) /\ Ci!Accepted(j)' = Ci!Accepted(j)
    BY <2>1 DEF Ci!Scope, Ci!Accepted, Ci!SkipsWithReason
  <2> QED
    BY <1>0, <2>1, <2>2, <2>3 DEF CiInv
<1> QED
  BY <1>1, <1>2, <1>4, <1>5, <1>6, <1>7, <1>8, <1>9 DEF Ci!Next

(* A green gate means that every package that a change reaches, through any  *)
(* number of dependencies, was checked by every change-scoped job and is not *)
(* broken, in whatever order the jobs end, fail or are cancelled.            *)
THEOREM GateMeansCheckedCorrect ==
    ASSUME CiAssumption
    PROVE  Ci!Spec => []GateMeansChecked
<1>1. Ci!Init => CiInv
  <2> SUFFICES ASSUME Ci!Init PROVE CiInv
    OBVIOUS
  <2>1. /\ event \in {"push", "pull_request"} /\ changed \subseteq CiFiles
        /\ detector = "waiting" /\ gate = "waiting"
        /\ results = [j \in Ci!Jobs |-> "waiting"] /\ checked = [j \in ChangeScoped |-> {}]
    BY DEF Ci!Init
  <2>2. \A j \in ChangeScoped : results[j] = "waiting"
    BY <2>1 DEF Ci!Jobs
  <2> QED
    BY <2>1, <2>2 DEF CiInv
<1>2. CiInv /\ [Ci!Next]_(Ci!vars) => CiInv'
  BY NextCiInv
<1>3. CiInv => GateMeansChecked
  <2> SUFFICES ASSUME CiInv, gate = "green", NEW p \in Packages,
                      NEW j \in ChangeScoped \ {"stories"}, Reaches(p)
               PROVE  p \in checked[j] /\ p \notin broken
    BY DEF GateMeansChecked, Ci!GateMeansChecked, Reaches
  <2>1. /\ detector = "success" /\ Ci!Accepted(j) /\ outputs = Ci!Outputs
        /\ j \notin EventScoped
        /\ event \in {"push", "pull_request"} /\ changed \subseteq CiFiles
    BY DEF CiInv, Ci!Jobs, CiAssumption
  <2>2. p \in outputs.selected /\ outputs.code = "true"
    BY <2>1, ReachedIsSelected
  <2>3. results[j] = "success"
    BY <2>1, <2>2 DEF Ci!Accepted, Ci!SkipsWithReason
  <2>4. checked[j] = outputs.selected /\ outputs.selected \cap broken = {}
    BY <2>3 DEF CiInv, Ci!Scope
  <2> QED
    BY <2>2, <2>4
<1> QED
  BY <1>1, <1>2, <1>3, PTL DEF Ci!Spec

------------------------------------------------------------------------------
(* WorkflowChecks: any documents, limits, commits and scores.                *)
CONSTANT Workflows   \* what a file of workflows may hold

\* A directory is a sequence of workflows; a commit has a name.
CommitHasName == Commit # ""
ChecksAssumption ==
    /\ Cases["timeouts"] \subseteq Seq(Workflows)
    /\ \A each \in Cases["playwright"] :
           each.workflows \in Seq(Workflows) /\ IsFiniteSet(each.lock)
    /\ MinMinutes \in Nat /\ MaxMinutes \in Nat
    /\ Scores \subseteq Int /\ Threshold \in Int /\ CommitHasName

(* The workflows read so far: the run has ended, a finding was noted, or     *)
(* they are as they must be.                                                 *)
Bounded(workflow) ==
    \A j \in DOMAIN workflow.jobs : ~Ruled!TimeoutProblem(workflow.jobs[j])
Equipped(workflow) ==
    \A container \in Ruled!Containers(workflow) :
        /\ ~Ruled!ContainerProblem(container, Ruled!LockVersion(docs.lock))
        /\ container.tasks \cup {E2e} \subseteq tasks

LegsInv ==
    check = "legs" /\ outcome = "pass" =>
        ~(\/ ~docs.readable \/ Ruled!JobProblem(docs.job) \/ Ruled!MatrixProblem(docs.job)
          \/ Ruled!EnvelopeProblem(docs.rules) \/ Ruled!TriggerProblem(docs)
          \/ Ruled!ContextProblem(docs))
TimeoutsInv ==
    check = "timeouts" =>
        /\ docs \in Seq(Workflows) /\ file \in 0..Len(docs)
        /\ outcome # "fail" /\ ~findings => \A i \in 1..file : Bounded(docs[i])
        /\ outcome = "pass" => file = Len(docs) /\ ~findings
PlaywrightInv ==
    check = "playwright" =>
        /\ docs.workflows \in Seq(Workflows) /\ IsFiniteSet(docs.lock)
        /\ file \in 0..Len(docs.workflows)
        /\ outcome # "fail" /\ ~findings => \A i \in 1..file : Equipped(docs.workflows[i])
        /\ outcome = "pass" =>
              /\ file = Len(docs.workflows) /\ ~findings
              /\ Ruled!LockVersion(docs.lock) # 0
              /\ tasks # {} => ~Ruled!TurboProblem(docs.turbo)
ScorecardInv ==
    check = "scorecard" =>
        /\ result.score \in Int
        /\ outcome = "none" => judged.commit # Commit
        /\ outcome = "pass" => judged.commit = Commit /\ judged.score >= Threshold
        /\ outcome = "fail" /\ judged.commit = Commit => judged.score < Threshold
ChecksInv ==
    /\ check \in {"legs", "timeouts", "playwright", "scorecard"}
    /\ outcome \in {"none", "pass", "fail"}
    /\ findings \in BOOLEAN
    /\ LegsInv /\ TimeoutsInv /\ PlaywrightInv /\ ScorecardInv

LEMMA InitChecksInv == ASSUME ChecksAssumption, Ruled!Init PROVE ChecksInv
<1>1. LegsInv
  BY DEF Ruled!Init, LegsInv
<1>2. TimeoutsInv
  <2>1. check = "timeouts" => docs \in Cases["timeouts"]
    BY DEF Ruled!Init
  <2>2. check = "timeouts" => docs \in Seq(Workflows) /\ Len(docs) \in Nat
    BY <2>1 DEF ChecksAssumption
  <2> QED
    BY <2>2 DEF Ruled!Init, TimeoutsInv
<1>3. PlaywrightInv
  <2>1. check = "playwright" => docs \in Cases["playwright"]
    BY DEF Ruled!Init
  <2>2. check = "playwright" =>
            /\ docs.workflows \in Seq(Workflows) /\ Len(docs.workflows) \in Nat
            /\ IsFiniteSet(docs.lock)
    BY <2>1 DEF ChecksAssumption
  <2> QED
    BY <2>2 DEF Ruled!Init, PlaywrightInv
<1>4. ScorecardInv
  BY DEF Ruled!Init, Ruled!Unscored, ScorecardInv, ChecksAssumption, CommitHasName
<1> QED
  BY <1>1, <1>2, <1>3, <1>4 DEF Ruled!Init, ChecksInv

LEMMA NextChecksInv ==
    ASSUME ChecksAssumption, ChecksInv, [Ruled!Next]_(Ruled!vars)
    PROVE  ChecksInv'
<1> USE DEF Ruled!scanVars, Ruled!scoreVars, Ruled!Report
<1>0. /\ check \in {"legs", "timeouts", "playwright", "scorecard"}
      /\ outcome \in {"none", "pass", "fail"} /\ findings \in BOOLEAN
      /\ LegsInv /\ TimeoutsInv /\ PlaywrightInv /\ ScorecardInv
  BY DEF ChecksInv
<1>1. CASE Ruled!CheckPlatformLegs
  <2>1. LegsInv'
    BY <1>1 DEF Ruled!CheckPlatformLegs, LegsInv
  <2> QED
    BY <1>0, <1>1, <2>1
    DEF Ruled!CheckPlatformLegs, ChecksInv, TimeoutsInv, PlaywrightInv, ScorecardInv
<1>2. CASE Ruled!ScanFails
  BY <1>0, <1>2
  DEF Ruled!ScanFails, ChecksInv, LegsInv, TimeoutsInv, PlaywrightInv, ScorecardInv
<1>3. CASE Ruled!ReadForTimeouts
  <2>1. /\ check = "timeouts" /\ check' = check /\ docs' = docs /\ outcome = "none"
        /\ docs \in Seq(Workflows) /\ Len(docs) \in Nat
        /\ file \in 0..Len(docs) /\ file < Len(docs) /\ file' = file + 1
    BY <1>0, <1>3 DEF Ruled!ReadForTimeouts, TimeoutsInv
  <2>2. CASE outcome' = "fail" /\ UNCHANGED findings
    BY <1>0, <2>1, <2>2
    DEF ChecksInv, LegsInv, TimeoutsInv, PlaywrightInv, ScorecardInv
  <2>3. CASE /\ findings' = (\/ findings \/ ~docs[file + 1].mapping
                             \/ \E i \in DOMAIN docs[file + 1].jobs :
                                    Ruled!TimeoutProblem(docs[file + 1].jobs[i]))
             /\ UNCHANGED outcome
    <3>1. findings' \in BOOLEAN
      BY <2>3
    <3>2. ~findings' => ~findings /\ Bounded(docs[file + 1])
      BY <2>3 DEF Bounded
    <3>3. ASSUME ~findings', NEW i \in 1..file + 1 PROVE Bounded(docs[i])
      <4>1. i \in 1..file \/ i = file + 1
        BY <2>1
      <4> QED
        BY <1>0, <2>1, <3>2, <3>3, <4>1 DEF TimeoutsInv
    <3>4. TimeoutsInv'
      BY <1>0, <2>1, <2>3, <3>3 DEF TimeoutsInv, Bounded
    <3> QED
      BY <1>0, <2>1, <2>3, <3>1, <3>4 DEF ChecksInv, LegsInv, PlaywrightInv, ScorecardInv
  <2> QED
    BY <1>3, <2>2, <2>3 DEF Ruled!ReadForTimeouts
<1>4. CASE Ruled!ReportTimeouts
  BY <1>0, <1>4
  DEF Ruled!ReportTimeouts, ChecksInv, LegsInv, TimeoutsInv, PlaywrightInv, ScorecardInv
<1>5. CASE Ruled!ReadForPlaywright
  <2> DEFINE workflow == docs.workflows[file + 1]
             parsed == IF workflow.readable THEN Ruled!ParseWorkflowJobs(workflow) ELSE "finding"
             containers == IF parsed = "entries" THEN Ruled!Containers(workflow) ELSE {}
  <2>1. /\ check = "playwright" /\ check' = check /\ docs' = docs /\ outcome = "none"
        /\ docs.workflows \in Seq(Workflows) /\ Len(docs.workflows) \in Nat
        /\ file \in 0..Len(docs.workflows) /\ file < Len(docs.workflows) /\ file' = file + 1
    BY <1>0, <1>5 DEF Ruled!ReadForPlaywright, PlaywrightInv
  <2>2. CASE outcome' = "fail" /\ UNCHANGED findings
    BY <1>0, <2>1, <2>2
    DEF ChecksInv, LegsInv, TimeoutsInv, PlaywrightInv, ScorecardInv
  <2>3. CASE /\ parsed # "throws"
             /\ findings' = (\/ findings \/ parsed = "finding"
                             \/ \E container \in containers :
                                   Ruled!ContainerProblem(container, Ruled!LockVersion(docs.lock)))
             /\ tasks' = IF containers = {} THEN tasks
                         ELSE tasks \cup {E2e} \cup UNION {container.tasks : container \in containers}
             /\ UNCHANGED outcome
    <3>1. findings' \in BOOLEAN /\ tasks \subseteq tasks'
      BY SMTT(30), <2>3
    <3>2. ~findings' => parsed = "entries"
      BY <2>3 DEF Ruled!ParseWorkflowJobs
    <3>3. ASSUME ~findings', NEW container \in Ruled!Containers(workflow)
          PROVE  /\ ~Ruled!ContainerProblem(container, Ruled!LockVersion(docs.lock))
                 /\ container.tasks \cup {E2e} \subseteq tasks'
      <4>1. container \in containers
        BY <3>2, <3>3
      <4> HIDE DEF containers
      <4> QED
        BY <2>3, <3>3, <4>1
    <3>4. ASSUME ~findings', NEW i \in 1..file + 1, NEW container \in Ruled!Containers(docs.workflows[i])
          PROVE  /\ ~Ruled!ContainerProblem(container, Ruled!LockVersion(docs.lock))
                 /\ container.tasks \cup {E2e} \subseteq tasks'
      <4>1. i \in 1..file \/ i = file + 1
        BY <2>1
      <4>2. ~findings
        BY <2>3, <3>4
      <4> QED
        BY <1>0, <2>1, <3>1, <3>3, <3>4, <4>1, <4>2 DEF PlaywrightInv, Equipped
    <3>5. PlaywrightInv'
      BY <1>0, <2>1, <2>3, <3>4 DEF PlaywrightInv, Equipped
    <3> QED
      BY <1>0, <2>1, <2>3, <3>1, <3>5 DEF ChecksInv, LegsInv, TimeoutsInv, ScorecardInv
  <2> HIDE DEF parsed, containers
  <2> QED
    BY <1>5, <2>2, <2>3 DEF Ruled!ReadForPlaywright, parsed, containers
<1>6. CASE Ruled!ReportPlaywright
  <2>1. PlaywrightInv'
    BY <1>0, <1>6 DEF Ruled!ReportPlaywright, PlaywrightInv, Equipped, Ruled!TurboProblem
  <2> QED
    BY <1>0, <1>6, <2>1
    DEF Ruled!ReportPlaywright, ChecksInv, LegsInv, TimeoutsInv, ScorecardInv
<1>7. CASE Ruled!Publish
  BY <1>0, <1>7
  DEF Ruled!Publish, ChecksAssumption, ChecksInv, LegsInv, TimeoutsInv, PlaywrightInv, ScorecardInv
<1>8. CASE Ruled!Judge
  <2>1. /\ check = "scorecard" /\ check' = check /\ docs' = docs /\ outcome = "none"
        /\ result' = result /\ judged' = result /\ result.score \in Int /\ findings' = findings
    BY <1>0, <1>8 DEF Ruled!Judge, ScorecardInv
  <2>2. \/ outcome' = "none" /\ Ruled!Verdict(result) = "stale"
        \/ outcome' = "pass" /\ Ruled!Verdict(result) = "pass"
        \/ outcome' = "fail" /\ Ruled!Verdict(result) # "pass"
    BY <1>8, <2>1 DEF Ruled!Judge
  <2>3. /\ Ruled!Verdict(result) = "stale" => result.commit # Commit
        /\ Ruled!Verdict(result) = "pass" => result.commit = Commit /\ ~(result.score < Threshold)
        /\ Ruled!Verdict(result) # "pass" /\ result.commit = Commit => result.score < Threshold
    BY DEF Ruled!Verdict, ChecksAssumption, CommitHasName
  <2>4. ~(result.score < Threshold) => result.score >= Threshold
    BY <2>1 DEF ChecksAssumption
  <2>5. ScorecardInv'
    BY <2>1, <2>2, <2>3, <2>4 DEF ScorecardInv
  <2> QED
    BY <1>0, <2>1, <2>2, <2>5 DEF ChecksInv, LegsInv, TimeoutsInv, PlaywrightInv
<1>9. CASE Ruled!FetchFails
  BY <1>0, <1>9
  DEF Ruled!FetchFails, ChecksInv, LegsInv, TimeoutsInv, PlaywrightInv, ScorecardInv
<1>10. CASE UNCHANGED Ruled!vars
  <2>1. UNCHANGED <<check, docs, file, tasks, findings, outcome, result, judged>>
    BY <1>10 DEF Ruled!vars
  <2>2. LegsInv' /\ TimeoutsInv' /\ ScorecardInv'
    BY <1>0, <2>1 DEF LegsInv, TimeoutsInv, ScorecardInv
  <2>3. PlaywrightInv'
    BY <1>0, <2>1 DEF PlaywrightInv, Equipped, Ruled!TurboProblem
  <2> QED
    BY <1>0, <2>1, <2>2, <2>3 DEF ChecksInv
<1> QED
  BY <1>1, <1>2, <1>3, <1>4, <1>5, <1>6, <1>7, <1>8, <1>9, <1>10 DEF Ruled!Next

(* The legs: who merges into main has passed every step on every family.     *)
LEMMA LegsEnforced ==
    ASSUME ChecksInv, check = "legs", outcome = "pass"
    PROVE  /\ \A family \in Families : Ruled!Waits(docs, "main", family)
           /\ docs.rules.contexts \subseteq Ruled!LegNames(docs.job)
           /\ \A breaks \in SUBSET DOMAIN docs.job.steps, draft \in BOOLEAN :
                 Ruled!Succeeds(docs.job, breaks, draft) => Ruled!Passed(docs.job, breaks, draft)
<1>1. /\ ~Ruled!JobProblem(docs.job) /\ ~Ruled!MatrixProblem(docs.job)
      /\ ~Ruled!EnvelopeProblem(docs.rules) /\ ~Ruled!ContextProblem(docs)
  BY DEF ChecksInv, LegsInv
<1>2. ASSUME NEW family \in Families PROVE Ruled!Waits(docs, "main", family)
  <2>1. docs.job.named /\ docs.job.onRunner
    BY <1>1 DEF Ruled!JobProblem
  <2>2. /\ docs.rules.active /\ docs.rules.branch
        /\ "main" \in docs.rules.include \ docs.rules.exclude
    BY <1>1 DEF Ruled!EnvelopeProblem
  <2>3. family \in docs.rules.contexts
    BY <1>1 DEF Ruled!MatrixProblem, Ruled!ContextProblem
  <2>4. \A i \in DOMAIN docs.job.include :
            docs.job.include[i].name = family => docs.job.include[i].runner = family
    BY <1>1 DEF Ruled!MatrixProblem, Ruled!LegProblem
  <2> QED
    BY <2>1, <2>2, <2>3, <2>4 DEF Ruled!Waits
<1>3. ASSUME NEW breaks \in SUBSET DOMAIN docs.job.steps, NEW draft \in BOOLEAN,
             Ruled!Succeeds(docs.job, breaks, draft), NEW i \in DOMAIN docs.job.steps
      PROVE  IF i = 1 /\ docs.job.steps[i].draft THEN ~draft
             ELSE Ruled!Holds(docs.job.steps[i], draft) /\ i \notin breaks
  <2>1. ~docs.job.conditional /\ ~docs.job.continues /\ ~Ruled!StepProblem(docs.job.steps, i)
    BY <1>1 DEF Ruled!JobProblem
  <2>2. ~Ruled!Fails(docs.job.steps[i], i \in breaks, draft)
    BY <1>3, <2>1 DEF Ruled!Succeeds, Ruled!StepProblem
  <2> QED
    BY <2>1, <2>2 DEF Ruled!StepProblem, Ruled!DraftStepProblem, Ruled!Fails, Ruled!Holds
<1> QED
  BY <1>1, <1>2, <1>3 DEF Ruled!ContextProblem, Ruled!Passed

(* The containers: their version is that of the lockfile, and the path of    *)
(* the browsers reaches the tests.                                           *)
LEMMA PlaywrightEnforced ==
    ASSUME ChecksInv, check = "playwright", outcome = "pass",
           NEW i \in DOMAIN docs.workflows, NEW container \in Ruled!Containers(docs.workflows[i])
    PROVE  /\ docs.lock = {container.version}
           /\ "unset" \in {container.env, container.containerEnv} => Ruled!Effective(container) = "right"
           /\ docs.turbo.passesAll \/ container.tasks \cup {E2e} \subseteq docs.turbo.passes
<1>1. /\ Equipped(docs.workflows[i]) /\ IsFiniteSet(docs.lock)
      /\ Ruled!LockVersion(docs.lock) # 0
      /\ tasks # {} => ~Ruled!TurboProblem(docs.turbo)
  BY DEF ChecksInv, PlaywrightInv
<1>2. ~Ruled!ContainerProblem(container, Ruled!LockVersion(docs.lock)) /\ container.tasks \cup {E2e} \subseteq tasks
  BY <1>1 DEF Equipped
<1>3. container.version = Ruled!LockVersion(docs.lock) /\ ~Ruled!BrowsersPathProblem(container)
  BY <1>1, <1>2 DEF Ruled!ContainerProblem, Ruled!ImageProblem
<1>4. Ruled!Cardinality(docs.lock) = Cardinality(docs.lock)
  BY DEF Ruled!Cardinality, Cardinality
<1>5. Cardinality(docs.lock) = 1 /\ container.version = CHOOSE v \in docs.lock : TRUE
  BY <1>1, <1>3, <1>4 DEF Ruled!LockVersion
<1>6. PICK v : docs.lock = {v}
  BY <1>1, <1>5, FS_Singleton
<1> QED
  BY <1>1, <1>2, <1>3, <1>5, <1>6
  DEF Ruled!BrowsersPathProblem, Ruled!Effective, Ruled!TurboProblem

(* A check of the repository's own workflows that passes means what their    *)
(* documents promise, in whatever order the files are read, and the score    *)
(* that passes is that of this commit, whatever is published meanwhile.      *)
THEOREM PassMeansEnforcedCorrect ==
    ASSUME ChecksAssumption
    PROVE  Ruled!Spec => []PassMeansEnforced
<1>1. Ruled!Init => ChecksInv
  BY InitChecksInv
<1>2. ChecksInv /\ [Ruled!Next]_(Ruled!vars) => ChecksInv'
  BY NextChecksInv
<1>3. ChecksInv => PassMeansEnforced
  <2> SUFFICES ASSUME ChecksInv PROVE PassMeansEnforced
    OBVIOUS
  <2>1. ASSUME check = "timeouts", outcome = "pass", NEW i \in DOMAIN docs,
               NEW j \in DOMAIN docs[i].jobs, ~docs[i].jobs[j].uses
        PROVE  Ruled!EndsAfter(docs[i].jobs[j]) <= MaxMinutes
    <3>1. Bounded(docs[i])
      BY <2>1 DEF ChecksInv, TimeoutsInv
    <3>2. /\ docs[i].jobs[j].timeout.form = "integer"
          /\ docs[i].jobs[j].timeout.minutes \in MinMinutes..MaxMinutes
      BY <2>1, <3>1 DEF Bounded, Ruled!TimeoutProblem
    <3>3. Ruled!EndsAfter(docs[i].jobs[j]) \in MinMinutes..MaxMinutes
      BY <3>2 DEF Ruled!EndsAfter
    <3> QED
      BY <3>3 DEF ChecksAssumption
  <2>2. check = "scorecard" =>
          /\ outcome = "pass" => judged.commit = Commit /\ judged.score >= Threshold
          /\ outcome = "fail" /\ judged.commit = Commit => judged.score < Threshold
    BY DEF ChecksInv, ScorecardInv
  <2> QED
    BY <2>1, <2>2, LegsEnforced, PlaywrightEnforced DEF PassMeansEnforced, Ruled!PassMeansEnforced
<1> QED
  BY <1>1, <1>2, <1>3, PTL DEF Ruled!Spec
------------------------------------------------------------------------------
(* PublishChecks: any packages, imports, ranges and releases.                *)

\* There are finitely many packages.  What a tree says of them is about
\* packages, modules and peers; a range is not the value that stands for none,
\* and the peer ranges are of peers, of which Typescript is one.
Workspaces ==
    [files : SUBSET (Packages \X BOOLEAN), private : SUBSET Packages,
     imports : SUBSET [from : Packages, to : Packages \cup Modules, story : BOOLEAN,
                       erased : BOOLEAN, lost : BOOLEAN],
     fields : [Packages -> [Packages \cup Modules -> SUBSET Publish!DependencyFields]],
     range : [Packages -> [Packages -> [form : STRING, admits : SUBSET Nat]]],
     version : [Packages -> Nat],
     peer : [Packages -> [Peers -> Ranges \cup {None}]],
     optional : SUBSET Packages, texts : [Packages -> SUBSET Publish!Texts]]
PublishAssumption ==
    /\ IsFiniteSet(Packages) /\ Typescript \in Peers
    /\ None \notin Nat /\ None \notin Ranges
    /\ Admits \in [Ranges -> SUBSET Nat] /\ PeerRange \in [Peers -> Ranges]
    /\ Registries \subseteq [Peers -> SUBSET Nat] /\ Releases \subseteq Nat
    /\ \A of \in {"cycles", "declared", "archives", "pin"} : Trees[of] \subseteq Workspaces

Frames == [node : Packages, left : SUBSET Packages]
Releasing == Nat \cup {None}
PublishTypeOK ==
    /\ tree \in Workspaces
    /\ registry \in [Peers -> SUBSET Nat]
    /\ checking \in {"cycles", "declared", "archives", "pin", "verify"}
    /\ publishing \in {"begin", "cruise", "report", "search", "view", "ended"}
    /\ ending \in {"none", "pass", "fail"}
    /\ colour \in [Packages -> {"white", "grey", "black"}]
    /\ searched \in Seq(Frames) /\ stepped \in Nat
    /\ floors \in [Peers -> Releasing]
    /\ known \in [Peers -> SUBSET Nat]

(* A package is black when the search has left it, after all it imports:     *)
(* the order in which they were left is one of what is imported first.       *)
Blacks == {p \in Packages : colour[p] = "black"}
IsOrder(order, among) ==
    /\ order \in [among -> 1..Cardinality(among)]
    /\ \A edge \in Publish!Graph :
          edge[1] \in among => edge[2] \in among /\ order[edge[2]] < order[edge[1]]
LeftInOrder == \E order \in [Blacks -> 1..Cardinality(Blacks)] : IsOrder(order, Blacks)

(* The frames are a path of the grey packages, and what each has looked at   *)
(* already is black or the next one on it.                                   *)
OnPath ==
    /\ \A i, k \in DOMAIN searched : searched[i].node = searched[k].node => i = k
    /\ \A p \in Packages : colour[p] = "grey" <=> \E i \in DOMAIN searched : searched[i].node = p
    /\ \A i \in 1..Len(searched) - 1 : <<searched[i].node, searched[i + 1].node>> \in Publish!Graph
    /\ \A i \in DOMAIN searched :
          /\ searched[i].left \subseteq Publish!Neighbours(searched[i].node)
          /\ \A q \in Publish!Neighbours(searched[i].node) \ searched[i].left :
                colour[q] = "black" \/ (i < Len(searched) /\ q = searched[i + 1].node)

(* Every step but the last leaves a package or looks along an edge.          *)
Pending ==
    {e \in Publish!Graph :
        \/ colour[e[1]] = "white"
        \/ \E i \in DOMAIN searched : searched[i].node = e[1] /\ e[2] \in searched[i].left}
WithinSteps ==
    stepped + Cardinality(Packages \ Blacks) + Cardinality(Pending)
        <= Cardinality(Packages) + Cardinality(Publish!Graph)

IsCircle(s) ==
    /\ Head(s) = s[Len(s)] /\ Len(s) > 1
    /\ \A i \in 1..Len(s) - 1 : <<s[i], s[i + 1]>> \in Publish!Graph

SearchInv ==
    /\ publishing = "search" => checking = "cycles" /\ OnPath /\ WithinSteps /\ LeftInOrder
    /\ checking = "cycles" /\ publishing \in {"begin", "cruise", "report"} =>
          searched = <<>> /\ LeftInOrder /\ \A p \in Packages : colour[p] # "grey"
    /\ checking = "cycles" /\ ending = "pass" => LeftInOrder /\ Blacks = Packages
    /\ cycle # <<>> => IsCircle(cycle)

VerdictInv ==
    /\ ending # "none" => publishing = "ended"
    /\ publishing \in {"report", "search"} => analysed = tree.files
    /\ checking = "cycles" /\ ending = "pass" => analysed = tree.files
    /\ checking = "declared" /\ ending = "pass" =>
          /\ \A i \in tree.imports : ~Publish!ImportViolation(i)
          /\ \A p, q \in Packages : ~Publish!RangeViolation(p, q)
    /\ checking = "archives" /\ ending = "pass" =>
          Publish!Published # {} /\ \A p \in Publish!Published : ~Publish!Gaps(p)

(* A floor that is read is the least release that the registry had when the  *)
(* script began, or one released since, that every range of the peer admits. *)
IsFloor(q) ==
    /\ Publish!RangesOf(q) # {}
    /\ \A r \in Publish!RangesOf(q) : floors[q] \in Admits[r]
    /\ \A v \in known[q] : (\A r \in Publish!RangesOf(q) : v \in Admits[r]) => v >= floors[q]
AreFloors == \A q \in Peers : floors[q] # None => IsFloor(q)
FloorInv ==
    /\ \A q \in Peers : known[q] \subseteq registry[q]
    /\ publishing = "view" => checking \in {"pin", "verify"} /\ ~Publish!Conflict /\ AreFloors
    /\ checking = "verify" /\ ending = "pass" =>
          /\ ~Publish!Conflict /\ AreFloors /\ Publish!Unread = {}
          /\ \A p \in Publish!Published, q \in Peers : ~Publish!InstalledGap(p, q)

PublishInv == PublishTypeOK /\ SearchInv /\ VerdictInv /\ FloorInv

LEMMA SameCardinality ==
    ASSUME NEW S
    PROVE  Publish!Cardinality(S) = Cardinality(S)
  BY DEF Publish!Cardinality, Cardinality

\* The tree is what it is while the scripts run.
LEMMA SameTree ==
    ASSUME tree' = tree
    PROVE  /\ Publish!Graph' = Publish!Graph /\ Publish!Published' = Publish!Published
           /\ Publish!Conflict' = Publish!Conflict
           /\ \A p : Publish!Neighbours(p)' = Publish!Neighbours(p)
           /\ \A q : Publish!RangesOf(q)' = Publish!RangesOf(q)
           /\ \A p : Publish!Gaps(p)' = Publish!Gaps(p)
           /\ \A i : Publish!ImportViolation(i)' = Publish!ImportViolation(i)
           /\ \A p, q : Publish!RangeViolation(p, q)' = Publish!RangeViolation(p, q)
<1>1. Publish!Graph' = Publish!Graph /\ Publish!Published' = Publish!Published
  BY DEF Publish!Graph, Publish!Published
<1>2. \A p : Publish!Neighbours(p)' = Publish!Neighbours(p)
  BY <1>1 DEF Publish!Neighbours
<1>3. \A q : Publish!RangesOf(q)' = Publish!RangesOf(q)
  BY <1>1 DEF Publish!RangesOf
<1>4. Publish!Conflict' = Publish!Conflict
  BY <1>3 DEF Publish!Conflict
<1>5. \A p : Publish!Gaps(p)' = Publish!Gaps(p)
  BY DEF Publish!Gaps, Publish!TypescriptPeerGap, Publish!PeerRangeGap
<1>6. \A i : Publish!ImportViolation(i)' = Publish!ImportViolation(i)
  BY DEF Publish!ImportViolation
<1>7. \A p, q : Publish!RangeViolation(p, q)' = Publish!RangeViolation(p, q)
  BY DEF Publish!RangeViolation, Publish!RangeProblem
<1> QED
  BY <1>1, <1>2, <1>3, <1>4, <1>5, <1>6, <1>7

LEMMA GraphIsFinite ==
    ASSUME PublishAssumption, tree \in Workspaces
    PROVE  /\ Publish!Graph \subseteq Packages \X Packages /\ IsFiniteSet(Publish!Graph)
           /\ Cardinality(Publish!Graph) \in Nat /\ Cardinality(Packages) \in Nat
<1>1. Publish!Graph \subseteq Packages \X Packages
  <2>1. \A i \in tree.imports : i.from \in Packages
    BY DEF Workspaces
  <2> QED
    BY <2>1 DEF Publish!Graph
<1>2. IsFiniteSet(Packages \X Packages)
  BY FS_Product DEF PublishAssumption
<1>3. IsFiniteSet(Publish!Graph)
  BY <1>1, <1>2, FS_Subset
<1> QED
  BY <1>1, <1>3, FS_CardinalityType DEF PublishAssumption

------------------------------------------------------------------------------
(* findCycle().                                                              *)

LEMMA OrderGrows ==
    ASSUME PublishAssumption, tree \in Workspaces, NEW among, among \subseteq Packages,
           NEW order, IsOrder(order, among),
           NEW p \in Packages \ among, Publish!Neighbours(p) \subseteq among
    PROVE  \E longer \in [among \cup {p} -> 1..Cardinality(among \cup {p})] : IsOrder(longer, among \cup {p})
<1> DEFINE all == among \cup {p}
           n == Cardinality(among)
           longer == [q \in all |-> IF q = p THEN n + 1 ELSE order[q]]
<1>1. IsFiniteSet(among) /\ n \in Nat /\ Cardinality(all) = n + 1
  <2>1. IsFiniteSet(among)
    BY FS_Subset DEF PublishAssumption
  <2> QED
    BY <2>1, FS_CardinalityType, FS_AddElement
<1>2. \A q \in among : order[q] \in 1..n
  BY DEF IsOrder
<1>3. longer \in [all -> 1..Cardinality(all)]
  <2> SUFFICES ASSUME NEW q \in all PROVE longer[q] \in 1..(n + 1)
    BY <1>1
  <2>1. CASE q = p
    BY <2>1, <1>1
  <2>2. CASE q # p
    <3>1. order[q] \in 1..n /\ longer[q] = order[q]
      BY <2>2, <1>2
    <3> QED
      BY <3>1, <1>1
  <2> QED
    BY <2>1, <2>2
<1>4. ASSUME NEW edge \in Publish!Graph, edge[1] \in all
      PROVE  edge[2] \in all /\ longer[edge[2]] < longer[edge[1]]
  <2>1. edge[1] \in Packages /\ edge[2] \in Packages /\ edge = <<edge[1], edge[2]>>
    BY GraphIsFinite
  <2>2. CASE edge[1] = p
    <3>1. edge[2] \in among
      BY <2>1, <2>2 DEF Publish!Neighbours
    <3>2. order[edge[2]] \in 1..n /\ longer[edge[2]] = order[edge[2]] /\ longer[p] = n + 1
      BY <3>1, <1>2
    <3> QED
      BY <3>1, <3>2, <2>2, <1>1
  <2>3. CASE edge[1] # p
    <3>1. edge[1] \in among /\ edge[2] \in among /\ order[edge[2]] < order[edge[1]]
      BY <2>3, <1>4 DEF IsOrder
    <3> QED
      BY <3>1
  <2> QED
    BY <2>2, <2>3
<1> HIDE DEF longer
<1>5. IsOrder(longer, all)
  BY <1>3, <1>4 DEF IsOrder
<1> QED
  BY <1>3, <1>5

(* An order of all packages, backwards, is a rank.                           *)
LEMMA OrderedIsAcyclic ==
    ASSUME PublishAssumption, tree \in Workspaces, LeftInOrder, Blacks = Packages
    PROVE  Publish!Acyclic
<1> DEFINE n == Cardinality(Packages)
<1>1. n \in Nat /\ Publish!Cardinality(Packages) = n
  BY GraphIsFinite, SameCardinality
<1>2. PICK order \in [Packages -> 1..n] : IsOrder(order, Packages)
  BY DEF LeftInOrder
<1> DEFINE rank == [p \in Packages |-> n + 1 - order[p]]
<1>3. \A p \in Packages : order[p] \in 1..n
  BY <1>2
<1>4. rank \in [Packages -> 1..n]
  BY <1>1, <1>3
<1>5. ASSUME NEW edge \in Publish!Graph PROVE rank[edge[1]] < rank[edge[2]]
  <2>1. edge[1] \in Packages /\ edge[2] \in Packages
    BY GraphIsFinite
  <2>2. order[edge[2]] < order[edge[1]] /\ order[edge[1]] \in 1..n /\ order[edge[2]] \in 1..n
    BY <2>1, <1>2, <1>3 DEF IsOrder
  <2> QED
    BY <2>1, <2>2, <1>1
<1> QED
  BY <1>1, <1>4, <1>5 DEF Publish!Acyclic

LEMMA VerdictStays ==
    ASSUME VerdictInv, tree' = tree,
           ending' # "none" => publishing' = "ended",
           publishing' \in {"report", "search"} =>
              publishing \in {"report", "search"} /\ analysed' = analysed,
           checking' \in {"cycles", "declared", "archives"} /\ ending' = "pass" =>
              checking' = checking /\ ending = "pass" /\ analysed' = analysed
    PROVE  VerdictInv'
  BY SameTree DEF VerdictInv

LEMMA FloorsStay ==
    ASSUME FloorInv, tree' = tree, floors' = floors, known' = known,
           \A q \in Peers : registry[q] \subseteq registry'[q],
           publishing' = "view" => publishing = "view" /\ checking' = checking,
           checking' = "verify" /\ ending' = "pass" =>
              checking = "verify" /\ ending = "pass" /\ installed' = installed
    PROVE  FloorInv'
<1>1. /\ Publish!Published' = Publish!Published /\ Publish!Conflict' = Publish!Conflict
      /\ \A q : Publish!RangesOf(q)' = Publish!RangesOf(q)
  BY SameTree
<1>2. AreFloors => AreFloors'
  BY <1>1 DEF AreFloors, IsFloor
<1>3. Publish!Unread' = Publish!Unread
  BY <1>1 DEF Publish!Unread
<1>4. installed' = installed =>
         \A p \in Packages, q \in Peers : Publish!InstalledGap(p, q)' = Publish!InstalledGap(p, q)
  BY DEF Publish!InstalledGap
<1>5. Publish!Published \subseteq Packages
  BY DEF Publish!Published
<1> QED
  BY <1>1, <1>2, <1>3, <1>4, <1>5 DEF FloorInv

LEMMA OrderStays ==
    ASSUME tree' = tree, Blacks' = Blacks, LeftInOrder
    PROVE  LeftInOrder'
<1>1. Publish!Graph' = Publish!Graph
  BY SameTree
<1>2. PICK order \in [Blacks -> 1..Cardinality(Blacks)] : IsOrder(order, Blacks)
  BY DEF LeftInOrder
<1>3. IsOrder(order, Blacks)'
  BY <1>1, <1>2 DEF IsOrder
<1> QED
  BY <1>2, <1>3 DEF LeftInOrder

LEMMA PendingIsFinite ==
    ASSUME PublishAssumption, PublishTypeOK
    PROVE  /\ IsFiniteSet(Pending) /\ Cardinality(Pending) \in Nat
           /\ IsFiniteSet(Packages \ Blacks) /\ Cardinality(Packages \ Blacks) \in Nat
<1>1. Pending \subseteq Publish!Graph /\ IsFiniteSet(Publish!Graph) /\ IsFiniteSet(Packages)
  BY GraphIsFinite DEF Pending, PublishTypeOK, PublishAssumption
<1>2. IsFiniteSet(Pending) /\ IsFiniteSet(Packages \ Blacks)
  BY <1>1, FS_Subset
<1> QED
  BY <1>2, FS_CardinalityType

(* What does not search leaves what is known of the search.                  *)
LEMMA SearchStays ==
    ASSUME SearchInv, tree' = tree, UNCHANGED <<colour, searched, stepped, cycle>>,
           publishing' = "search" => publishing = "search" /\ checking' = checking,
           checking' = "cycles" =>
              /\ checking = "cycles"
              /\ publishing' \in {"begin", "cruise", "report"} => publishing \in {"begin", "cruise", "report"}
              /\ ending' = "pass" => ending = "pass"
    PROVE  SearchInv'
<1>1. Publish!Graph' = Publish!Graph /\ \A p : Publish!Neighbours(p)' = Publish!Neighbours(p)
  BY SameTree
<1>2. Blacks' = Blacks
  BY DEF Blacks
<1>3. LeftInOrder => LeftInOrder'
  BY <1>2, OrderStays
<1>4. OnPath => OnPath'
  BY <1>1 DEF OnPath
<1>5. Pending' = Pending
  BY <1>1 DEF Pending
<1>6. WithinSteps => WithinSteps'
  BY <1>1, <1>2, <1>5 DEF WithinSteps
<1>7. IsCircle(cycle) => IsCircle(cycle)'
  BY <1>1 DEF IsCircle
<1> QED
  BY <1>2, <1>3, <1>4, <1>6, <1>7 DEF SearchInv

LEMMA NextRootInv ==
    ASSUME PublishAssumption, PublishInv, Publish!NextRoot
    PROVE  SearchInv'
<1>1. /\ checking = "cycles" /\ publishing = "report" /\ ending = "none"
      /\ tree' = tree /\ checking' = checking
  BY DEF Publish!NextRoot, PublishInv, VerdictInv, PublishTypeOK
<1>2. /\ tree \in Workspaces /\ PublishTypeOK
      /\ searched = <<>> /\ LeftInOrder /\ \A p \in Packages : colour[p] # "grey"
      /\ cycle # <<>> => IsCircle(cycle)
  BY <1>1 DEF PublishInv, SearchInv, PublishTypeOK
<1>3. Publish!Graph' = Publish!Graph /\ \A p : Publish!Neighbours(p)' = Publish!Neighbours(p)
  BY <1>1, SameTree
<1>4. IsCircle(cycle) => IsCircle(cycle)'
  BY <1>1, <1>3 DEF IsCircle, Publish!NextRoot, Publish!searchVars
<1>5. CASE \E p \in Packages : colour[p] = "white"
  <2>1. PICK p \in Packages :
           /\ colour[p] = "white"
           /\ colour' = [colour EXCEPT ![p] = "grey"]
           /\ searched' = <<[node |-> p, left |-> Publish!Neighbours(p)]>>
           /\ stepped' = 0 /\ publishing' = "search"
           /\ UNCHANGED <<ending, cycle>>
    BY <1>5 DEF Publish!NextRoot
  <2>2. Blacks' = Blacks
    BY <1>2, <2>1 DEF Blacks, PublishTypeOK
  <2>3. LeftInOrder'
    BY <1>1, <1>2, <2>2, OrderStays
  <2>4. DOMAIN searched' = {1} /\ Len(searched') = 1 /\ searched'[1].node = p
        /\ searched'[1].left = Publish!Neighbours(p)
    BY <2>1
  <2>5. OnPath'
    <3>1. \A q \in Packages : colour'[q] = "grey" <=> q = p
      BY <1>2, <2>1 DEF PublishTypeOK
    <3> QED
      BY <1>3, <2>4, <3>1 DEF OnPath
  <2>6. WithinSteps'
    <3>1. Pending' \subseteq Publish!Graph /\ Packages \ Blacks' \subseteq Packages
      BY <1>3 DEF Pending
    <3>2. IsFiniteSet(Publish!Graph) /\ IsFiniteSet(Packages)
          /\ Cardinality(Publish!Graph) \in Nat /\ Cardinality(Packages) \in Nat
      BY <1>2, GraphIsFinite DEF PublishAssumption
    <3>3. IsFiniteSet(Pending') /\ Cardinality(Pending') <= Cardinality(Publish!Graph)
      BY <3>1, <3>2, FS_Subset
    <3>4. IsFiniteSet(Packages \ Blacks') /\ Cardinality(Packages \ Blacks') <= Cardinality(Packages)
      BY <3>1, <3>2, FS_Subset
    <3>5. Cardinality(Pending') \in Nat /\ Cardinality(Packages \ Blacks') \in Nat
      BY <3>3, <3>4, FS_CardinalityType
    <3> QED
      BY <1>3, <2>1, <3>2, <3>3, <3>4, <3>5 DEF WithinSteps
  <2>7. cycle' = cycle /\ ending' = "none" /\ publishing' = "search" /\ checking' = "cycles"
    BY <1>1, <2>1
  <2> QED
    BY <1>2, <1>4, <2>3, <2>5, <2>6, <2>7 DEF SearchInv
<1>6. CASE ~ \E p \in Packages : colour[p] = "white"
  <2>1. publishing' = "ended" /\ UNCHANGED <<colour, searched, stepped, cycle>>
    BY <1>6 DEF Publish!NextRoot, Publish!Exit, Publish!searchVars
  <2>2. Blacks = Packages
    BY <1>2, <1>6 DEF Blacks, PublishTypeOK
  <2>3. Blacks' = Blacks
    BY <2>1 DEF Blacks
  <2>4. LeftInOrder'
    BY <1>1, <1>2, <2>3, OrderStays
  <2> QED
    BY <1>2, <1>4, <2>1, <2>2, <2>3, <2>4 DEF SearchInv
<1> QED
  BY <1>5, <1>6

LEMMA LeaveInv ==
    ASSUME PublishAssumption, PublishInv, publishing = "search", tree' = tree,
           Publish!Leave, stepped' = stepped + 1
    PROVE  OnPath' /\ WithinSteps' /\ LeftInOrder'
<1> DEFINE n == Len(searched)
           p == searched[n].node
<1>1. /\ PublishTypeOK /\ OnPath /\ WithinSteps /\ LeftInOrder /\ tree \in Workspaces
      /\ Publish!Graph' = Publish!Graph /\ \A q : Publish!Neighbours(q)' = Publish!Neighbours(q)
  BY SameTree DEF PublishInv, SearchInv, PublishTypeOK
<1>2. /\ n \in Nat \ {0} /\ n \in DOMAIN searched /\ searched[n] \in Frames /\ p \in Packages
      /\ DOMAIN searched = 1..n /\ searched[n].left = {}
      /\ colour' = [colour EXCEPT ![p] = "black"]
  <2>1. /\ searched # <<>> /\ searched[n].left = {}
        /\ colour' = [colour EXCEPT ![p] = "black"]
    BY DEF Publish!Leave, Publish!Top
  <2>2. n \in Nat \ {0} /\ DOMAIN searched = 1..n /\ n \in 1..n
    BY <1>1, <2>1 DEF PublishTypeOK
  <2>3. searched[n] \in Frames
    BY <1>1, <2>2 DEF PublishTypeOK
  <2> QED
    BY <2>1, <2>2, <2>3 DEF Frames
<1>3. /\ searched' = SubSeq(searched, 1, n - 1) /\ Len(searched') = n - 1
      /\ DOMAIN searched' = 1..(n - 1) /\ \A i \in 1..(n - 1) : searched'[i] = searched[i]
  BY <1>1, <1>2 DEF PublishTypeOK, Publish!Leave
<1>4. /\ colour[p] = "grey"
      /\ \A q \in Packages : colour'[q] = IF q = p THEN "black" ELSE colour[q]
  BY <1>1, <1>2 DEF OnPath, PublishTypeOK
<1> HIDE DEF p, n
<1>5. Blacks' = Blacks \cup {p} /\ p \in Packages \ Blacks
  BY <1>2, <1>4 DEF Blacks
<1>6. OnPath'
  <2>1. \A i, k \in DOMAIN searched' : searched'[i].node = searched'[k].node => i = k
    BY <1>1, <1>2, <1>3 DEF OnPath
  <2>2. ASSUME NEW q \in Packages
        PROVE  colour'[q] = "grey" <=> \E i \in DOMAIN searched' : searched'[i].node = q
    <3>1. CASE q = p
      <4>1. colour'[q] # "grey"
        BY <1>4, <3>1
      <4>2. ASSUME NEW i \in DOMAIN searched', searched'[i].node = q PROVE FALSE
        <5>1. i \in 1..n /\ i # n /\ searched[i].node = searched[n].node
          BY <1>2, <1>3, <3>1, <4>2 DEF p
        <5> QED
          BY <5>1, <1>1, <1>2 DEF OnPath
      <4> QED
        BY <4>1, <4>2
    <3>2. CASE q # p
      <4>1. \A i \in 1..n : searched[i].node = q => i \in 1..(n - 1)
        BY <1>2, <3>2 DEF p
      <4>2. 1..(n - 1) \subseteq 1..n
        BY <1>2
      <4>3. (\E i \in 1..n : searched[i].node = q) <=> (\E i \in 1..(n - 1) : searched'[i].node = q)
        BY <1>3, <4>1, <4>2
      <4>4. colour[q] = "grey" <=> \E i \in 1..n : searched[i].node = q
        BY <1>1, <1>2 DEF OnPath
      <4> QED
        BY <1>3, <1>4, <3>2, <4>3, <4>4
    <3> QED
      BY <3>1, <3>2
  <2>3. \A i \in 1..Len(searched') - 1 : <<searched'[i].node, searched'[i + 1].node>> \in Publish!Graph'
    <3> SUFFICES ASSUME NEW i \in 1..((n - 1) - 1)
                 PROVE  <<searched'[i].node, searched'[i + 1].node>> \in Publish!Graph
      BY <1>1, <1>2, <1>3
    <3>1. i \in 1..(n - 1) /\ i + 1 \in 1..(n - 1)
      BY <1>2
    <3> QED
      BY <1>1, <1>3, <3>1 DEF OnPath, n
  <2>4. ASSUME NEW i \in DOMAIN searched'
        PROVE  /\ searched'[i].left \subseteq Publish!Neighbours(searched'[i].node)
               /\ \A q \in Publish!Neighbours(searched'[i].node) \ searched'[i].left :
                     colour'[q] = "black" \/ (i < Len(searched') /\ q = searched'[i + 1].node)
    <3>1. i \in 1..(n - 1) /\ i \in DOMAIN searched /\ searched'[i] = searched[i]
      BY <1>2, <1>3
    <3>2. searched[i].left \subseteq Publish!Neighbours(searched[i].node)
      BY <1>1, <3>1 DEF OnPath
    <3>3. ASSUME NEW q \in Publish!Neighbours(searched[i].node) \ searched[i].left
          PROVE  colour'[q] = "black" \/ (i < n - 1 /\ q = searched'[i + 1].node)
      <4>1. q \in Packages
        BY DEF Publish!Neighbours
      <4>2. colour[q] = "black" \/ (i < n /\ q = searched[i + 1].node)
        BY <1>1, <3>1, <3>3 DEF OnPath, n
      <4>3. CASE colour[q] = "black"
        BY <1>4, <4>1, <4>3
      <4>4. CASE i = n - 1 /\ q = searched[i + 1].node
        BY <1>2, <1>4, <4>1, <4>4 DEF p
      <4>5. CASE i # n - 1 /\ q = searched[i + 1].node
        <5>1. i + 1 \in 1..(n - 1) /\ i < n - 1
          BY <1>2, <3>1, <4>5
        <5> QED
          BY <1>3, <4>5, <5>1
      <4> QED
        BY <4>2, <4>3, <4>4, <4>5
    <3> QED
      BY <1>3, <3>1, <3>2, <3>3
  <2> QED
    BY <1>1, <2>1, <2>2, <2>3, <2>4 DEF OnPath
<1>7. LeftInOrder'
  <2>1. PICK order \in [Blacks -> 1..Cardinality(Blacks)] : IsOrder(order, Blacks)
    BY <1>1 DEF LeftInOrder
  <2>2. Publish!Neighbours(p) \subseteq Blacks
    <3>1. \A q \in Publish!Neighbours(searched[n].node) : colour[q] = "black"
      BY <1>1, <1>2 DEF OnPath, n
    <3> QED
      BY <3>1 DEF Blacks, p, Publish!Neighbours
  <2>3. Blacks \subseteq Packages
    BY DEF Blacks
  <2>4. PICK longer \in [Blacks \cup {p} -> 1..Cardinality(Blacks \cup {p})] :
           IsOrder(longer, Blacks \cup {p})
    BY <1>1, <1>5, <2>1, <2>2, <2>3, OrderGrows
  <2>5. IsOrder(longer, Blacks)'
    BY <1>1, <1>5, <2>4 DEF IsOrder
  <2> QED
    BY <1>5, <2>4, <2>5 DEF LeftInOrder
<1>8. WithinSteps'
  <2>1. Packages \ Blacks' = (Packages \ Blacks) \ {p} /\ p \in Packages \ Blacks
    BY <1>5
  <2>2. /\ IsFiniteSet(Packages \ Blacks) /\ Cardinality(Packages \ Blacks) \in Nat
        /\ IsFiniteSet(Pending) /\ Cardinality(Pending) \in Nat
    BY <1>1, PendingIsFinite
  <2>3. Cardinality(Packages \ Blacks') = Cardinality(Packages \ Blacks) - 1
    BY <2>1, <2>2, FS_RemoveElement
  <2>4. Pending' \subseteq Pending
    <3> SUFFICES ASSUME NEW e \in Publish!Graph,
                        \/ colour'[e[1]] = "white"
                        \/ \E i \in DOMAIN searched' : searched'[i].node = e[1] /\ e[2] \in searched'[i].left
                 PROVE  e \in Pending
      BY <1>1 DEF Pending
    <3>1. e[1] \in Packages /\ 1..(n - 1) \subseteq 1..n
      BY <1>1, <1>2, GraphIsFinite
    <3> QED
      BY <1>2, <1>3, <1>4, <3>1 DEF Pending
  <2>5. IsFiniteSet(Pending') /\ Cardinality(Pending') <= Cardinality(Pending)
    BY <2>2, <2>4, FS_Subset
  <2>6. Cardinality(Pending') \in Nat
    BY <2>5, FS_CardinalityType
  <2>7. Cardinality(Packages) \in Nat /\ Cardinality(Publish!Graph) \in Nat /\ stepped \in Nat
    BY <1>1, GraphIsFinite DEF PublishTypeOK
  <2> QED
    BY <1>1, <2>2, <2>3, <2>5, <2>6, <2>7 DEF WithinSteps
<1> QED
  BY <1>6, <1>7, <1>8

LEMMA Appended ==
    ASSUME NEW S, NEW t \in Seq(S), NEW x \in S, NEW m \in Nat, Len(t) = m
    PROVE  /\ t \o <<x>> \in Seq(S) /\ Len(t \o <<x>>) = m + 1
           /\ (t \o <<x>>)[m + 1] = x /\ \A i \in 1..m : (t \o <<x>>)[i] = t[i]
  OBVIOUS

\* A grey package is on the path: from there on, the path is a circle.
LEMMA PathIsCircle ==
    ASSUME PublishAssumption, PublishInv, publishing = "search",
           NEW next \in Publish!Top.left, searched # <<>>, colour[next] = "grey"
    PROVE  IsCircle(Publish!Circle(next))
<1> DEFINE n == Len(searched)
           path == Publish!Path
           I == {i \in 1..Len(path) : path[i] = next}
           k == Publish!PlaceOf(next)
           s == Publish!Circle(next)
<1>1. PublishTypeOK /\ OnPath
  BY DEF PublishInv, SearchInv
<1>2. n \in Nat \ {0} /\ DOMAIN searched = 1..n /\ \A i \in 1..n : searched[i] \in Frames
  BY <1>1 DEF PublishTypeOK
<1>3. path = [i \in 1..n |-> searched[i].node]
  BY <1>2 DEF Publish!Path
<1>4. path \in Seq(Packages) /\ Len(path) = n
  <2>1. path \in [1..n -> Packages]
    BY <1>2, <1>3 DEF Frames
  <2> QED
    BY <1>2, <2>1
<1>5. next \in Publish!Neighbours(searched[n].node)
  BY <1>1, <1>2 DEF OnPath, Publish!Top
<1>6. next \in Packages /\ <<searched[n].node, next>> \in Publish!Graph
  BY <1>5 DEF Publish!Neighbours
<1>7. I \subseteq Nat /\ I # {}
  <2>1. PICK i \in 1..n : searched[i].node = next
    BY <1>1, <1>2, <1>6 DEF OnPath
  <2>2. i \in I
    BY <1>3, <1>4, <2>1
  <2> QED
    BY <1>2, <1>4, <2>2
<1>8. k = Publish!Min(I)
  <2>1. DOMAIN path = 1..Len(path)
    BY <1>4
  <2> QED
    BY <2>1 DEF Publish!PlaceOf
<1> HIDE DEF k
<1>9. k \in I
  <2>1. \E i \in I : \A j \in I : i <= j
    BY <1>7, LeastNumber
  <2> QED
    BY <1>8, <2>1 DEF Publish!Min
<1>10. k \in 1..n /\ path[k] = next
  BY <1>4, <1>9
<1> HIDE DEF path
<1> DEFINE t == SubSeq(path, k, n)
<1>11. /\ t \in Seq(Packages) /\ Len(t) = n - k + 1
       /\ \A i \in 1..(n - k + 1) : t[i] = path[k + i - 1]
  BY <1>2, <1>4, <1>10
<1>12. s = t \o <<next>>
  BY <1>4 DEF k, path, Publish!Circle
<1> HIDE DEF s
<1> DEFINE m == n - k + 1
<1> HIDE DEF t, I
<1>13. m \in Nat \ {0} /\ m = n - k + 1 /\ k \in 1..n /\ n \in Nat
  BY <1>2, <1>10
<1>14. t \in Seq(Packages) /\ Len(t) = m /\ \A i \in 1..m : t[i] = path[k + i - 1]
  BY <1>11
<1> HIDE DEF m, n
<1>15. s \in Seq(Packages) /\ Len(s) = m + 1 /\ s[m + 1] = next /\ \A i \in 1..m : s[i] = t[i]
  <2>1. t \in Seq(Packages) /\ Len(t) = m /\ next \in Packages /\ m \in Nat
    BY <1>6, <1>13, <1>14
  <2>2. /\ t \o <<next>> \in Seq(Packages) /\ Len(t \o <<next>>) = m + 1
        /\ (t \o <<next>>)[m + 1] = next /\ \A i \in 1..m : (t \o <<next>>)[i] = t[i]
    BY <2>1, Appended
  <2> QED
    BY <2>2, <1>12
<1>16. s # <<>> /\ Head(s) = s[1] /\ s[Len(s)] = next
  <2>1. Len(s) # 0
    BY <1>13, <1>15
  <2>2. s # <<>> /\ Head(s) = s[1]
    BY <1>15, <2>1
  <2> QED
    BY <1>15, <2>2
<1>17. s[1] = next
  <2>1. 1 \in 1..m /\ k + 1 - 1 = k
    BY <1>13
  <2> QED
    BY <1>10, <1>14, <1>15, <2>1
<1>18. \A i \in 1..m : k + i - 1 \in 1..n /\ s[i] = searched[k + i - 1].node
  <2> SUFFICES ASSUME NEW i \in 1..m PROVE k + i - 1 \in 1..n /\ s[i] = searched[k + i - 1].node
    OBVIOUS
  <2>1. k + i - 1 \in 1..n
    BY <1>13
  <2> QED
    BY <1>3, <1>14, <1>15, <2>1
<1>19. ASSUME NEW i \in 1..m PROVE <<s[i], s[i + 1]>> \in Publish!Graph
  <2>1. CASE i = m
    <3>1. k + i - 1 = n
      BY <1>13, <2>1
    <3>2. s[i + 1] = next /\ s[i] = searched[k + i - 1].node
      BY <1>15, <1>18, <2>1
    <3> QED
      BY <1>6, <3>1, <3>2
  <2>2. CASE i # m
    <3> DEFINE j == k + i - 1
    <3>1. i + 1 \in 1..m /\ k + (i + 1) - 1 = j + 1 /\ j \in 1..n - 1
      BY <1>13, <2>2
    <3>2. s[i] = searched[j].node /\ s[i + 1] = searched[j + 1].node
      BY <1>18, <3>1
    <3> HIDE DEF j
    <3>3. <<searched[j].node, searched[j + 1].node>> \in Publish!Graph
      BY <1>1, <3>1 DEF OnPath, n
    <3> QED
      BY <3>2, <3>3
  <2> QED
    BY <2>1, <2>2
<1>20. Len(s) > 1 /\ Len(s) - 1 = m
  BY <1>13, <1>15
<1> QED
  BY <1>16, <1>17, <1>19, <1>20 DEF IsCircle, s

LEMMA StepCounts ==
    ASSUME PublishAssumption, PublishInv, publishing = "search", tree' = tree,
           stepped' = stepped + 1, Blacks' = Blacks,
           NEW i \in DOMAIN searched, NEW next \in searched[i].left,
           <<searched[i].node, next>> \in Publish!Graph,
           Pending' \subseteq Pending \ {<<searched[i].node, next>>}
    PROVE  WithinSteps'
<1>1. PublishTypeOK /\ WithinSteps /\ tree \in Workspaces /\ Publish!Graph' = Publish!Graph
  BY SameTree DEF PublishInv, SearchInv, PublishTypeOK
<1> DEFINE e == <<searched[i].node, next>>
<1>2. e \in Pending
  BY DEF Pending
<1>3. /\ IsFiniteSet(Pending) /\ Cardinality(Pending) \in Nat
      /\ Cardinality(Packages \ Blacks) \in Nat
  BY <1>1, PendingIsFinite
<1>4. IsFiniteSet(Pending \ {e}) /\ Cardinality(Pending \ {e}) = Cardinality(Pending) - 1
  BY <1>2, <1>3, FS_RemoveElement
<1>5. IsFiniteSet(Pending') /\ Cardinality(Pending') <= Cardinality(Pending) - 1
  BY <1>4, FS_Subset
<1>6. Cardinality(Pending') \in Nat
  BY <1>5, FS_CardinalityType
<1>7. Cardinality(Packages) \in Nat /\ Cardinality(Publish!Graph) \in Nat /\ stepped \in Nat
  BY <1>1, GraphIsFinite DEF PublishTypeOK
<1> QED
  BY <1>1, <1>3, <1>5, <1>6, <1>7 DEF WithinSteps

LEMMA LookInv ==
    ASSUME PublishAssumption, PublishInv, publishing = "search", tree' = tree,
           Publish!Look, stepped' = stepped + 1
    PROVE  /\ colour' \in [Packages -> {"white", "grey", "black"}] /\ searched' \in Seq(Frames)
           /\ \/ publishing' = "ended" /\ ending' = "fail" /\ IsCircle(cycle')
              \/ /\ UNCHANGED <<publishing, ending, cycle>>
                 /\ OnPath' /\ WithinSteps' /\ LeftInOrder'
<1> DEFINE n == Len(searched)
           p == searched[n].node
<1>1. /\ PublishTypeOK /\ OnPath /\ WithinSteps /\ LeftInOrder /\ tree \in Workspaces
      /\ Publish!Graph' = Publish!Graph /\ \A q : Publish!Neighbours(q)' = Publish!Neighbours(q)
  BY SameTree DEF PublishInv, SearchInv, PublishTypeOK
<1>2. PICK next \in Publish!Top.left : Publish!LookAt(next)
  BY DEF Publish!Look
<1> DEFINE looked == [searched EXCEPT ![n].left = @ \ {next}]
<1>3. /\ n \in Nat \ {0} /\ n \in 1..n /\ DOMAIN searched = 1..n
      /\ \A i \in 1..n : searched[i] \in Frames
  BY <1>1 DEF PublishTypeOK, Publish!Look
<1>4. p \in Packages /\ next \in searched[n].left /\ searched # <<>>
  BY <1>3 DEF Frames, Publish!Top, Publish!Look
<1>5. next \in Packages /\ <<p, next>> \in Publish!Graph
  <2>1. next \in Publish!Neighbours(p)
    BY <1>1, <1>3, <1>4 DEF OnPath
  <2> QED
    BY <2>1 DEF Publish!Neighbours
<1>6. /\ looked \in Seq(Frames) /\ Len(looked) = n /\ DOMAIN looked = 1..n
      /\ \A i \in 1..n : /\ looked[i].node = searched[i].node
                         /\ looked[i].left = IF i = n THEN searched[n].left \ {next} ELSE searched[i].left
  <2>1. DOMAIN looked = 1..n /\ Len(looked) = n
    BY <1>3
  <2>2. ASSUME NEW i \in 1..n
        PROVE  /\ looked[i] \in Frames /\ looked[i].node = searched[i].node
               /\ looked[i].left = IF i = n THEN searched[n].left \ {next} ELSE searched[i].left
    <3>1. searched[i] \in Frames
      BY <1>3
    <3>2. CASE i = n
      <4>1. looked[i] = [searched[n] EXCEPT !.left = @ \ {next}]
        BY <1>3, <3>2
      <4> QED
        BY <3>1, <3>2, <4>1 DEF Frames
    <3>3. CASE i # n
      <4>1. looked[i] = searched[i]
        BY <1>3, <3>3
      <4> QED
        BY <3>1, <3>3, <4>1
    <3> QED
      BY <3>2, <3>3
  <2>3. looked = [i \in 1..n |-> looked[i]]
    BY <1>3
  <2> HIDE DEF looked, n
  <2>4. looked \in [1..n -> Frames]
    BY <2>2, <2>3
  <2>5. looked \in Seq(Frames)
    BY <1>3, <2>4
  <2> QED
    BY <2>1, <2>2, <2>5
<1> HIDE DEF looked
<1>7. CASE colour[next] = "grey"
  <2>1. /\ cycle' = Publish!Circle(next)
        /\ publishing' = "ended" /\ ending' = "fail"
        /\ searched' = looked /\ colour' = colour
    BY <1>2, <1>7 DEF Publish!LookAt, Publish!Exit, looked
  <2>2. IsCircle(cycle')
    BY <1>4, <1>7, <2>1, PathIsCircle
  <2> QED
    BY <1>1, <1>6, <2>1, <2>2 DEF PublishTypeOK
<1>8. CASE colour[next] = "white"
  <2> DEFINE frame == [node |-> next, left |-> Publish!Neighbours(next)]
  <2>1. /\ colour' = [colour EXCEPT ![next] = "grey"]
        /\ searched' = Append(looked, frame)
        /\ UNCHANGED <<ending, publishing, cycle>>
    BY <1>2, <1>8 DEF Publish!LookAt, looked
  <2>2. /\ searched' \in Seq(Frames) /\ Len(searched') = n + 1 /\ DOMAIN searched' = 1..(n + 1)
        /\ searched'[n + 1] = frame /\ \A i \in 1..n : searched'[i] = looked[i]
    <3>1. frame \in Frames
      BY <1>5 DEF Frames, Publish!Neighbours
    <3> HIDE DEF frame, n
    <3> QED
      BY <1>3, <1>6, <2>1, <3>1
  <2>3. /\ searched'[n + 1].node = next /\ searched'[n + 1].left = Publish!Neighbours(next)
        /\ \A i \in 1..n : searched'[i].node = searched[i].node
        /\ \A i \in 1..(n - 1) : searched'[i].left = searched[i].left
        /\ searched'[n].left = searched[n].left \ {next}
    <3>1. frame.node = next /\ frame.left = Publish!Neighbours(next)
      OBVIOUS
    <3> HIDE DEF frame, n
    <3>2. n \in 1..n /\ \A i \in 1..(n - 1) : i \in 1..n /\ i # n
      BY <1>3
    <3> QED
      BY <1>6, <2>2, <3>1, <3>2
  <2>4. /\ \A q \in Packages : colour'[q] = IF q = next THEN "grey" ELSE colour[q]
        /\ colour' \in [Packages -> {"white", "grey", "black"}]
        /\ \A i \in 1..n : searched[i].node # next
    <3>1. \A i \in 1..n : colour[searched[i].node] = "grey"
      BY <1>1, <1>3 DEF OnPath, Frames
    <3> QED
      BY <1>1, <1>5, <1>8, <2>1, <3>1 DEF PublishTypeOK
  <2> HIDE DEF frame, n, p
  <2>5. Blacks' = Blacks
    BY <1>5, <1>8, <2>4 DEF Blacks
  <2>6. LeftInOrder'
    BY <1>1, <2>5, OrderStays
  <2>7. OnPath'
    <3>1. \A i, j \in DOMAIN searched' : searched'[i].node = searched'[j].node => i = j
      <4> SUFFICES ASSUME NEW i \in 1..(n + 1), NEW j \in 1..(n + 1),
                          searched'[i].node = searched'[j].node
                   PROVE  i = j
        BY <2>2
      <4>1. (i \in 1..n \/ i = n + 1) /\ (j \in 1..n \/ j = n + 1)
        BY <1>3
      <4>2. CASE i \in 1..n /\ j \in 1..n
        <5>1. searched[i].node = searched[j].node
          BY <2>3, <4>2
        <5> QED
          BY <1>1, <1>3, <4>2, <5>1 DEF OnPath
      <4>3. CASE i = n + 1 /\ j \in 1..n
        BY <2>3, <2>4, <4>3
      <4>4. CASE i \in 1..n /\ j = n + 1
        BY <2>3, <2>4, <4>4
      <4> QED
        BY <4>1, <4>2, <4>3, <4>4
    <3>2. ASSUME NEW q \in Packages
          PROVE  colour'[q] = "grey" <=> \E i \in DOMAIN searched' : searched'[i].node = q
      <4>1. colour[q] = "grey" <=> \E i \in 1..n : searched[i].node = q
        BY <1>1, <1>3 DEF OnPath
      <4>2. (\E i \in 1..(n + 1) : searched'[i].node = q)
            <=> (\E i \in 1..n : searched[i].node = q) \/ q = next
        <5>1. 1..(n + 1) = 1..n \cup {n + 1}
          BY <1>3
        <5> QED
          BY <2>3, <5>1
      <4> QED
        BY <2>2, <2>4, <4>1, <4>2
    <3>3. ASSUME NEW i \in 1..Len(searched') - 1
          PROVE  <<searched'[i].node, searched'[i + 1].node>> \in Publish!Graph
      <4>1. i \in 1..n
        BY <1>3, <2>2
      <4>2. CASE i = n
        BY <1>5, <2>3, <4>1, <4>2 DEF p
      <4>3. CASE i # n
        <5>1. i \in 1..(n - 1) /\ i + 1 \in 1..n
          BY <1>3, <4>1, <4>3
        <5> QED
          BY <1>1, <2>3, <4>1, <5>1 DEF OnPath, n
      <4> QED
        BY <4>2, <4>3
    <3>4. ASSUME NEW i \in DOMAIN searched'
          PROVE  /\ searched'[i].left \subseteq Publish!Neighbours(searched'[i].node)
                 /\ \A q \in Publish!Neighbours(searched'[i].node) \ searched'[i].left :
                       colour'[q] = "black" \/ (i < Len(searched') /\ q = searched'[i + 1].node)
      <4>1. CASE i = n + 1
        BY <2>3, <4>1
      <4>2. CASE i # n + 1
        <5>1. i \in 1..n /\ i < n + 1 /\ searched'[i].node = searched[i].node
              /\ searched'[i].left \subseteq searched[i].left
              /\ searched[i].left \subseteq Publish!Neighbours(searched[i].node)
          <6>1. i \in 1..n /\ i < n + 1 /\ searched'[i].node = searched[i].node
            BY <1>3, <2>2, <2>3, <4>2
          <6>2. i = n \/ i \in 1..(n - 1)
            BY <1>3, <6>1
          <6>3. searched'[i].left \subseteq searched[i].left
            BY <2>3, <6>2
          <6> QED
            BY <1>1, <1>3, <6>1, <6>3 DEF OnPath
        <5>2. ASSUME NEW q \in Publish!Neighbours(searched[i].node) \ searched'[i].left
              PROVE  colour'[q] = "black" \/ q = searched'[i + 1].node
          <6>1. q \in Packages
            BY DEF Publish!Neighbours
          <6>2. CASE i = n /\ q = next
            BY <2>3, <6>2
          <6>3. CASE i # n \/ q # next
            <7>1. q \notin searched[i].left
              BY <1>3, <2>3, <5>1, <5>2, <6>3
            <7>2. colour[q] = "black" \/ (i < n /\ q = searched[i + 1].node)
              BY <1>1, <1>3, <5>1, <5>2, <7>1 DEF OnPath, n
            <7>3. CASE colour[q] = "black"
              BY <1>8, <2>4, <6>1, <7>3
            <7>4. CASE i < n /\ q = searched[i + 1].node
              <8>1. i + 1 \in 1..n
                BY <1>3, <5>1, <7>4
              <8> QED
                BY <2>3, <7>4, <8>1
            <7> QED
              BY <7>2, <7>3, <7>4
          <6> QED
            BY <6>2, <6>3
        <5> QED
          BY <2>2, <5>1, <5>2
      <4> QED
        BY <4>1, <4>2
    <3> QED
      BY <1>1, <3>1, <3>2, <3>3, <3>4 DEF OnPath
  <2>8. Pending' \subseteq Pending \ {<<p, next>>}
    <3> SUFFICES ASSUME NEW e \in Publish!Graph,
                        \/ colour'[e[1]] = "white"
                        \/ \E i \in DOMAIN searched' : searched'[i].node = e[1] /\ e[2] \in searched'[i].left
                 PROVE  e \in Pending /\ e # <<p, next>>
      BY <1>1 DEF Pending
    <3>1. e[1] \in Packages /\ e = <<e[1], e[2]>>
      BY <1>1, GraphIsFinite
    <3>2. CASE colour'[e[1]] = "white"
      <4>1. colour[e[1]] = "white" /\ colour[p] = "grey"
        BY <1>1, <1>3, <1>4, <2>4, <3>1, <3>2 DEF OnPath, p
      <4> QED
        BY <4>1 DEF Pending
    <3>3. ASSUME NEW i \in 1..(n + 1), searched'[i].node = e[1], e[2] \in searched'[i].left
          PROVE  e \in Pending /\ e # <<p, next>>
      <4>1. CASE i = n + 1
        <5>1. e[1] = next /\ next # p
          BY <1>3, <2>3, <2>4, <3>3, <4>1 DEF p
        <5> QED
          BY <1>8, <5>1 DEF Pending
      <4>2. CASE i = n
        <5>1. e[1] = p /\ e[2] \in searched[n].left /\ e[2] # next
          BY <1>3, <2>3, <3>3, <4>2 DEF p
        <5> QED
          BY <1>3, <5>1 DEF Pending, p
      <4>3. CASE i \in 1..(n - 1)
        <5>1. i \in 1..n /\ i # n /\ e[1] = searched[i].node /\ e[2] \in searched[i].left
          BY <1>3, <2>3, <3>3, <4>3
        <5>2. e[1] # p
          BY <1>1, <1>3, <5>1 DEF OnPath, p
        <5> QED
          BY <1>3, <5>1, <5>2 DEF Pending
      <4> QED
        BY <1>3, <4>1, <4>2, <4>3
    <3> QED
      BY <2>2, <3>2, <3>3
  <2>9. WithinSteps'
    BY SMTT(30), <1>1, <1>3, <1>4, <1>5, <2>5, <2>8, StepCounts DEF p
  <2> QED
    BY <2>1, <2>2, <2>4, <2>6, <2>7, <2>9
<1>9. CASE colour[next] = "black"
  <2>1. searched' = looked /\ UNCHANGED <<ending, publishing, colour, cycle>>
    BY <1>2, <1>9 DEF Publish!LookAt, looked
  <2>2. Blacks' = Blacks
    BY SMTT(30), <2>1 DEF Blacks
  <2>3. LeftInOrder'
    BY <1>1, <2>2, OrderStays
  <2>4. /\ DOMAIN searched' = DOMAIN searched /\ Len(searched') = n
        /\ \A i \in 1..n : searched'[i].node = searched[i].node
    BY <1>3, <1>6, <2>1
  <2>5. OnPath'
    <3>1. \A i \in 1..n - 1 : i \in 1..n /\ i + 1 \in 1..n
      BY <1>3
    <3> HIDE DEF n, p
    <3>2. ASSUME NEW i \in 1..n
          PROVE  /\ looked[i].left \subseteq Publish!Neighbours(searched[i].node)
                 /\ \A q \in Publish!Neighbours(searched[i].node) \ looked[i].left :
                       colour[q] = "black" \/ (i < n /\ q = looked[i + 1].node)
      <4>1. /\ searched[i].left \subseteq Publish!Neighbours(searched[i].node)
            /\ \A q \in Publish!Neighbours(searched[i].node) \ searched[i].left :
                  colour[q] = "black" \/ (i < n /\ q = searched[i + 1].node)
        BY <1>1, <1>3 DEF OnPath, n
      <4>2. looked[i].left \subseteq searched[i].left /\ searched[i].left \ looked[i].left \subseteq {next}
        BY <1>6
      <4>3. i < n => looked[i + 1].node = searched[i + 1].node
        <5>1. i < n => i + 1 \in 1..n
          BY SMTT(30), <1>3
        <5> QED
          BY <1>6, <5>1
      <4> QED
        BY <1>9, <4>1, <4>2, <4>3
    <3>3. \A i \in 1..n - 1 : <<looked[i].node, looked[i + 1].node>> \in Publish!Graph
      BY <1>1, <1>6, <3>1 DEF OnPath, n
    <3>4. \A q \in Packages : colour[q] = "grey" <=> \E i \in 1..n : looked[i].node = q
      BY <1>1, <1>3, <1>6 DEF OnPath
    <3>5. \A i, j \in 1..n : looked[i].node = looked[j].node => i = j
      BY <1>1, <1>3, <1>6 DEF OnPath
    <3> QED
      BY <1>1, <1>3, <2>1, <2>4, <3>2, <3>3, <3>4, <3>5 DEF OnPath
  <2>6. Pending' \subseteq Pending \ {<<p, next>>}
    <3> SUFFICES ASSUME NEW e \in Publish!Graph,
                        \/ colour[e[1]] = "white"
                        \/ \E i \in 1..n : looked[i].node = e[1] /\ e[2] \in looked[i].left
                 PROVE  e \in Pending /\ e # <<p, next>>
      BY <1>1, <1>3, <2>1, <2>4 DEF Pending
    <3>1. e[1] \in Packages /\ e = <<e[1], e[2]>>
      BY <1>1, GraphIsFinite
    <3>2. CASE colour[e[1]] = "white"
      <4>1. colour[p] = "grey"
        BY <1>1, <1>3, <1>4 DEF OnPath
      <4> QED
        BY <3>2, <4>1 DEF Pending
    <3>3. ASSUME NEW i \in 1..n, looked[i].node = e[1], e[2] \in looked[i].left
          PROVE  e \in Pending /\ e # <<p, next>>
      <4>1. searched[i].node = e[1] /\ e[2] \in searched[i].left
        BY ZenonT(50), <1>6, <3>3
      <4>2. e # <<p, next>>
        <5> SUFFICES ASSUME e[1] = p, e[2] = next PROVE FALSE
          OBVIOUS
        <5>1. i = n
          <6>1. i \in DOMAIN searched /\ n \in DOMAIN searched /\ searched[i].node = searched[n].node
            BY <1>3, <4>1
          <6> QED
            BY <1>1, <6>1 DEF OnPath
        <5> QED
          BY <1>3, <1>6, <3>3, <5>1
      <4> QED
        BY SMTT(30), <1>3, <4>1, <4>2 DEF Pending
    <3> QED
      BY <3>2, <3>3
  <2>7. WithinSteps'
    BY <1>1, <1>3, <1>4, <1>5, <2>2, <2>6, StepCounts
  <2> QED
    BY <1>1, <1>6, <2>1, <2>3, <2>5, <2>7 DEF PublishTypeOK
<1>10. colour[next] \in {"white", "grey", "black"}
  BY <1>1, <1>5 DEF PublishTypeOK
<1> QED
  BY <1>7, <1>8, <1>9, <1>10

LEMMA SearchStepInv ==
    ASSUME PublishAssumption, PublishInv, Publish!Search
    PROVE  PublishInv'
<1>1. /\ publishing = "search" /\ checking = "cycles" /\ ending = "none"
      /\ OnPath /\ WithinSteps /\ LeftInOrder /\ PublishTypeOK /\ tree \in Workspaces
      /\ cycle # <<>> => IsCircle(cycle)
  BY DEF PublishInv, SearchInv, VerdictInv, PublishTypeOK, Publish!Search
<1>2. /\ UNCHANGED <<tree, registry, released, checking, analysed, circular>>
      /\ UNCHANGED <<floors, overrides, installed, known>>
  BY DEF Publish!Search, Publish!cruiseVars, Publish!floorVars
<1>3. stepped # Publish!Limit
  <2>1. Publish!Limit = Cardinality(Packages) + Cardinality(Publish!Graph) + 1
    BY SameCardinality DEF Publish!Limit
  <2>2. /\ Cardinality(Packages) \in Nat /\ Cardinality(Publish!Graph) \in Nat
        /\ Cardinality(Packages \ Blacks) \in Nat /\ Cardinality(Pending) \in Nat /\ stepped \in Nat
    BY <1>1, GraphIsFinite, PendingIsFinite DEF PublishTypeOK
  <2> QED
    BY <1>1, <2>1, <2>2 DEF WithinSteps
<1>4. stepped' = stepped + 1 /\ (Publish!Return \/ Publish!Leave \/ Publish!Look)
  BY <1>3 DEF Publish!Search
<1>5. IsCircle(cycle)' = IsCircle(cycle) \/ cycle' # cycle
  BY <1>2, SameTree DEF IsCircle
<1>6. FloorInv'
  BY <1>1, <1>2, <1>4, FloorsStay DEF PublishInv, Publish!Return, Publish!Leave, Publish!Look,
     Publish!LookAt, Publish!Exit
<1>7. CASE Publish!Return
  <2>1. searched = <<>> /\ publishing' = "report" /\ UNCHANGED <<ending, colour, searched, cycle>>
    BY <1>7 DEF Publish!Return
  <2>2. \A p \in Packages : colour[p] # "grey"
    BY <1>1, <2>1 DEF OnPath
  <2>3. Blacks' = Blacks
    BY <2>1 DEF Blacks
  <2>4. LeftInOrder'
    BY <1>1, <1>2, <2>3, OrderStays
  <2>5. SearchInv'
    BY <1>1, <1>2, <1>5, <2>1, <2>2, <2>4 DEF SearchInv
  <2>6. VerdictInv'
    BY <1>1, <1>2, <2>1, VerdictStays DEF PublishInv
  <2>7. PublishTypeOK'
    BY <1>1, <1>2, <1>4, <2>1 DEF PublishTypeOK
  <2> QED
    BY <1>6, <2>5, <2>6, <2>7 DEF PublishInv
<1>8. CASE Publish!Leave
  <2>1. searched # <<>> /\ UNCHANGED <<ending, publishing, cycle>>
    BY <1>8 DEF Publish!Leave
  <2>2. OnPath' /\ WithinSteps' /\ LeftInOrder'
    BY <1>1, <1>2, <1>4, <1>8, LeaveInv
  <2>3. SearchInv'
    BY <1>1, <1>2, <1>5, <2>1, <2>2 DEF SearchInv
  <2>4. VerdictInv'
    BY <1>1, <1>2, <2>1, VerdictStays DEF PublishInv
  <2>5. searched' \in Seq(Frames) /\ colour' \in [Packages -> {"white", "grey", "black"}]
    <3>1. searched \in Seq(Frames) /\ Len(searched) \in Nat \ {0}
      BY <1>1, <2>1 DEF PublishTypeOK
    <3>2. SubSeq(searched, 1, Len(searched) - 1) \in Seq(Frames)
      BY <3>1
    <3>3. searched' = SubSeq(searched, 1, Len(searched) - 1)
      BY <1>8 DEF Publish!Leave
    <3>4. \E p : colour' = [colour EXCEPT ![p] = "black"]
      BY <1>8 DEF Publish!Leave
    <3> QED
      BY <1>1, <3>2, <3>3, <3>4 DEF PublishTypeOK
  <2>6. PublishTypeOK'
    BY <1>1, <1>2, <1>4, <2>1, <2>5 DEF PublishTypeOK
  <2> QED
    BY <1>6, <2>3, <2>4, <2>6 DEF PublishInv
<1>9. CASE Publish!Look
  <2>1. /\ colour' \in [Packages -> {"white", "grey", "black"}] /\ searched' \in Seq(Frames)
        /\ \/ publishing' = "ended" /\ ending' = "fail" /\ IsCircle(cycle')
           \/ /\ UNCHANGED <<publishing, ending, cycle>>
              /\ OnPath' /\ WithinSteps' /\ LeftInOrder'
    BY <1>1, <1>2, <1>4, <1>9, LookInv
  <2>2. IsCircle(cycle') => IsCircle(cycle)'
    BY <1>2, SameTree DEF IsCircle
  <2>3. SearchInv'
    BY <1>1, <1>2, <1>5, <2>1, <2>2 DEF SearchInv
  <2>4. VerdictInv'
    BY <1>1, <1>2, <2>1, VerdictStays DEF PublishInv
  <2>5. PublishTypeOK'
    BY <1>1, <1>2, <1>4, <2>1 DEF PublishTypeOK
  <2> QED
    BY <1>6, <2>3, <2>4, <2>5 DEF PublishInv
<1> QED
  BY <1>4, <1>7, <1>8, <1>9

------------------------------------------------------------------------------
(* pin-peer-floors.                                                          *)

LEMMA LowestIsLeast ==
    ASSUME NEW T, T \subseteq Nat, T # {}
    PROVE  Publish!LowestRelease(T) \in T /\ \A v \in T : v >= Publish!LowestRelease(T)
<1>1. \E v \in T : \A w \in T : v <= w
  BY LeastNumber
<1>2. Publish!Min(T) \in T /\ \A w \in T : Publish!Min(T) <= w
  BY <1>1 DEF Publish!Min
<1> QED
  BY <1>2 DEF Publish!LowestRelease

LEMMA RangesAreRanges ==
    ASSUME PublishAssumption, tree \in Workspaces, NEW q \in Peers
    PROVE  /\ Publish!RangesOf(q) \subseteq Ranges /\ IsFiniteSet(Publish!RangesOf(q))
           /\ \A p \in Publish!Published : tree.peer[p][q] # None => tree.peer[p][q] \in Publish!RangesOf(q)
           /\ Publish!Published \subseteq Packages
<1>1. Publish!Published \subseteq Packages /\ IsFiniteSet(Publish!Published)
  <2>1. Publish!Published \subseteq Packages
    BY DEF Publish!Published
  <2> QED
    BY <2>1, FS_Subset DEF PublishAssumption
<1>2. \A p \in Packages : tree.peer[p][q] \in Ranges \cup {None}
  BY DEF Workspaces
<1> DEFINE all == {tree.peer[p][q] : p \in Publish!Published}
<1>3. IsFiniteSet(all)
  <2> DEFINE f == [p \in Publish!Published |-> tree.peer[p][q]]
  <2>1. f \in Surjection(Publish!Published, all)
    BY DEF Surjection
  <2> QED
    BY <1>1, <2>1, FS_Surjection
<1>4. Publish!RangesOf(q) \subseteq all
  BY DEF Publish!RangesOf
<1>5. IsFiniteSet(Publish!RangesOf(q))
  BY <1>3, <1>4, FS_Subset
<1> QED
  BY <1>1, <1>2, <1>5 DEF Publish!RangesOf

LEMMA BeginFloorsInv ==
    ASSUME PublishAssumption, PublishInv, Publish!BeginFloors
    PROVE  PublishInv'
<1>1. /\ publishing = "begin" /\ ending = "none" /\ checking \in {"pin", "verify"}
      /\ PublishTypeOK /\ SearchInv /\ VerdictInv /\ FloorInv
      /\ UNCHANGED <<tree, registry, checking, analysed, colour, searched, stepped, cycle>>
      /\ known' = registry /\ floors' = [q \in Peers |-> None]
  BY DEF PublishInv, Publish!BeginFloors, VerdictInv, PublishTypeOK, Publish!cruiseVars, Publish!searchVars
<1>2. \/ Publish!Conflict /\ ending' = "fail" /\ publishing' = "ended"
      \/ ~Publish!Conflict /\ ending' = "none" /\ publishing' = "view"
  BY <1>1 DEF Publish!BeginFloors, Publish!Exit
<1>3. PublishTypeOK'
  BY <1>1, <1>2 DEF PublishTypeOK, Releasing
<1>4. SearchInv'
  BY <1>1, <1>2, SearchStays
<1>5. VerdictInv'
  BY <1>1, <1>2, VerdictStays
<1>6. FloorInv'
  <2>1. AreFloors'
    BY <1>1 DEF AreFloors
  <2>2. Publish!Conflict' = Publish!Conflict
    BY <1>1, SameTree
  <2> QED
    BY <1>1, <1>2, <2>1, <2>2 DEF FloorInv
<1> QED
  BY <1>3, <1>4, <1>5, <1>6 DEF PublishInv

LEMMA ViewInv ==
    ASSUME PublishAssumption, PublishInv, Publish!View
    PROVE  PublishInv'
<1>1. /\ publishing = "view" /\ ending = "none" /\ checking \in {"pin", "verify"}
      /\ PublishTypeOK /\ SearchInv /\ VerdictInv /\ FloorInv /\ AreFloors /\ ~Publish!Conflict
      /\ UNCHANGED <<tree, registry, checking, analysed, colour, searched, stepped, cycle, known>>
  BY DEF PublishInv, Publish!View, VerdictInv, FloorInv, PublishTypeOK, Publish!cruiseVars, Publish!searchVars
<1> DEFINE Listed(q) == {v \in registry[q] : \A r \in Publish!RangesOf(q) : v \in Admits[r]}
<1>2. \/ \E q \in Publish!Unread :
            /\ Listed(q) # {}
            /\ floors' = [floors EXCEPT ![q] = Publish!LowestRelease(Listed(q))]
            /\ publishing' = "view" /\ ending' = "none"
      \/ floors' = floors /\ publishing' = "ended" /\ ending' = "fail"
  BY <1>1 DEF Publish!View, Publish!Exit
<1>3. SearchInv' /\ VerdictInv'
  BY <1>1, <1>2, SearchStays, VerdictStays
<1>4. Publish!Conflict' = Publish!Conflict /\ \A q : Publish!RangesOf(q)' = Publish!RangesOf(q)
  BY <1>1, SameTree
<1>5. CASE floors' = floors /\ publishing' = "ended" /\ ending' = "fail"
  <2>1. FloorInv'
    BY <1>1, <1>5 DEF FloorInv
  <2> QED
    BY <1>1, <1>3, <1>5, <2>1 DEF PublishInv, PublishTypeOK
<1>6. ASSUME NEW q \in Publish!Unread, Listed(q) # {},
             floors' = [floors EXCEPT ![q] = Publish!LowestRelease(Listed(q))],
             publishing' = "view", ending' = "none"
      PROVE  PublishInv'
  <2>1. q \in Peers /\ Publish!RangesOf(q) # {} /\ registry[q] \subseteq Nat
    BY <1>1 DEF Publish!Unread, PublishTypeOK
  <2>2. Listed(q) \subseteq Nat
    BY <2>1
  <2> DEFINE low == Publish!LowestRelease(Listed(q))
  <2>3. low \in Listed(q) /\ \A v \in Listed(q) : v >= low
    BY <1>6, <2>2, LowestIsLeast
  <2> HIDE DEF low
  <2>4. /\ low \in Nat /\ \A r \in Publish!RangesOf(q) : low \in Admits[r]
        /\ \A v \in registry[q] : (\A r \in Publish!RangesOf(q) : v \in Admits[r]) => v >= low
    BY <2>2, <2>3
  <2>5. floors' = [floors EXCEPT ![q] = low]
    BY <1>6 DEF low
  <2>6. PublishTypeOK'
    BY <1>1, <1>6, <2>4, <2>5 DEF PublishTypeOK, Releasing
  <2>7. AreFloors'
    <3> SUFFICES ASSUME NEW s \in Peers, floors'[s] # None PROVE IsFloor(s)'
      BY DEF AreFloors
    <3>1. known[s] \subseteq registry[s]
      BY <1>1 DEF FloorInv
    <3>2. CASE s = q
      <4>1. floors'[s] = low
        BY <1>1, <2>1, <2>5, <3>2 DEF PublishTypeOK
      <4> QED
        BY <1>1, <1>4, <2>1, <2>4, <3>1, <3>2, <4>1 DEF IsFloor
    <3>3. CASE s # q
      <4>1. floors'[s] = floors[s] /\ IsFloor(s)
        BY <1>1, <2>5, <3>3 DEF PublishTypeOK, AreFloors
      <4> QED
        BY <1>1, <1>4, <4>1 DEF IsFloor
    <3> QED
      BY <3>2, <3>3
  <2>8. FloorInv'
    BY <1>1, <1>4, <1>6, <2>7 DEF FloorInv
  <2> QED
    BY <1>3, <2>6, <2>8 DEF PublishInv
<1> QED
  BY <1>2, <1>5, <1>6

LEMMA VerifyInv ==
    ASSUME PublishAssumption, PublishInv, Publish!Verify
    PROVE  PublishInv'
<1>1. /\ publishing = "view" /\ ending = "none" /\ checking = "verify" /\ Publish!Unread = {}
      /\ PublishTypeOK /\ SearchInv /\ VerdictInv /\ FloorInv /\ AreFloors /\ ~Publish!Conflict
      /\ UNCHANGED <<tree, registry, checking, analysed, colour, searched, stepped, cycle, known,
                     floors, installed>>
      /\ publishing' = "ended"
  BY DEF PublishInv, Publish!Verify, Publish!Exit, VerdictInv, FloorInv, PublishTypeOK,
         Publish!cruiseVars, Publish!searchVars, Publish!floorVars
<1>2. /\ ending' \in {"pass", "fail"}
      /\ ending' = "pass" =>
            \A p \in Publish!Published, q \in Peers : ~Publish!InstalledGap(p, q)
  BY DEF Publish!Verify, Publish!Exit
<1>3. PublishTypeOK'
  BY <1>1, <1>2 DEF PublishTypeOK
<1>4. SearchInv' /\ VerdictInv'
  BY <1>1, <1>2, SearchStays, VerdictStays
<1>5. /\ Publish!Published' = Publish!Published /\ Publish!Conflict' = Publish!Conflict
      /\ \A q : Publish!RangesOf(q)' = Publish!RangesOf(q)
  BY <1>1, SameTree
<1>6. AreFloors' /\ Publish!Unread' = Publish!Unread
      /\ \A p, q : Publish!InstalledGap(p, q)' = Publish!InstalledGap(p, q)
  BY <1>1, <1>5 DEF AreFloors, IsFloor, Publish!Unread, Publish!InstalledGap
<1>7. FloorInv'
  BY <1>1, <1>2, <1>5, <1>6 DEF FloorInv
<1> QED
  BY <1>3, <1>4, <1>7 DEF PublishInv

------------------------------------------------------------------------------

LEMMA InitPublishInv == ASSUME PublishAssumption, Publish!Init PROVE PublishInv
<1>1. /\ checking \in {"cycles", "declared", "archives", "pin"} /\ tree \in Trees[checking]
      /\ publishing = "begin" /\ ending = "none" /\ registry \in Registries
      /\ colour = [p \in Packages |-> "white"]
      /\ searched = <<>> /\ stepped = 0 /\ cycle = <<>>
      /\ floors = [q \in Peers |-> None] /\ known = registry
  BY DEF Publish!Init
<1>2. tree \in Workspaces /\ registry \in [Peers -> SUBSET Nat]
  BY <1>1 DEF PublishAssumption
<1>3. PublishTypeOK
  BY <1>1, <1>2 DEF PublishTypeOK, Releasing
<1>4. LeftInOrder
  <2>1. Blacks = {}
    BY <1>1 DEF Blacks
  <2> DEFINE order == [p \in {} |-> 1]
  <2>2. order \in [Blacks -> 1..Cardinality(Blacks)] /\ IsOrder(order, Blacks)
    BY <2>1 DEF IsOrder
  <2> QED
    BY <2>2 DEF LeftInOrder
<1>5. SearchInv
  BY <1>1, <1>4 DEF SearchInv
<1>6. VerdictInv /\ FloorInv
  BY <1>1 DEF VerdictInv, FloorInv
<1> QED
  BY <1>3, <1>5, <1>6 DEF PublishInv

LEMMA NextPublishInv ==
    ASSUME PublishAssumption, PublishInv, [Publish!Next]_(Publish!vars)
    PROVE  PublishInv'
<1> USE DEF PublishInv
<1>1. CASE UNCHANGED Publish!vars
  <2>1. /\ UNCHANGED <<tree, registry, released, checking, publishing, ending, analysed, circular>>
        /\ UNCHANGED <<colour, searched, stepped, cycle, floors, overrides, installed, known>>
    BY <1>1 DEF Publish!vars, Publish!cruiseVars, Publish!searchVars, Publish!floorVars
  <2>2. PublishTypeOK'
    BY <2>1 DEF PublishTypeOK
  <2>3. SearchInv'
    BY <2>1, SearchStays
  <2>4. VerdictInv'
    BY <2>1, VerdictStays DEF VerdictInv
  <2>5. FloorInv'
    BY <2>1, FloorsStay
  <2> QED
    BY <2>2, <2>3, <2>4, <2>5
<1>2. CASE Publish!Walk \/ Publish!CruiseFails \/ Publish!Cruised
  <2>1. /\ UNCHANGED <<tree, registry, checking, colour, searched, stepped, cycle>>
        /\ UNCHANGED <<floors, overrides, installed, known>>
    BY <1>2 DEF Publish!Walk, Publish!CruiseFails, Publish!Cruised, Publish!cruiseVars,
       Publish!searchVars, Publish!floorVars
  <2>2. /\ publishing \in {"begin", "cruise"} /\ ending = "none"
        /\ \/ publishing' = "ended" /\ ending' = "fail"
           \/ publishing' = "cruise" /\ ending' = "none"
           \/ publishing' = "report" /\ ending' = "none" /\ analysed' = tree.files
    BY <1>2 DEF Publish!Walk, Publish!CruiseFails, Publish!Cruised, Publish!Exit, VerdictInv, PublishTypeOK
  <2>3. PublishTypeOK'
    BY <2>1, <2>2 DEF PublishTypeOK
  <2>4. VerdictInv'
    BY <2>1, <2>2 DEF VerdictInv
  <2> QED
    BY <2>1, <2>2, <2>3, <2>4, SearchStays, FloorsStay
<1>3. CASE Publish!NextRoot
  <2>1. /\ publishing = "report" /\ ending = "none"
        /\ UNCHANGED <<tree, registry, checking, analysed, circular>>
        /\ UNCHANGED <<floors, overrides, installed, known>>
        /\ checking = "cycles"
    BY <1>3 DEF Publish!NextRoot, Publish!cruiseVars, Publish!floorVars, VerdictInv, PublishTypeOK
  <2>2. SearchInv'
    BY <1>3, NextRootInv
  <2>3. \/ publishing' = "search" /\ ending' = "none"
        \/ publishing' = "ended" /\ ending' \in {"pass", "fail"}
    BY <1>3, <2>1 DEF Publish!NextRoot, Publish!Exit
  <2>4. PublishTypeOK'
    <3>1. CASE \E p \in Packages : colour[p] = "white"
      <4>1. PICK p \in Packages :
               /\ colour' = [colour EXCEPT ![p] = "grey"] /\ stepped' = 0
               /\ searched' = <<[node |-> p, left |-> Publish!Neighbours(p)]>>
        BY <1>3, <3>1 DEF Publish!NextRoot
      <4>2. [node |-> p, left |-> Publish!Neighbours(p)] \in Frames
        BY DEF Frames, Publish!Neighbours
      <4> QED
        BY <2>1, <2>3, <4>1, <4>2 DEF PublishTypeOK
    <3>2. CASE ~ \E p \in Packages : colour[p] = "white"
      <4>1. UNCHANGED <<colour, searched, stepped, cycle>>
        BY <1>3, <3>2 DEF Publish!NextRoot, Publish!searchVars
      <4> QED
        BY <2>1, <2>3, <4>1 DEF PublishTypeOK
    <3> QED
      BY <3>1, <3>2
  <2>5. VerdictInv'
    BY <2>1, <2>3 DEF VerdictInv
  <2>6. FloorInv'
    BY <2>1, <2>3, FloorsStay
  <2> QED
    BY <2>2, <2>4, <2>5, <2>6
<1>4. CASE Publish!Search
  BY <1>4, SearchStepInv
<1>5. CASE Publish!Declarations \/ Publish!Pack
  <2>1. /\ UNCHANGED <<tree, registry, checking, analysed, colour, searched, stepped, cycle>>
        /\ UNCHANGED <<floors, overrides, installed, known>>
        /\ checking \in {"declared", "archives"} /\ publishing' = "ended" /\ ending' \in {"pass", "fail"}
    BY <1>5 DEF Publish!Declarations, Publish!Pack, Publish!Exit, Publish!cruiseVars,
       Publish!searchVars, Publish!floorVars
  <2>2. checking = "declared" /\ ending' = "pass" =>
           /\ \A i \in tree.imports : ~Publish!ImportViolation(i)
           /\ \A p, q \in Packages : ~Publish!RangeViolation(p, q)
    BY <1>5 DEF Publish!Declarations, Publish!Pack, Publish!Exit
  <2>3. checking = "archives" /\ ending' = "pass" =>
           Publish!Published # {} /\ \A p \in Publish!Published : ~Publish!Gaps(p)
    <3> SUFFICES ASSUME checking = "archives", ending' = "pass"
                 PROVE  Publish!Published # {} /\ \A p \in Publish!Published : ~Publish!Gaps(p)
      OBVIOUS
    <3>1. PICK archives \in SUBSET Packages :
             /\ archives \ tree.private # {} /\ archives = Packages
             /\ \A p \in archives \ tree.private : ~Publish!Gaps(p)
      BY <1>5 DEF Publish!Pack, Publish!Declarations, Publish!Exit
    <3> QED
      BY <3>1 DEF Publish!Published
  <2>4. VerdictInv'
    BY <2>1, <2>2, <2>3, SameTree DEF VerdictInv
  <2>5. PublishTypeOK'
    BY <2>1 DEF PublishTypeOK
  <2> QED
    BY <2>1, <2>4, <2>5, SearchStays, FloorsStay
<1>6. CASE Publish!BeginFloors
  BY <1>6, BeginFloorsInv
<1>7. CASE Publish!View
  BY <1>7, ViewInv
<1>8. CASE Publish!Write \/ Publish!Install \/ Publish!Release
  <2>1. /\ checking \in {"pin", "verify"} /\ checking' \in {"pin", "verify"}
        /\ UNCHANGED <<tree, analysed, colour, searched, stepped, cycle, floors, known>>
    BY <1>8 DEF Publish!Write, Publish!Install, Publish!Release, Publish!cruiseVars,
       Publish!searchVars, Publish!floorVars
  <2>2. registry' \in [Peers -> SUBSET Nat] /\ \A q \in Peers : registry[q] \subseteq registry'[q]
    <3>1. CASE registry' = registry
      BY <3>1 DEF PublishTypeOK
    <3>2. ASSUME NEW q \in Peers, NEW v \in Releases, registry' = [registry EXCEPT ![q] = @ \cup {v}]
          PROVE  registry' \in [Peers -> SUBSET Nat] /\ \A s \in Peers : registry[s] \subseteq registry'[s]
      BY <3>2 DEF PublishTypeOK, PublishAssumption
    <3> QED
      BY <1>8, <3>1, <3>2 DEF Publish!Write, Publish!Install, Publish!Release
  <2>3. \/ publishing' = "ended" /\ ending' \in {"pass", "fail"} /\ checking' = "pin"
        \/ publishing' = "begin" /\ ending' = "none"
        \/ UNCHANGED <<publishing, ending, checking, installed>>
    BY <1>8 DEF Publish!Write, Publish!Install, Publish!Release, Publish!Exit, Publish!floorVars
  <2>4. PublishTypeOK'
    BY <2>1, <2>2, <2>3 DEF PublishTypeOK
  <2>5. SearchInv'
    BY <2>1, <2>3, SearchStays DEF FloorInv, SearchInv
  <2>6. VerdictInv'
    BY <2>1, <2>3, VerdictStays DEF VerdictInv
  <2>7. FloorInv'
    BY <2>1, <2>2, <2>3, FloorsStay DEF VerdictInv
  <2> QED
    BY <2>4, <2>5, <2>6, <2>7
<1>9. CASE Publish!Verify
  BY <1>9, VerifyInv
<1> QED
  BY <1>1, <1>2, <1>3, <1>4, <1>5, <1>6, <1>7, <1>8, <1>9 DEF Publish!Next

(* A check of the packages that passes means what it is run for, for any     *)
(* packages, imports, manifests, ranges and releases: no packages import     *)
(* each other in a circle, and the search for one never comes to its bound;  *)
(* every import resolves where it is installed; one range of each peer is    *)
(* left to pin; and what is installed is the lowest that its range admits.   *)
THEOREM PassMeansInstallableCorrect ==
    ASSUME PublishAssumption
    PROVE  Publish!Spec => []PassMeansInstallable
<1>1. Publish!Init => PublishInv
  BY InitPublishInv
<1>2. PublishInv /\ [Publish!Next]_(Publish!vars) => PublishInv'
  BY NextPublishInv
<1>3. PublishInv => PassMeansInstallable
  <2> SUFFICES ASSUME PublishInv PROVE PassMeansInstallable
    OBVIOUS
  <2>1. PublishTypeOK /\ SearchInv /\ VerdictInv /\ FloorInv /\ tree \in Workspaces
    BY DEF PublishInv, PublishTypeOK
  <2>2. ending # "threw"
    BY <2>1 DEF PublishTypeOK
  <2>3. checking = "cycles" /\ ending = "pass" => Publish!Acyclic /\ tree.files = analysed
    BY <2>1, OrderedIsAcyclic DEF SearchInv, VerdictInv
  <2>4. cycle # <<>> =>
           /\ Head(cycle) = cycle[Len(cycle)] /\ Len(cycle) > 1
           /\ \A i \in 1..Len(cycle) - 1 : <<cycle[i], cycle[i + 1]>> \in Publish!Graph
    BY <2>1 DEF SearchInv, IsCircle
  <2>5. checking = "declared" /\ ending = "pass" =>
           /\ \A i \in tree.imports : ~i.story => Publish!Resolves(i)
           /\ \A p, q \in Packages : tree.fields[p][q] # {} => Publish!Fits(p, q)
    <3> SUFFICES ASSUME checking = "declared", ending = "pass"
                 PROVE  /\ \A i \in tree.imports : ~i.story => Publish!Resolves(i)
                        /\ \A p, q \in Packages : tree.fields[p][q] # {} => Publish!Fits(p, q)
      OBVIOUS
    <3>1. ASSUME NEW i \in tree.imports, ~i.story PROVE Publish!Resolves(i)
      <4>1. tree.fields[i.from][i.to] \subseteq Publish!DependencyFields
        <5>1. i.from \in Packages /\ i.to \in Packages \cup Modules
          BY <2>1 DEF Workspaces
        <5>2. tree.fields \in [Packages -> [Packages \cup Modules -> SUBSET Publish!DependencyFields]]
          BY <2>1 DEF Workspaces
        <5> QED
          BY <5>1, <5>2
      <4>2. ~Publish!ImportViolation(i)
        BY <2>1 DEF VerdictInv
      <4> HIDE <2>1
      <4> QED
        BY <3>1, <4>1, <4>2 DEF Publish!ImportViolation, Publish!Resolves, Publish!Declared,
           Publish!DependencyFields
    <3>2. \A p, q \in Packages : tree.fields[p][q] # {} => Publish!Fits(p, q)
      BY <2>1 DEF VerdictInv, Publish!RangeViolation, Publish!RangeProblem, Publish!Fits
    <3> QED
      BY <3>1, <3>2
  <2>6. checking = "archives" /\ ending = "pass" =>
           ~Publish!Conflict /\ Publish!RangesOf(Typescript) # {}
    <3> SUFFICES ASSUME Publish!Published # {}, \A p \in Publish!Published : ~Publish!Gaps(p)
                 PROVE  ~Publish!Conflict /\ Publish!RangesOf(Typescript) # {}
      BY <2>1 DEF VerdictInv
    <3>1. \A p \in Publish!Published :
             /\ tree.peer[p][Typescript] = PeerRange[Typescript]
             /\ \A q \in Peers \ {Typescript} : tree.peer[p][q] \in {None, PeerRange[q]}
      BY DEF Publish!Gaps, Publish!TypescriptPeerGap, Publish!PeerRangeGap
    <3>2. PeerRange[Typescript] # None /\ Typescript \in Peers
      BY DEF PublishAssumption
    <3>3. Publish!RangesOf(Typescript) # {}
      BY <3>1, <3>2 DEF Publish!RangesOf
    <3>4. ASSUME NEW q \in Peers PROVE ~(Publish!Cardinality(Publish!RangesOf(q)) > 1)
      <4>1. Publish!RangesOf(q) \subseteq {PeerRange[q]}
        BY <3>1, <3>2 DEF Publish!RangesOf
      <4>2. IsFiniteSet({PeerRange[q]}) /\ Cardinality({PeerRange[q]}) = 1
        BY FS_Singleton
      <4>3. IsFiniteSet(Publish!RangesOf(q)) /\ Cardinality(Publish!RangesOf(q)) <= 1
        BY <4>1, <4>2, FS_Subset
      <4>4. Cardinality(Publish!RangesOf(q)) \in Nat
        BY <4>3, FS_CardinalityType
      <4> QED
        BY <4>3, <4>4, SameCardinality
    <3> QED
      BY <3>3, <3>4 DEF Publish!Conflict
  <2>7. ASSUME checking = "verify", ending = "pass", NEW p \in Publish!Published, NEW q \in Peers,
               tree.peer[p][q] # None
        PROVE  /\ installed[p][q] \in Admits[tree.peer[p][q]]
               /\ \A v \in known[q] : v \in Admits[tree.peer[p][q]] => v >= installed[p][q]
    <3> DEFINE r == tree.peer[p][q]
    <3>1. /\ ~Publish!Conflict /\ AreFloors /\ Publish!Unread = {} /\ ~Publish!InstalledGap(p, q)
      BY <2>1, <2>7 DEF FloorInv
    <3>2. r \in Publish!RangesOf(q) /\ IsFiniteSet(Publish!RangesOf(q))
      BY <2>1, <2>7, RangesAreRanges
    <3>3. floors[q] # None /\ IsFloor(q)
      BY <3>1, <3>2 DEF Publish!Unread, AreFloors
    <3>4. installed[p][q] = floors[q]
      BY <2>7, <3>1, <3>3 DEF Publish!InstalledGap
    <3>5. Publish!RangesOf(q) = {r}
      <4> SUFFICES ASSUME NEW s \in Publish!RangesOf(q), s # r PROVE FALSE
        BY <3>2
      <4>1. {r} \subseteq Publish!RangesOf(q) /\ Cardinality({r}) = 1 /\ IsFiniteSet({r})
        BY <3>2, FS_Singleton
      <4>2. Cardinality({r, s}) = 2 /\ {r, s} \subseteq Publish!RangesOf(q)
        <5>1. {r, s} = {r} \cup {s} /\ s \notin {r}
          OBVIOUS
        <5>2. Cardinality({r} \cup {s}) = Cardinality({r}) + 1
          BY <4>1, <5>1, FS_AddElement
        <5> QED
          BY <3>2, <4>1, <5>1, <5>2
      <4>3. 2 <= Cardinality(Publish!RangesOf(q)) /\ Cardinality(Publish!RangesOf(q)) \in Nat
        BY <3>2, <4>2, FS_Subset, FS_CardinalityType
      <4>4. Publish!Cardinality(Publish!RangesOf(q)) > 1
        BY <4>3, SameCardinality
      <4> QED
        BY <3>1, <4>4 DEF Publish!Conflict
    <3> QED
      BY <3>3, <3>4, <3>5 DEF IsFloor
  <2> QED
    BY <2>2, <2>3, <2>4, <2>5, <2>6, <2>7 DEF PassMeansInstallable, Publish!PassMeansInstallable
<1> QED
  BY <1>1, <1>2, <1>3, PTL DEF Publish!Spec

------------------------------------------------------------------------------
(* SitePages, fenceBlocks() and fences(): any lines.                         *)

(* What the scan of a page's lines has after the first i of them.            *)
ScannedTo(scan, lines, i) ==
    /\ scan \in [open : Nat, blocks : Seq(Nat \X Nat)] /\ scan.open <= i
    /\ \A j \in 1..i : lines[j].mark # None =>
          \/ \E b \in DOMAIN scan.blocks : scan.blocks[b][1] <= j /\ j <= scan.blocks[b][2]
          \/ scan.open # 0 /\ scan.open <= j
    /\ \A b \in DOMAIN scan.blocks :
          /\ 1 <= scan.blocks[b][1] /\ scan.blocks[b][1] <= i
          /\ 1 <= scan.blocks[b][2] /\ scan.blocks[b][2] <= i
          /\ scan.open # 0 => scan.blocks[b][2] < scan.open
          /\ lines[scan.blocks[b][1]].mark # None
          /\ b > 1 => scan.blocks[b - 1][2] < scan.blocks[b][1]
          /\ \A k \in (scan.blocks[b][1] + 1)..(scan.blocks[b][2] - 1) :
                ~Pages!Closes(lines[k], lines[scan.blocks[b][1]])
          /\ Pages!Closes(lines[scan.blocks[b][2]], lines[scan.blocks[b][1]])
    /\ scan.open # 0 =>
          /\ lines[scan.open].mark # None
          /\ \A k \in (scan.open + 1)..i : ~Pages!Closes(lines[k], lines[scan.open])

LEMMA AppendedBlock ==
    ASSUME NEW t \in Seq(Nat \X Nat), NEW from \in Nat, NEW to \in Nat
    PROVE  /\ Append(t, <<from, to>>) \in Seq(Nat \X Nat)
           /\ DOMAIN Append(t, <<from, to>>) = 1..(Len(t) + 1) /\ Len(t) \in Nat
           /\ DOMAIN t = 1..Len(t)
           /\ Append(t, <<from, to>>)[Len(t) + 1] = <<from, to>>
           /\ \A i \in 1..Len(t) : Append(t, <<from, to>>)[i] = t[i]
  OBVIOUS

LEMMA ScanLineGoesOn ==
    ASSUME NEW lines, NEW i \in Nat \ {0}, NEW scan, ScannedTo(scan, lines, i - 1)
    PROVE  ScannedTo(Pages!ScanLine(scan, lines, i), lines, i)
<1> DEFINE now == Pages!ScanLine(scan, lines, i)
<1>0. /\ scan \in [open : Nat, blocks : Seq(Nat \X Nat)] /\ scan.open <= i - 1
      /\ scan.open \in Nat /\ scan.blocks \in Seq(Nat \X Nat)
  BY DEF ScannedTo
<1>1. CASE lines[i].mark = None \/ (scan.open # 0 /\ ~Pages!Closes(lines[i], lines[scan.open]))
  <2>1. now = scan
    BY <1>1 DEF Pages!ScanLine
  <2>2. ASSUME NEW j \in 1..i, lines[j].mark # None
        PROVE  \/ \E b \in DOMAIN scan.blocks : scan.blocks[b][1] <= j /\ j <= scan.blocks[b][2]
               \/ scan.open # 0 /\ scan.open <= j
    <3>1. CASE j = i
      BY <1>0, <1>1, <2>2, <3>1
    <3>2. CASE j # i
      <4>1. j \in 1..(i - 1)
        BY <3>2
      <4> QED
        BY <2>2, <4>1 DEF ScannedTo
    <3> QED
      BY <3>1, <3>2
  <2>3. ASSUME scan.open # 0, NEW k \in (scan.open + 1)..i
        PROVE  ~Pages!Closes(lines[k], lines[scan.open])
    <3>1. lines[scan.open].mark # None
      BY <2>3 DEF ScannedTo
    <3>2. CASE k = i
      BY <1>1, <2>3, <3>1, <3>2 DEF Pages!Closes
    <3>3. CASE k # i
      <4>1. k \in (scan.open + 1)..(i - 1)
        BY <1>0, <3>3
      <4> QED
        BY <2>3, <4>1 DEF ScannedTo
    <3> QED
      BY <3>2, <3>3
  <2>4. \A n \in Nat : n <= i - 1 => n <= i
    OBVIOUS
  <2>5. ASSUME NEW b \in DOMAIN scan.blocks
        PROVE  scan.blocks[b][1] <= i /\ scan.blocks[b][2] <= i
    <3>1. scan.blocks[b] \in Nat \X Nat
      BY <1>0
    <3>2. scan.blocks[b][1] <= i - 1 /\ scan.blocks[b][2] <= i - 1
      BY DEF ScannedTo
    <3> QED
      BY <3>1, <3>2
  <2>6. ScannedTo(scan, lines, i)
    BY <1>0, <2>2, <2>3, <2>4, <2>5 DEF ScannedTo
  <2> QED
    BY <2>1, <2>6
<1>2. CASE lines[i].mark # None /\ scan.open = 0
  <2>1. now = [open |-> i, blocks |-> scan.blocks]
    BY <1>2 DEF Pages!ScanLine
  <2>2. now \in [open : Nat, blocks : Seq(Nat \X Nat)] /\ now.open = i /\ now.blocks = scan.blocks
    BY <1>0, <2>1
  <2>3. ASSUME NEW j \in 1..i, lines[j].mark # None
        PROVE  \/ \E b \in DOMAIN scan.blocks : scan.blocks[b][1] <= j /\ j <= scan.blocks[b][2]
               \/ i # 0 /\ i <= j
    <3>1. CASE j = i
      BY <3>1
    <3>2. CASE j # i
      <4>1. j \in 1..(i - 1)
        BY <3>2
      <4> QED
        BY <1>2, <2>3, <4>1 DEF ScannedTo
    <3> QED
      BY <3>1, <3>2
  <2>4. ASSUME NEW b \in DOMAIN scan.blocks
        PROVE  scan.blocks[b][1] <= i /\ scan.blocks[b][2] <= i /\ scan.blocks[b][2] < i
    <3>1. scan.blocks[b] \in Nat \X Nat
      BY <1>0
    <3>2. scan.blocks[b][1] <= i - 1 /\ scan.blocks[b][2] <= i - 1
      BY DEF ScannedTo
    <3> QED
      BY <3>1, <3>2
  <2>5. (i + 1)..i = {}
    OBVIOUS
  <2> HIDE DEF now
  <2>6. ScannedTo(now, lines, i)
    BY <1>2, <2>2, <2>3, <2>4, <2>5 DEF ScannedTo
  <2> QED
    BY <2>6 DEF now
<1>3. CASE lines[i].mark # None /\ scan.open # 0 /\ Pages!Closes(lines[i], lines[scan.open])
  <2> DEFINE t == scan.blocks
             m == Len(scan.blocks)
             o == scan.open
             u == Append(scan.blocks, <<scan.open, i>>)
  <2>1. now = [open |-> 0, blocks |-> u]
    BY <1>3 DEF Pages!ScanLine
  <2>2. /\ u \in Seq(Nat \X Nat) /\ DOMAIN u = 1..(m + 1) /\ m \in Nat /\ DOMAIN t = 1..m
        /\ u[m + 1] = <<o, i>> /\ \A b \in 1..m : u[b] = t[b]
    BY <1>0, AppendedBlock
  <2>3. now \in [open : Nat, blocks : Seq(Nat \X Nat)] /\ now.open = 0 /\ now.blocks = u
    <3> HIDE DEF u
    <3> QED
      BY <2>1, <2>2
  <2>4. o \in Nat /\ o # 0 /\ o <= i - 1 /\ lines[o].mark # None
    BY <1>0, <1>3 DEF ScannedTo
  <2>5. u[m + 1][1] = o /\ u[m + 1][2] = i /\ m + 1 \in DOMAIN u
    BY <2>2
  <2>6. ASSUME NEW b \in DOMAIN u PROVE b = m + 1 \/ (b \in DOMAIN t /\ u[b] = t[b])
    <3>1. b = m + 1 \/ b \in 1..m
      BY <2>2
    <3> QED
      BY <2>2, <3>1
  <2>7. ASSUME NEW b \in DOMAIN t
        PROVE  /\ t[b][1] \in Nat /\ t[b][2] \in Nat /\ 1 <= t[b][1] /\ t[b][1] <= i - 1
               /\ 1 <= t[b][2] /\ t[b][2] <= i - 1 /\ t[b][2] < o
               /\ lines[t[b][1]].mark # None
               /\ b > 1 => t[b - 1][2] < t[b][1]
               /\ \A k \in (t[b][1] + 1)..(t[b][2] - 1) : ~Pages!Closes(lines[k], lines[t[b][1]])
               /\ Pages!Closes(lines[t[b][2]], lines[t[b][1]])
    <3>1. t[b] \in Nat \X Nat
      BY <1>0
    <3> QED
      BY <1>3, <3>1 DEF ScannedTo
  <2> HIDE DEF t, m, o, u, now
  <2>8. ASSUME NEW j \in 1..i, lines[j].mark # None
        PROVE  \E b \in DOMAIN u : u[b][1] <= j /\ j <= u[b][2]
    <3>1. CASE o <= j
      BY <2>4, <2>5, <3>1
    <3>2. CASE ~(o <= j)
      <4>1. j \in 1..(i - 1)
        BY <2>4, <3>2
      <4>2. PICK b \in DOMAIN t : t[b][1] <= j /\ j <= t[b][2]
        BY <2>8, <3>2, <4>1 DEF ScannedTo, t, o
      <4>3. b \in DOMAIN u /\ u[b] = t[b]
        BY <2>2
      <4> QED
        BY <4>2, <4>3
    <3> QED
      BY <3>1, <3>2
  <2>9. ASSUME NEW b \in DOMAIN u
        PROVE  /\ 1 <= u[b][1] /\ u[b][1] <= i /\ 1 <= u[b][2] /\ u[b][2] <= i
               /\ lines[u[b][1]].mark # None
               /\ b > 1 => u[b - 1][2] < u[b][1]
               /\ \A k \in (u[b][1] + 1)..(u[b][2] - 1) : ~Pages!Closes(lines[k], lines[u[b][1]])
               /\ Pages!Closes(lines[u[b][2]], lines[u[b][1]])
    <3>1. CASE b = m + 1
      <4>1. u[b][1] = o /\ u[b][2] = i
        BY <2>5, <3>1
      <4>2. b > 1 => u[b - 1][2] < o
        BY SMTT(30), <2>2, <2>7, <3>1
      <4>3. \A k \in (o + 1)..(i - 1) : ~Pages!Closes(lines[k], lines[o])
        BY <2>4 DEF ScannedTo, o
      <4>4. Pages!Closes(lines[i], lines[o])
        BY <1>3 DEF o
      <4> QED
        BY <2>4, <4>1, <4>2, <4>3, <4>4
    <3>2. CASE b # m + 1
      <4>1. b \in DOMAIN t /\ u[b] = t[b]
        BY <2>6, <3>2
      <4>2. ASSUME b > 1 PROVE u[b - 1] = t[b - 1]
        <5>1. m \in Nat /\ b \in 1..m
          BY <2>2, <4>1
        <5>2. b - 1 \in 1..m
          BY <4>2, <5>1
        <5>3. \A c \in 1..m : u[c] = t[c]
          BY <2>2
        <5> QED
          BY <5>2, <5>3, Zenon
      <4> QED
        BY <2>7, <4>1, <4>2
    <3> QED
      BY <3>1, <3>2
  <2>10. ScannedTo(now, lines, i)
    BY <2>3, <2>8, <2>9 DEF ScannedTo
  <2> QED
    BY <2>10 DEF now
<1> QED
  BY <1>1, <1>2, <1>3

LEMMA LinesAreScanned ==
    ASSUME NEW L, NEW lines \in Seq(L)
    PROVE  ScannedTo(Pages!ScanLines(lines), lines, Len(lines))
<1> DEFINE n == Len(lines)
           base == [open |-> 0, blocks |-> <<>>]
           V == [open : Nat, blocks : Seq(Nat \X Nat)]
           step == [x \in Nat \X V |-> IF x[1] = 0 THEN x[2] ELSE Pages!ScanLine(x[2], lines, x[1])]
           Made(f) == f = [i \in 0..n |-> IF i = 0 THEN base ELSE Pages!ScanLine(f[i - 1], lines, i)]
<1>1. Pages!ScanLines(lines) = (CHOOSE f : Made(f))[n]
  BY DEF Pages!ScanLines
<1>2. n \in Nat
  OBVIOUS
<1>3. base \in V
  OBVIOUS
<1>4. ASSUME NEW i \in Nat, NEW scan \in V PROVE Pages!ScanLine(scan, lines, i) \in V
  <2>1. scan.open \in Nat /\ scan.blocks \in Seq(Nat \X Nat)
    OBVIOUS
  <2>2. Append(scan.blocks, <<scan.open, i>>) \in Seq(Nat \X Nat)
    BY <2>1, AppendedBlock
  <2> DEFINE u == Append(scan.blocks, <<scan.open, i>>)
  <2>3. Pages!ScanLine(scan, lines, i) \in {scan, [open |-> i, blocks |-> scan.blocks], [open |-> 0, blocks |-> u]}
    BY DEF Pages!ScanLine
  <2>4. u \in Seq(Nat \X Nat)
    BY <2>2
  <2> HIDE DEF u
  <2> QED
    BY <2>1, <2>3, <2>4
<1> HIDE DEF n, base, V
<1>5. step \in [Nat \X V -> V] /\ \A i \in Nat \ {0}, scan \in V : step[<<i, scan>>] = Pages!ScanLine(scan, lines, i)
  BY <1>4
<1> HIDE DEF step
<1>6. PICK g \in [0..n -> V] : IsRecursive(g, base, step, n)
  BY <1>2, <1>3, <1>5, Recursion
<1>7. Made(g)
  <2>1. ASSUME NEW i \in 0..n PROVE g[i] = IF i = 0 THEN base ELSE Pages!ScanLine(g[i - 1], lines, i)
    <3>1. i \in Nat /\ (i # 0 => g[i - 1] \in V)
      BY <1>2, <1>6
    <3> QED
      BY <1>5, <1>6, <3>1 DEF IsRecursive
  <2> QED
    BY <1>6, <2>1, Zenon
<1>8. PICK f : Made(f) /\ Pages!ScanLines(lines) = f[n]
  BY <1>1, <1>7
<1>9. \A i \in 0..n : f[i] = IF i = 0 THEN base ELSE Pages!ScanLine(f[i - 1], lines, i)
  BY <1>8
<1> HIDE DEF Made
<1> DEFINE T == {i \in 0..n : ScannedTo(f[i], lines, i)}
<1>10. 0 \in T
  <2>1. base.open = 0 /\ base.blocks = <<>> /\ DOMAIN base.blocks = {} /\ 1..0 = {}
    BY DEF base
  <2>2. ScannedTo(base, lines, 0)
    BY <1>3, <2>1 DEF ScannedTo, V
  <2> QED
    BY <1>2, <1>9, <2>2
<1>11. ASSUME NEW i \in 1..n, i - 1 \in T PROVE i \in T
  <2>1. i \in Nat \ {0} /\ i \in 0..n
    BY <1>2
  <2>2. ScannedTo(Pages!ScanLine(f[i - 1], lines, i), lines, i)
    BY <1>11, <2>1, ScanLineGoesOn
  <2> QED
    BY <1>9, <2>1, <2>2
<1>12. n \in T
  <2> HIDE DEF T
  <2>1. \A i \in 0..n : i \in T
    BY <1>2, <1>10, <1>11, CountUp
  <2> QED
    BY <1>2, <2>1
<1> QED
  BY <1>8, <1>12 DEF n

\* The blocks of any page are blocks, and each of them begins at a line.
LEMMA FencesAreBlocks ==
    ASSUME NEW L, NEW lines \in Seq(L)
    PROVE  /\ Pages!AreBlocks(Pages!FenceBlocks(lines), lines)
           /\ Pages!FenceBlocks(lines) \in Seq(Nat \X Nat)
<1> DEFINE n == Len(lines)
           scan == Pages!ScanLines(lines)
           t == scan.blocks
           o == scan.open
           m == Len(t)
           u == Append(t, <<o, n + 1>>)
           pairs == Pages!FenceBlocks(lines)
<1>1. ScannedTo(scan, lines, n) /\ n \in Nat /\ DOMAIN lines = 1..n
  BY LinesAreScanned
<1> HIDE DEF n
<1>2. pairs = IF o = 0 THEN t ELSE u
  BY DEF Pages!FenceBlocks, n
<1> HIDE DEF scan, pairs
<1>3. o \in Nat /\ t \in Seq(Nat \X Nat) /\ o <= n
  BY <1>1 DEF ScannedTo
<1>4. /\ u \in Seq(Nat \X Nat) /\ DOMAIN u = 1..(m + 1) /\ m \in Nat /\ DOMAIN t = 1..m
      /\ u[m + 1] = <<o, n + 1>> /\ \A b \in 1..m : u[b] = t[b]
  BY <1>1, <1>3, AppendedBlock
<1>5. ASSUME NEW b \in DOMAIN t
      PROVE  /\ t[b][1] \in Nat /\ t[b][2] \in Nat
             /\ t[b][2] <= n /\ (o # 0 => t[b][2] < o)
             /\ lines[t[b][1]].mark # None
             /\ b > 1 => t[b - 1][2] < t[b][1]
             /\ \A k \in (t[b][1] + 1)..(t[b][2] - 1) : ~Pages!Closes(lines[k], lines[t[b][1]])
             /\ Pages!Closes(lines[t[b][2]], lines[t[b][1]])
  <2>1. t[b] \in Nat \X Nat
    BY <1>3
  <2> QED
    BY <1>1, <2>1 DEF ScannedTo
<1>6. \A j \in 1..n : lines[j].mark # None =>
          \/ \E b \in DOMAIN t : t[b][1] <= j /\ j <= t[b][2]
          \/ o # 0 /\ o <= j
  BY <1>1 DEF ScannedTo
<1>7. o # 0 => lines[o].mark # None /\ \A k \in (o + 1)..n : ~Pages!Closes(lines[k], lines[o])
  BY <1>1 DEF ScannedTo
<1> HIDE DEF t, o, m, u
<1>8. ASSUME NEW b \in DOMAIN pairs
      PROVE  \/ b \in DOMAIN t /\ pairs[b] = t[b] /\ (b > 1 => pairs[b - 1] = t[b - 1])
             \/ o # 0 /\ b = m + 1 /\ pairs[b] = <<o, n + 1>> /\ (b > 1 => m \in DOMAIN t /\ pairs[b - 1] = t[m])
  <2>1. CASE o = 0
    BY <1>2, <2>1
  <2>2. CASE o # 0
    <3>1. pairs = u /\ b \in 1..(m + 1)
      BY <1>2, <1>4, <2>2
    <3>2. CASE b = m + 1
      BY <1>4, <2>2, <3>1, <3>2
    <3>3. CASE b # m + 1
      <4>1. b \in 1..m /\ (b > 1 => b - 1 \in 1..m)
        BY SMTT(30), <1>4, <3>1, <3>3
      <4> QED
        BY <1>4, <3>1, <4>1
    <3> QED
      BY <3>2, <3>3
  <2> QED
    BY <2>1, <2>2
<1>9. ASSUME NEW j \in 1..n, lines[j].mark # None
      PROVE  \E b \in Pages!Range(pairs) : j \in b[1]..b[2]
  <2>1. CASE o # 0 /\ o <= j
    <3>1. pairs[m + 1] = <<o, n + 1>> /\ m + 1 \in DOMAIN pairs
      BY <1>2, <1>4, <2>1
    <3>2. j \in o..(n + 1)
      BY <1>1, <1>3, <2>1
    <3> QED
      BY <3>1, <3>2 DEF Pages!Range
  <2>2. CASE \E b \in DOMAIN t : t[b][1] <= j /\ j <= t[b][2]
    <3>1. PICK b \in DOMAIN t : t[b][1] <= j /\ j <= t[b][2]
      BY <2>2
    <3>2. b \in DOMAIN pairs /\ pairs[b] = t[b]
      BY <1>2, <1>4
    <3>3. j \in t[b][1]..t[b][2]
      BY <1>1, <1>5, <3>1
    <3> QED
      BY <3>2, <3>3 DEF Pages!Range
  <2> QED
    BY <1>6, <1>9, <2>1, <2>2
<1>10. ASSUME NEW b \in DOMAIN pairs
       PROVE  /\ lines[pairs[b][1]].mark # None
              /\ b > 1 => pairs[b - 1][2] < pairs[b][1]
              /\ \A k \in (pairs[b][1] + 1)..(pairs[b][2] - 1) : ~Pages!Closes(lines[k], lines[pairs[b][1]])
              /\ pairs[b][2] <= n => Pages!Closes(lines[pairs[b][2]], lines[pairs[b][1]])
  <2>1. CASE b \in DOMAIN t /\ pairs[b] = t[b] /\ (b > 1 => pairs[b - 1] = t[b - 1])
    BY <1>5, <2>1
  <2>2. CASE o # 0 /\ b = m + 1 /\ pairs[b] = <<o, n + 1>> /\ (b > 1 => m \in DOMAIN t /\ pairs[b - 1] = t[m])
    <3>1. pairs[b][1] = o /\ pairs[b][2] = n + 1 /\ ~(n + 1 <= n) /\ (n + 1) - 1 = n
      BY <1>1, <2>2
    <3>2. b > 1 => pairs[b - 1][2] < o
      BY <1>5, <2>2
    <3> QED
      BY <1>7, <2>2, <3>1, <3>2
  <2> QED
    BY <1>8, <2>1, <2>2
<1>11. pairs \in Seq(Nat \X Nat)
  BY <1>2, <1>3, <1>4
<1>12. Pages!AreBlocks(pairs, lines)
  BY <1>1, <1>9, <1>10 DEF Pages!AreBlocks, n
<1> QED
  BY <1>11, <1>12 DEF pairs

\* Where a page has a fence of some kind, one of its blocks opens as that kind.
LEMMA ChosenAreBlocks ==
    ASSUME NEW pairs \in Seq(Nat \X Nat), NEW lines, NEW info,
           Pages!Chosen(pairs, lines, info) # <<>>
    PROVE  \E b \in Pages!Range(pairs) : lines[b[1]].info = info
<1> DEFINE n == Len(pairs)
           V == Seq(Nat \X Nat)
           Is(i) == lines[pairs[i][1]].info = info
           Step(v, i) == IF lines[pairs[i][1]].info = info THEN Append(v, pairs[i]) ELSE v
           step == [x \in Nat \X V |-> IF x[1] \in 1..n THEN Step(x[2], x[1]) ELSE x[2]]
           Made(f) == f = [i \in 0..n |-> IF i = 0 THEN <<>>
                                          ELSE IF lines[pairs[i][1]].info = info THEN Append(f[i - 1], pairs[i])
                                          ELSE f[i - 1]]
<1>1. Pages!Chosen(pairs, lines, info) = (CHOOSE f : Made(f))[n]
  BY DEF Pages!Chosen
<1>2. n \in Nat /\ DOMAIN pairs = 1..n
  OBVIOUS
<1>3. ASSUME NEW i \in 1..n, NEW v \in V PROVE Step(v, i) \in V
  OBVIOUS
<1>4. <<>> \in V
  OBVIOUS
<1> HIDE DEF n, V
<1>5. step \in [Nat \X V -> V] /\ \A i \in 1..n, v \in V : step[<<i, v>>] = Step(v, i)
  <2> HIDE DEF Step
  <2> QED
    BY <1>2, <1>3
<1> HIDE DEF step
<1>6. PICK g \in [0..n -> V] : IsRecursive(g, <<>>, step, n)
  BY <1>2, <1>4, <1>5, Recursion
<1>7. Made(g)
  <2>1. ASSUME NEW i \in 0..n
        PROVE  g[i] = IF i = 0 THEN <<>>
                      ELSE IF lines[pairs[i][1]].info = info THEN Append(g[i - 1], pairs[i]) ELSE g[i - 1]
    <3>1. i # 0 => i \in 1..n /\ g[i - 1] \in V
      BY <1>2, <1>6
    <3>2. g[i] = IF i = 0 THEN <<>> ELSE Step(g[i - 1], i)
      <4> HIDE DEF Step
      <4> QED
        BY <1>5, <1>6, <3>1 DEF IsRecursive
    <3> QED
      BY <3>2
  <2> QED
    BY <1>6, <2>1, Zenon
<1>8. PICK f : Made(f) /\ Pages!Chosen(pairs, lines, info) = f[n]
  BY <1>1, <1>7
<1>9. \A i \in 0..n : f[i] = IF i = 0 THEN <<>>
                             ELSE IF lines[pairs[i][1]].info = info THEN Append(f[i - 1], pairs[i])
                             ELSE f[i - 1]
  BY <1>8
<1> HIDE DEF Made
<1> DEFINE T == {i \in 0..n : f[i] # <<>> => \E j \in 1..n : Is(j)}
<1>10. 0 \in T
  BY <1>2, <1>9
<1>11. ASSUME NEW i \in 1..n, i - 1 \in T PROVE i \in T
  <2>1. i \in 0..n /\ i # 0
    BY <1>2
  <2>2. CASE Is(i)
    BY <2>1, <2>2
  <2>3. CASE ~Is(i)
    BY <1>9, <1>11, <2>1, <2>3
  <2> QED
    BY <2>2, <2>3
<1>12. n \in T
  <2> HIDE DEF T
  <2>1. \A i \in 0..n : i \in T
    BY <1>2, <1>10, <1>11, CountUp
  <2> QED
    BY <1>2, <2>1
<1> QED
  BY <1>2, <1>8, <1>12 DEF Pages!Range

LEMMA AskedIsThere ==
    ASSUME NEW L, NEW lines \in Seq(L), NEW info, Pages!Fences(lines, info) # <<>>
    PROVE  \E b \in Pages!Range(Pages!FenceBlocks(lines)) : lines[b[1]].info = info
BY FencesAreBlocks, ChosenAreBlocks DEF Pages!Fences

------------------------------------------------------------------------------
(* scanPage(): any markup.                                                   *)
CONSTANT Urls        \* what an attribute of a tag may say
Tags == [t : STRING, url : Urls]
Figure == [slug : Urls, urls : SUBSET Urls]
TagScan == [mermaid : Nat, figures : Seq(Figure), scripts : SUBSET Urls, depth : Nat,
            raw : Urls \cup {None}, over : BOOLEAN]
Opens(scan, tag) == tag.t = "figure" /\ scan.depth = 0 /\ tag.url # None

\* What a tag that is read adds to a scan, field by field.
Handles(now, scan, tag) ==
    /\ now.mermaid = IF tag.t = "pre" THEN scan.mermaid + 1 ELSE scan.mermaid
    /\ now.scripts = IF tag.t = "script" THEN scan.scripts \cup {tag.url} ELSE scan.scripts
    /\ now.raw = IF tag.t = "raw" THEN tag.url ELSE scan.raw
    /\ now.over = IF tag.t = "unfinished" THEN TRUE ELSE scan.over
    /\ Opens(scan, tag) =>
          now.depth = 1 /\ now.figures = Append(scan.figures, [slug |-> tag.url, urls |-> {}])
    /\ ~Opens(scan, tag) =>
          /\ now.depth > 0 => scan.depth > 0
          /\ (now.depth = 0 /\ scan.depth > 0) => tag.t = "/figure"
          /\ Len(now.figures) = Len(scan.figures)
          /\ \A i \in DOMAIN scan.figures :
                /\ now.figures[i].slug = scan.figures[i].slug
                /\ scan.figures[i].urls \subseteq now.figures[i].urls
          /\ (tag.t = "img" /\ scan.depth > 0 /\ scan.figures # <<>>) =>
                tag.url \in now.figures[Len(scan.figures)].urls

LEMMA TagHandled ==
    ASSUME NEW scan \in TagScan, NEW tag \in Tags
    PROVE  /\ Pages!HandleTag(scan, tag) \in TagScan
           /\ Handles(Pages!HandleTag(scan, tag), scan, tag)
<1> DEFINE now == Pages!HandleTag(scan, tag)
           last == Len(scan.figures)
<1>0. /\ scan.mermaid \in Nat /\ scan.figures \in Seq(Figure) /\ scan.scripts \subseteq Urls
      /\ scan.depth \in Nat /\ scan.raw \in Urls \cup {None} /\ scan.over \in BOOLEAN
      /\ tag.url \in Urls /\ last \in Nat /\ DOMAIN scan.figures = 1..last
  BY DEF TagScan, Tags
<1> SUFFICES now \in TagScan /\ Handles(now, scan, tag)
  OBVIOUS
<1>10. scan.depth \in Nat /\ ~(scan.depth = 0 /\ scan.depth > 0)
       /\ (scan.depth > 0 => scan.depth - 1 \in Nat)
  <2>1. scan.depth \in Nat
    BY DEF TagScan
  <2> QED
    BY <2>1
<1> USE DEF Opens, Handles
<1>1. CASE tag.t = "pre"
  <2>1. now = [scan EXCEPT !.mermaid = @ + 1]
    BY <1>1 DEF Pages!HandleTag
  <2>2. now.mermaid = scan.mermaid + 1 /\ now.figures = scan.figures /\ now.scripts = scan.scripts
      /\ now.depth = scan.depth /\ now.raw = scan.raw /\ now.over = scan.over
    BY <1>0, <2>1 DEF TagScan
  <2>3. now \in TagScan
    BY SMTT(30), <1>0, <1>1, <2>1 DEF TagScan
  <2> HIDE DEF now
  <2> QED
    BY <1>0, <1>1, <2>2, <2>3
<1>2. CASE tag.t = "script"
  <2>1. now = [scan EXCEPT !.scripts = @ \cup {tag.url}]
    BY <1>2 DEF Pages!HandleTag
  <2>2. now.mermaid = scan.mermaid /\ now.figures = scan.figures /\ now.scripts = scan.scripts \cup {tag.url}
      /\ now.depth = scan.depth /\ now.raw = scan.raw /\ now.over = scan.over
    BY <1>0, <2>1 DEF TagScan
  <2>3. now \in TagScan
    BY <1>0, <1>2, <2>1 DEF TagScan
  <2> HIDE DEF now
  <2> QED
    BY <1>0, <1>2, <2>2, <2>3
<1>3. CASE tag.t = "raw"
  <2>1. now = [scan EXCEPT !.raw = tag.url]
    BY <1>3 DEF Pages!HandleTag
  <2>2. now.mermaid = scan.mermaid /\ now.figures = scan.figures /\ now.scripts = scan.scripts
      /\ now.depth = scan.depth /\ now.raw = tag.url /\ now.over = scan.over
    BY <1>0, <2>1 DEF TagScan
  <2>3. now \in TagScan
    BY <1>0, <1>3, <2>1 DEF TagScan
  <2> HIDE DEF now
  <2> QED
    BY <1>0, <1>3, <2>2, <2>3
<1>4. CASE tag.t = "figure" /\ scan.depth > 0
  <2>1. now = [scan EXCEPT !.depth = @ + 1]
    BY <1>4 DEF Pages!HandleTag
  <2>2. now.mermaid = scan.mermaid /\ now.figures = scan.figures /\ now.scripts = scan.scripts
      /\ now.depth = scan.depth + 1 /\ now.raw = scan.raw /\ now.over = scan.over
    BY <1>0, <2>1 DEF TagScan
  <2>3. now \in TagScan
    BY SMTT(30), <1>0, <1>4, <2>1 DEF TagScan
  <2> HIDE DEF now
  <2> QED
    BY <1>0, <1>4, <2>2, <2>3
<1>5. CASE Opens(scan, tag)
  <2>1. now = [scan EXCEPT !.depth = 1, !.figures = Append(@, [slug |-> tag.url, urls |-> {}])]
    BY <1>5 DEF Pages!HandleTag
  <2> DEFINE one == [slug |-> tag.url, urls |-> {}]
  <2>2. one \in Figure
    BY <1>0 DEF Figure
  <2> HIDE DEF one
  <2>3. Append(scan.figures, one) \in Seq(Figure)
    BY <1>0, <2>2
  <2>4. now = [scan EXCEPT !.depth = 1, !.figures = Append(scan.figures, one)]
    BY <2>1 DEF TagScan, one
  <2>5. now.mermaid = scan.mermaid /\ now.figures = Append(scan.figures, one) /\ now.scripts = scan.scripts
      /\ now.depth = 1 /\ now.raw = scan.raw /\ now.over = scan.over
    BY <1>0, <2>4 DEF TagScan
  <2>6. now \in TagScan
    <3>1. 1 \in Nat
      OBVIOUS
    <3> HIDE DEF now
    <3> QED
      BY <1>0, <2>3, <2>4, <3>1 DEF TagScan
  <2> HIDE DEF now
  <2> QED
    BY <1>0, <1>5, <2>5, <2>6 DEF one
<1>6. CASE tag.t = "img" /\ scan.depth > 0
  <2>1. now = [scan EXCEPT !.figures[Len(scan.figures)].urls = @ \cup {tag.url}]
    BY <1>6 DEF Pages!HandleTag
  <2> DEFINE grown == [scan.figures EXCEPT ![last].urls = @ \cup {tag.url}]
  <2>2. now = [scan EXCEPT !.figures = grown]
    BY <2>1 DEF TagScan
  <2>3. DOMAIN grown = 1..last
    BY <1>0
  <2>4. \A i \in 1..last : grown[i] = IF i = last THEN [scan.figures[i] EXCEPT !.urls = @ \cup {tag.url}]
                                                 ELSE scan.figures[i]
    BY <1>0
  <2>5. \A i \in 1..last : scan.figures[i] \in Figure
    BY <1>0
  <2>6. ASSUME NEW i \in 1..last
        PROVE  /\ grown[i] \in Figure /\ grown[i].slug = scan.figures[i].slug
               /\ scan.figures[i].urls \subseteq grown[i].urls
               /\ i = last => tag.url \in grown[i].urls
    BY <1>0, <2>4, <2>5 DEF Figure
  <2>7. grown = [i \in 1..last |-> grown[i]]
    BY <2>3
  <2> HIDE DEF grown
  <2>8. grown \in [1..last -> Figure]
    BY <2>6, <2>7
  <2>9. grown \in Seq(Figure) /\ Len(grown) = last
    BY <1>0, <2>8
  <2>10. now.mermaid = scan.mermaid /\ now.figures = grown /\ now.scripts = scan.scripts
      /\ now.depth = scan.depth /\ now.raw = scan.raw /\ now.over = scan.over
    BY <1>0, <2>2 DEF TagScan
  <2>11. now \in TagScan
    BY <1>0, <2>2, <2>9 DEF TagScan
  <2>12. scan.figures # <<>> => last \in 1..last
    BY <1>0
  <2> HIDE DEF now
  <2> QED
    BY <1>0, <1>6, <2>6, <2>9, <2>10, <2>11, <2>12
<1>7. CASE tag.t = "/figure" /\ scan.depth > 0
  <2>1. now = [scan EXCEPT !.depth = @ - 1]
    BY <1>7 DEF Pages!HandleTag
  <2>2. now.mermaid = scan.mermaid /\ now.figures = scan.figures /\ now.scripts = scan.scripts
      /\ now.depth = scan.depth - 1 /\ now.raw = scan.raw /\ now.over = scan.over
    BY <1>0, <2>1 DEF TagScan
  <2>3. now \in TagScan
    <3>1. scan.depth - 1 \in Nat
      BY <1>7, <1>10
    <3> HIDE DEF now
    <3> QED
      BY <1>0, <2>1, <3>1 DEF TagScan
  <2> HIDE DEF now
  <2> QED
    BY <1>0, <1>7, <2>2, <2>3
<1>8. CASE tag.t = "unfinished"
  <2>1. now = [scan EXCEPT !.over = TRUE]
    BY <1>8 DEF Pages!HandleTag
  <2>2. now.mermaid = scan.mermaid /\ now.figures = scan.figures /\ now.scripts = scan.scripts
      /\ now.depth = scan.depth /\ now.raw = scan.raw /\ now.over = TRUE
    BY <1>0, <2>1 DEF TagScan
  <2>3. now \in TagScan
    BY <1>0, <1>8, <2>1 DEF TagScan
  <2>4. now.over = IF tag.t = "unfinished" THEN TRUE ELSE scan.over
    BY <1>8, <2>2, Zenon
  <2> HIDE DEF now
  <2> QED
    BY <1>0, <1>8, <2>2, <2>3, <2>4
<1>9. CASE /\ tag.t \notin {"pre", "script", "raw", "unfinished"}
           /\ (tag.t = "figure" => scan.depth = 0 /\ tag.url = None)
           /\ (tag.t \in {"img", "/figure"} => scan.depth = 0)
  <2>1. scan.depth > 0 => tag.t # "figure" /\ tag.t # "img" /\ tag.t # "/figure"
    <3>1. ASSUME scan.depth > 0 PROVE scan.depth # 0
      BY <1>0, <3>1
    <3> QED
      BY <1>9, <3>1, Zenon
  <2>2. ~(tag.t = "figure" /\ scan.depth = 0 /\ tag.url # None)
    BY <1>9, Zenon
  <2>3. /\ tag.t # "pre" /\ tag.t # "script" /\ tag.t # "raw" /\ tag.t # "unfinished"
    BY <1>9
  <2>4. now = scan
    BY <2>1, <2>2, <2>3, Zenon DEF Pages!HandleTag
  <2>5. /\ ~Opens(scan, tag) /\ ~(tag.t = "img" /\ scan.depth > 0)
        /\ ~(scan.depth = 0 /\ scan.depth > 0)
    BY <1>10, <2>1, <2>2
  <2> HIDE DEF now
  <2> QED
    BY <1>0, <2>3, <2>4, <2>5
<1> QED
  <2>1. scan.depth > 0 \/ scan.depth = 0
    BY <1>0
  <2> QED
    BY <1>1, <1>2, <1>3, <1>4, <1>5, <1>6, <1>7, <1>8, <1>9, <2>1

\* An element of raw text begins at the raw tags that are in none.
LEMMA RawBegins ==
    ASSUME NEW T, NEW tags \in Seq(T)
    PROVE  /\ Pages!RawElements(tags) \subseteq 1..Len(tags)
           /\ \A k \in 1..Len(tags) :
                 k \in Pages!RawElements(tags) <=> tags[k].t = "raw" /\ ~Pages!InRaw(tags, k)
<1> DEFINE n == Len(tags)
           V == SUBSET Nat
           Step(v, k) == v \cup {i \in {k} : tags[i].t = "raw" /\ \A j \in v : ~Pages!GoesOn(tags, j, i)}
           step == [x \in Nat \X V |-> Step(x[2], x[1])]
           Made(f) == f = [k \in 0..n |-> IF k = 0 THEN {} ELSE Step(f[k - 1], k)]
<1>1. Pages!RawElements(tags) = (CHOOSE f : Made(f))[n]
  BY DEF Pages!RawElements
<1>2. n \in Nat
  OBVIOUS
<1>3. \A i \in Nat, v \in V : Step(v, i) \in V
  OBVIOUS
<1>4. {} \in V
  OBVIOUS
<1> HIDE DEF n, V, Step
<1>5. step \in [Nat \X V -> V] /\ \A i \in Nat, v \in V : step[<<i, v>>] = Step(v, i)
  BY <1>3
<1> HIDE DEF step
<1>6. PICK g \in [0..n -> V] : IsRecursive(g, {}, step, n)
  BY <1>2, <1>4, <1>5, Recursion
<1>7. Made(g)
  <2>1. ASSUME NEW i \in 0..n PROVE g[i] = IF i = 0 THEN {} ELSE Step(g[i - 1], i)
    <3>1. i \in Nat /\ (i # 0 => g[i - 1] \in V)
      BY <1>2, <1>6
    <3> QED
      BY <1>5, <1>6, <3>1 DEF IsRecursive
  <2> QED
    BY <1>6, <2>1, Zenon
<1>8. PICK f : Made(f) /\ Pages!RawElements(tags) = f[n]
  BY <1>1, <1>7
<1>9. \A i \in 0..n : f[i] = IF i = 0 THEN {} ELSE Step(f[i - 1], i)
  BY <1>8
<1> HIDE DEF Made
<1> DEFINE Good(i) ==
             /\ f[i] \subseteq 1..i
             /\ \A k \in 1..i : k \in f[i] <=> tags[k].t = "raw" /\ \A j \in f[i] : ~Pages!GoesOn(tags, j, k)
           G == {i \in 0..n : Good(i)}
<1>10. 0 \in G
  <2>1. f[0] = {} /\ 1..0 = {} /\ 0 \in 0..n
    BY <1>2, <1>9
  <2> QED
    BY <2>1
<1>11. ASSUME NEW i \in 1..n, i - 1 \in G PROVE i \in G
  <2>1. i \in 0..n /\ i # 0 /\ i \in Nat
    BY <1>2
  <2>2. f[i] = f[i - 1] \cup {x \in {i} : tags[x].t = "raw" /\ \A j \in f[i - 1] : ~Pages!GoesOn(tags, j, x)}
    BY <1>9, <2>1 DEF Step
  <2>3. f[i - 1] \subseteq 1..(i - 1)
    BY <1>11
  <2>4. f[i] \subseteq 1..i
    BY <2>1, <2>2, <2>3
  <2>5. ASSUME NEW k \in 1..i
        PROVE  k \in f[i] <=> tags[k].t = "raw" /\ \A j \in f[i] : ~Pages!GoesOn(tags, j, k)
    <3>1. ~Pages!GoesOn(tags, i, k)
      <4>1. ~(i < k)
        BY <2>1
      <4> QED
        BY <4>1 DEF Pages!GoesOn
    <3>2. (\A j \in f[i] : ~Pages!GoesOn(tags, j, k)) <=> \A j \in f[i - 1] : ~Pages!GoesOn(tags, j, k)
      BY <2>2, <3>1
    <3>3. CASE k = i
      <4>1. i \notin f[i - 1]
        BY <2>1, <2>3
      <4> QED
        BY <2>2, <3>2, <3>3, <4>1
    <3>4. CASE k # i
      <4>1. k \in 1..(i - 1) /\ (k \in f[i] <=> k \in f[i - 1])
        BY <2>1, <2>2, <3>4
      <4>2. k \in f[i - 1] <=> tags[k].t = "raw" /\ \A j \in f[i - 1] : ~Pages!GoesOn(tags, j, k)
        BY <1>11, <4>1
      <4> QED
        BY <3>2, <4>1, <4>2
    <3> QED
      BY <3>3, <3>4
  <2> QED
    BY <2>1, <2>4, <2>5
<1>12. n \in G
  <2> HIDE DEF G
  <2>1. \A i \in 0..n : i \in G
    BY <1>2, <1>10, <1>11, CountUp
  <2> QED
    BY <1>2, <2>1
<1> QED
  BY <1>8, <1>12 DEF n, Pages!InRaw

(* What the scan of a built page knows of raw text after its first k tags.   *)
Reads(scan, tags, k) ==
    /\ scan.over <=> \E j \in 1..k : tags[j].t = "unfinished" /\ ~Pages!InRaw(tags, j)
    /\ ~scan.over /\ scan.raw = None => ~Pages!InRaw(tags, k + 1)
    /\ ~scan.over /\ scan.raw # None =>
          \E j \in Pages!RawElements(tags) : Pages!GoesOn(tags, j, k + 1) /\ tags[j].url = scan.raw

LEMMA ReadsWhatIsVisible ==
    ASSUME NEW tags, NEW k \in Nat \ {0}, NEW scan, Reads(scan, tags, k - 1)
    PROVE  Pages!Visible(tags, k) <=> ~scan.over /\ scan.raw = None
<1>1. (k - 1) + 1 = k
  OBVIOUS
<1>2. scan.over <=> \E j \in 1..(k - 1) : tags[j].t = "unfinished" /\ ~Pages!InRaw(tags, j)
  BY DEF Reads
<1>3. ~scan.over => (scan.raw = None <=> ~Pages!InRaw(tags, k))
  BY <1>1 DEF Reads, Pages!InRaw
<1> QED
  BY <1>2, <1>3 DEF Pages!Visible

LEMMA GoesOnUntil ==
    ASSUME NEW tags, NEW j \in Nat, NEW i \in Nat, NEW k \in Nat, Pages!GoesOn(tags, j, k), j < i, i <= k
    PROVE  Pages!GoesOn(tags, j, i)
<1>1. \A e \in j..(i - 1) : e \in j..(k - 1)
  OBVIOUS
<1> QED
  BY <1>1 DEF Pages!GoesOn

LEMMA ReadsOn ==
    ASSUME NEW tags \in Seq(Tags), NEW k \in 1..Len(tags), NEW scan \in TagScan,
           Reads(scan, tags, k - 1), tags[k].t = "raw" => tags[k].url # None
    PROVE  Reads(Pages!ScanTag(scan, tags[k]), tags, k)
<1> DEFINE now == Pages!ScanTag(scan, tags[k])
           B == Pages!RawElements(tags)
           Ends(j) == tags[j].t = "unfinished" /\ ~Pages!InRaw(tags, j)
<1>1. k \in Nat \ {0} /\ Len(tags) \in Nat /\ tags[k] \in Tags /\ (k - 1) + 1 = k /\ (k + 1) - 1 = k
  OBVIOUS
<1>2. /\ B \subseteq 1..Len(tags) /\ B \subseteq Nat
      /\ \A j \in 1..Len(tags) : j \in B <=> tags[j].t = "raw" /\ ~Pages!InRaw(tags, j)
  BY <1>1, RawBegins
<1>3. scan.over <=> \E j \in 1..(k - 1) : Ends(j)
  BY DEF Reads
<1>4. (\E j \in 1..k : Ends(j)) <=> Ends(k) \/ \E j \in 1..(k - 1) : Ends(j)
  <2>1. \A j \in 1..k : j = k \/ j \in 1..(k - 1)
    BY <1>1
  <2>2. k \in 1..k /\ \A j \in 1..(k - 1) : j \in 1..k
    BY <1>1
  <2> QED
    BY <2>1, <2>2
<1>5. ASSUME NEW j \in B, Pages!GoesOn(tags, j, k + 1)
      PROVE  j = k \/ Pages!GoesOn(tags, j, k)
  <2>1. j \in Nat /\ j < k + 1
    BY <1>2, <1>5 DEF Pages!GoesOn
  <2>2. CASE j < k
    BY <1>1, <1>5, <2>1, <2>2, GoesOnUntil
  <2> QED
    BY <1>1, <2>1, <2>2
<1> HIDE DEF B, Ends
<1>6. CASE scan.over
  <2>1. now = scan
    BY <1>6 DEF Pages!ScanTag
  <2> QED
    BY <1>3, <1>4, <1>6, <2>1 DEF Reads, Ends
<1>7. CASE ~scan.over /\ scan.raw = None
  <2>1. now = Pages!HandleTag(scan, tags[k])
    BY <1>7 DEF Pages!ScanTag
  <2>2. /\ now.raw = IF tags[k].t = "raw" THEN tags[k].url ELSE scan.raw
        /\ now.over = IF tags[k].t = "unfinished" THEN TRUE ELSE scan.over
    <3>1. Handles(Pages!HandleTag(scan, tags[k]), scan, tags[k])
      BY <1>1, TagHandled
    <3> QED
      BY <2>1, <3>1, Zenon DEF Handles
  <2>3. ~Pages!InRaw(tags, k)
    BY <1>1, <1>7 DEF Reads
  <2> HIDE DEF now
  <2>4. now.over <=> \E j \in 1..k : Ends(j)
    <3>1. now.over <=> tags[k].t = "unfinished" \/ scan.over
      BY <2>2, Zenon
    <3> QED
      BY <1>3, <1>4, <2>3, <3>1 DEF Ends
  <2>5. CASE tags[k].t = "raw"
    <3>1. now.raw # None /\ now.raw = tags[k].url
      BY <2>2, <2>5
    <3>2. k \in B
      BY <1>2, <2>3, <2>5
    <3>3. Pages!GoesOn(tags, k, k + 1)
      <4>1. k < k + 1 /\ \A e \in k..((k + 1) - 1) : e = k
        BY <1>1
      <4> QED
        BY <2>5, <4>1 DEF Pages!GoesOn
    <3> QED
      BY <2>4, <3>1, <3>2, <3>3 DEF Reads, B, Ends, now
  <2>6. CASE tags[k].t # "raw"
    <3>1. now.raw = None
      BY <1>7, <2>2, <2>6
    <3>2. ~Pages!InRaw(tags, k + 1)
      <4>1. k \notin B
        BY <1>2, <2>6
      <4>2. \A j \in B : ~Pages!GoesOn(tags, j, k)
        BY <2>3 DEF Pages!InRaw, B
      <4> QED
        BY <1>5, <4>1, <4>2 DEF Pages!InRaw, B
    <3> QED
      BY <2>4, <3>1, <3>2 DEF Reads, Ends, now
  <2> QED
    BY <2>5, <2>6
<1>8. CASE ~scan.over /\ scan.raw # None
  <2>1. PICK j \in B : Pages!GoesOn(tags, j, k) /\ tags[j].url = scan.raw
    BY <1>1, <1>8 DEF Reads, B
  <2>2. Pages!InRaw(tags, k)
    BY <2>1 DEF Pages!InRaw, B
  <2>3. ~Ends(k) /\ ~\E i \in 1..k : Ends(i)
    BY <1>3, <1>4, <1>8, <2>2 DEF Ends
  <2>4. CASE tags[k].t = "/raw" /\ tags[k].url = scan.raw
    <3>1. now = [scan EXCEPT !.raw = None]
      BY <1>8, <2>4 DEF Pages!ScanTag
    <3>2. now.raw = None /\ now.over = scan.over
      BY <3>1 DEF TagScan
    <3>3. ASSUME NEW i \in B, Pages!GoesOn(tags, i, k + 1) PROVE FALSE
      <4>1. k \notin B
        BY <1>2, <2>4
      <4>2. Pages!GoesOn(tags, i, k)
        BY <1>5, <3>3, <4>1
      <4>3. i \in Nat /\ j \in Nat /\ i < k /\ j < k /\ i \in 1..Len(tags) /\ j \in 1..Len(tags)
        BY <1>2, <2>1, <4>2 DEF Pages!GoesOn
      <4>4. ~Pages!InRaw(tags, i) /\ ~Pages!InRaw(tags, j)
        BY <1>2, <4>3
      <4>5. ~(i < j)
        <5>1. i < j => Pages!GoesOn(tags, i, j)
          BY <1>1, <4>2, <4>3, GoesOnUntil
        <5> QED
          BY <4>4, <5>1 DEF Pages!InRaw, B
      <4>6. ~(j < i)
        <5>1. j < i => Pages!GoesOn(tags, j, i)
          BY <1>1, <2>1, <4>3, GoesOnUntil
        <5> QED
          BY <4>4, <5>1 DEF Pages!InRaw, B
      <4>7. i = j
        BY <4>3, <4>5, <4>6
      <4>8. k \in i..((k + 1) - 1)
        BY <1>1, <4>3
      <4> QED
        BY <2>1, <2>4, <3>3, <4>7, <4>8 DEF Pages!GoesOn
    <3>4. ~Pages!InRaw(tags, k + 1)
      BY <3>3 DEF Pages!InRaw, B
    <3> HIDE DEF now
    <3> QED
      BY <1>8, <2>3, <3>2, <3>4 DEF Reads, Ends, now
  <2>5. CASE ~(tags[k].t = "/raw" /\ tags[k].url = scan.raw)
    <3>1. now = scan
      BY <1>8, <2>5 DEF Pages!ScanTag
    <3>2. Pages!GoesOn(tags, j, k + 1)
      <4>1. \A e \in j..((k + 1) - 1) : e = k \/ e \in j..(k - 1)
        BY <1>1, <1>2
      <4>2. j < k /\ j \in Nat
        BY <1>2, <2>1 DEF Pages!GoesOn
      <4>3. j < k + 1
        BY <1>1, <4>2
      <4> QED
        BY <2>1, <2>5, <4>1, <4>3 DEF Pages!GoesOn
    <3> QED
      BY <1>8, <2>1, <2>3, <3>1, <3>2 DEF Reads, Ends, B
  <2> QED
    BY <2>4, <2>5
<1> QED
  BY <1>6, <1>7, <1>8

(* What the scan has of the page's markup after its first k tags: a figure   *)
(* for each opening tag in p, in their order, with the images before its end.*)
Between(tags, from, to) == \E e \in Pages!At(tags, "/figure") : from < e /\ e < to
Placed(p, scan, tags, k) ==
    /\ p \in Seq(Nat) /\ Len(p) = Len(scan.figures)
    /\ scan.depth > 0 => scan.figures # <<>>
    /\ \A i \in DOMAIN p :
          /\ p[i] \in Pages!At(tags, "figure") /\ p[i] <= k /\ tags[p[i]].url = scan.figures[i].slug
          /\ scan.depth = 0 => Between(tags, p[i], k + 1)
          /\ \A j \in DOMAIN p : i < j => p[i] < p[j] /\ Between(tags, p[i], p[j])
          /\ \A m \in Pages!At(tags, "img") :
                (p[i] < m /\ m <= k /\ ~Between(tags, p[i], m)) => tags[m].url \in scan.figures[i].urls
Tallied(scan, tags, k) ==
    /\ scan.mermaid = Cardinality({j \in Pages!At(tags, "pre") : j <= k})
    /\ \A url \in scan.scripts : \E j \in Pages!At(tags, "script") : tags[j].url = url

Keeps(now, scan, tags, k) ==
    /\ now.depth > 0 => scan.depth > 0
    /\ (now.depth = 0 /\ scan.depth > 0) => k \in Pages!At(tags, "/figure")
    /\ Len(now.figures) = Len(scan.figures)
    /\ \A i \in DOMAIN scan.figures :
          /\ now.figures[i].slug = scan.figures[i].slug
          /\ scan.figures[i].urls \subseteq now.figures[i].urls
    /\ (k \in Pages!At(tags, "img") /\ scan.depth > 0 /\ scan.figures # <<>>) =>
          tags[k].url \in now.figures[Len(scan.figures)].urls
Adds(now, scan, tags, k) ==
    /\ scan.depth = 0 /\ k \in Pages!At(tags, "figure")
    /\ now.depth = 1 /\ now.figures = Append(scan.figures, [slug |-> tags[k].url, urls |-> {}])

LEMMA AtIsTag ==
    ASSUME NEW T, NEW tags \in Seq(T), NEW t
    PROVE  /\ Pages!At(tags, t) \subseteq 1..Len(tags) /\ Pages!At(tags, t) \subseteq Nat
           /\ \A k \in Pages!At(tags, t) : tags[k].t = t
<1>1. DOMAIN tags = 1..Len(tags) /\ DOMAIN tags \subseteq Nat
  OBVIOUS
<1> QED
  BY <1>1 DEF Pages!At

\* A tag that is not read, or read as something else than a figure's opening.
LEMMA PlacedStays ==
    ASSUME NEW tags \in Seq(Tags), NEW k \in 1..Len(tags), NEW scan \in TagScan, NEW now \in TagScan,
           NEW p, Placed(p, scan, tags, k - 1), Keeps(now, scan, tags, k)
    PROVE  Placed(p, now, tags, k)
<1> DEFINE n == Len(scan.figures)
<1>1. /\ k \in Nat /\ k - 1 \in Nat /\ (k - 1) + 1 = k /\ ~(k <= k - 1) /\ k - 1 <= k
      /\ scan.depth \in Nat /\ now.depth \in Nat
      /\ scan.figures \in Seq(Figure) /\ now.figures \in Seq(Figure)
  BY DEF TagScan
<1>2. /\ n \in Nat /\ DOMAIN scan.figures = 1..n /\ DOMAIN now.figures = 1..n
      /\ (scan.figures # <<>> => n \in 1..n) /\ (now.figures = <<>> <=> n = 0) /\ (scan.figures = <<>> <=> n = 0)
  <2>1. Len(now.figures) = Len(scan.figures)
    BY DEF Keeps
  <2> QED
    BY <1>1, <2>1
<1>3. p \in Seq(Nat) /\ Len(p) = n /\ DOMAIN p = 1..n /\ \A i \in 1..n : p[i] \in Nat
  BY <1>2 DEF Placed
<1>4. scan.depth > 0 => scan.figures # <<>>
  BY DEF Placed
<1>5. ASSUME NEW i \in 1..n
      PROVE  /\ p[i] \in Pages!At(tags, "figure") /\ p[i] <= k - 1 /\ tags[p[i]].url = scan.figures[i].slug
             /\ scan.depth = 0 => Between(tags, p[i], k)
             /\ \A j \in DOMAIN p : i < j => p[i] < p[j] /\ Between(tags, p[i], p[j])
             /\ \A m \in Pages!At(tags, "img") :
                   (p[i] < m /\ m <= k - 1 /\ ~Between(tags, p[i], m)) => tags[m].url \in scan.figures[i].urls
  BY <1>1, <1>3 DEF Placed
<1>6. Pages!At(tags, "/figure") \subseteq Nat /\ Pages!At(tags, "img") \subseteq Nat
  BY AtIsTag
<1> HIDE DEF n
<1>7. ASSUME NEW i \in 1..n
      PROVE  /\ p[i] <= k /\ tags[p[i]].url = now.figures[i].slug
             /\ now.depth = 0 => Between(tags, p[i], k + 1)
             /\ \A m \in Pages!At(tags, "img") :
                   (p[i] < m /\ m <= k /\ ~Between(tags, p[i], m)) => tags[m].url \in now.figures[i].urls
  <2>1. p[i] \in Nat /\ p[i] < k /\ p[i] <= k
    BY <1>1, <1>3, <1>5
  <2>2. now.figures[i].slug = scan.figures[i].slug /\ scan.figures[i].urls \subseteq now.figures[i].urls
    BY <1>2 DEF Keeps
  <2>3. ASSUME now.depth = 0 PROVE Between(tags, p[i], k + 1)
    <3>1. CASE scan.depth = 0
      <4>1. PICK e \in Pages!At(tags, "/figure") : p[i] < e /\ e < k
        BY <1>5, <3>1 DEF Between
      <4>2. e \in Nat /\ e < k /\ k \in Nat
        BY <1>1, <1>6, <4>1
      <4>3. e < k + 1
        <5>1. \A x \in Nat : x < k => x < k + 1
          BY <1>1
        <5> QED
          BY <4>2, <5>1
      <4> QED
        BY <4>1, <4>3 DEF Between
    <3>2. CASE scan.depth # 0
      <4>1. k \in Pages!At(tags, "/figure")
        <5>1. scan.depth > 0
          BY <1>1, <3>2
        <5> QED
          BY <2>3, <5>1 DEF Keeps
      <4>2. k < k + 1
        BY <1>1
      <4> QED
        BY <2>1, <4>1, <4>2 DEF Between
    <3> QED
      BY <3>1, <3>2
  <2>4. ASSUME NEW m \in Pages!At(tags, "img"), p[i] < m, m <= k, ~Between(tags, p[i], m)
        PROVE  tags[m].url \in now.figures[i].urls
    <3>1. CASE m # k
      <4>1. m <= k - 1
        <5>1. m \in Nat
          BY <1>6
        <5> QED
          BY <1>1, <2>4, <3>1, <5>1
      <4> QED
        BY <1>5, <2>2, <2>4, <4>1
    <3>2. CASE m = k
      <4>1. scan.depth > 0
        <5>1. scan.depth # 0
          BY <1>5, <2>4, <3>2
        <5> QED
          BY <1>1, <5>1
      <4>2. n \in 1..n /\ scan.figures # <<>>
        BY <1>2, <1>4, <4>1
      <4>3. i = n
        <5>1. ASSUME i # n PROVE FALSE
          <6>1. i < n /\ n \in DOMAIN p
            BY <1>2, <1>3, <4>2, <5>1
          <6>2. PICK e \in Pages!At(tags, "/figure") : p[i] < e /\ e < p[n]
            BY <1>5, <6>1 DEF Between
          <6>3. p[n] \in Nat /\ p[n] <= k - 1
            BY <1>3, <1>5, <4>2
          <6>4. e < k
            <7>1. e \in Nat /\ e < p[n] /\ k \in Nat
              BY <1>1, <1>6, <6>2
            <7>2. \A x \in Nat : x < p[n] => x < k
              BY <1>1, <6>3
            <7> QED
              BY <7>1, <7>2
          <6> QED
            BY <2>4, <3>2, <6>2, <6>4 DEF Between
        <5> QED
          BY <5>1
      <4> QED
        BY <2>4, <3>2, <4>1, <4>2, <4>3 DEF n, Keeps
    <3> QED
      BY <3>1, <3>2
  <2> QED
    BY <2>1, <2>2, <2>3, <2>4, <1>5
<1>8. now.depth > 0 => now.figures # <<>>
  BY <1>2, <1>4 DEF Keeps
<1>9. Len(p) = Len(now.figures)
  BY <1>3 DEF n, Keeps
<1> QED
  BY <1>3, <1>5, <1>7, <1>8, <1>9 DEF Placed

\* A figure opens.
LEMMA PlacedGrows ==
    ASSUME NEW tags \in Seq(Tags), NEW k \in 1..Len(tags), NEW scan \in TagScan, NEW now \in TagScan,
           NEW p, Placed(p, scan, tags, k - 1), Adds(now, scan, tags, k)
    PROVE  Placed(Append(p, k), now, tags, k)
<1> DEFINE n == Len(scan.figures)
           q == Append(p, k)
           one == [slug |-> tags[k].url, urls |-> {}]
<1>1. /\ k \in Nat /\ k - 1 \in Nat /\ (k - 1) + 1 = k
      /\ scan.figures \in Seq(Figure) /\ now.figures \in Seq(Figure)
  BY DEF TagScan
<1>0. /\ scan.depth = 0 /\ k \in Pages!At(tags, "figure")
      /\ now.depth = 1 /\ now.figures = Append(scan.figures, one)
  BY DEF Adds
<1>2. p \in Seq(Nat) /\ Len(p) = n /\ n \in Nat /\ DOMAIN p = 1..n /\ \A i \in 1..n : p[i] \in Nat
  BY <1>1 DEF Placed
<1>3. ASSUME NEW i \in 1..n
      PROVE  /\ p[i] \in Pages!At(tags, "figure") /\ p[i] <= k - 1 /\ tags[p[i]].url = scan.figures[i].slug
             /\ Between(tags, p[i], k)
             /\ \A j \in DOMAIN p : i < j => p[i] < p[j] /\ Between(tags, p[i], p[j])
             /\ \A m \in Pages!At(tags, "img") :
                   (p[i] < m /\ m <= k - 1 /\ ~Between(tags, p[i], m)) => tags[m].url \in scan.figures[i].urls
  BY <1>0, <1>1, <1>2 DEF Placed
<1>4. /\ q \in Seq(Nat) /\ Len(q) = n + 1 /\ q[n + 1] = k /\ \A i \in 1..n : q[i] = p[i]
      /\ DOMAIN q = 1..(n + 1)
  BY <1>1, <1>2
<1>5. one \in Figure
  <2>1. tags[k] \in Tags
    OBVIOUS
  <2> QED
    BY <2>1 DEF Figure, Tags
<1> HIDE DEF one
<1>6. /\ Len(now.figures) = n + 1 /\ now.figures[n + 1] = one
      /\ \A i \in 1..n : now.figures[i] = scan.figures[i]
  <2>1. now.figures = Append(scan.figures, one)
    BY <1>0
  <2> QED
    BY <1>1, <1>2, <1>5, <2>1
<1>7. one.slug = tags[k].url
  BY DEF one
<1>8. Pages!At(tags, "/figure") \subseteq Nat /\ Pages!At(tags, "img") \subseteq Nat
  BY AtIsTag
<1>9. k \notin Pages!At(tags, "img")
  BY <1>0 DEF Pages!At
<1> HIDE DEF n, q
<1>10. ASSUME NEW i \in 1..n
       PROVE  /\ q[i] \in Pages!At(tags, "figure") /\ q[i] <= k /\ tags[q[i]].url = now.figures[i].slug
              /\ \A j \in 1..(n + 1) : i < j => q[i] < q[j] /\ Between(tags, q[i], q[j])
              /\ \A m \in Pages!At(tags, "img") :
                    (q[i] < m /\ m <= k /\ ~Between(tags, q[i], m)) => tags[m].url \in now.figures[i].urls
  <2>1. q[i] = p[i] /\ p[i] \in Nat /\ now.figures[i] = scan.figures[i] /\ p[i] < k
    BY <1>1, <1>2, <1>3, <1>4, <1>6
  <2>2. ASSUME NEW j \in 1..(n + 1), i < j PROVE q[i] < q[j] /\ Between(tags, q[i], q[j])
    <3>1. CASE j = n + 1
      BY <1>3, <1>4, <2>1, <3>1
    <3>2. CASE j # n + 1
      <4>1. j \in DOMAIN p /\ q[j] = p[j]
        BY <1>2, <1>4, <3>2
      <4> QED
        BY <1>3, <2>1, <2>2, <4>1
    <3> QED
      BY <3>1, <3>2
  <2>3. ASSUME NEW m \in Pages!At(tags, "img"), q[i] < m, m <= k, ~Between(tags, q[i], m)
        PROVE  tags[m].url \in now.figures[i].urls
    <3>1. m # k
      BY <1>9
    <3>2. m <= k - 1
      <4>1. m \in Nat
        BY <1>8
      <4> QED
        BY <1>1, <2>3, <3>1, <4>1
    <3>3. ~Between(tags, p[i], m)
      BY <2>1, <2>3
    <3> QED
      BY <1>3, <2>1, <2>3, <3>2, <3>3
  <2>4. q[i] <= k
    BY <1>1, <2>1
  <2> QED
    BY <1>3, <2>1, <2>2, <2>3, <2>4
<1>11. /\ q[n + 1] \in Pages!At(tags, "figure") /\ q[n + 1] <= k /\ tags[q[n + 1]].url = now.figures[n + 1].slug
       /\ \A j \in 1..(n + 1) : ~(n + 1 < j)
       /\ \A m \in Pages!At(tags, "img") : ~(q[n + 1] < m /\ m <= k)
  <2>1. k <= k /\ \A m \in Nat : ~(k < m /\ m <= k)
    BY <1>1
  <2>2. \A m \in Pages!At(tags, "img") : ~(k < m /\ m <= k)
    BY <1>8, <2>1
  <2>3. \A j \in 1..(n + 1) : ~(n + 1 < j)
    BY <1>2
  <2>4. q[n + 1] = k /\ now.figures[n + 1].slug = tags[k].url /\ k \in Pages!At(tags, "figure")
    BY <1>0, <1>4, <1>6, <1>7
  <2> QED
    BY <2>1, <2>2, <2>3, <2>4
<1>12. now.figures # <<>> /\ now.depth # 0 /\ Len(q) = Len(now.figures)
  <2>1. Len(now.figures) # 0 /\ Len(q) = Len(now.figures)
    BY <1>2, <1>4, <1>6
  <2>2. now.depth = 1
    BY <1>0
  <2> QED
    BY <1>1, <2>1, <2>2
<1>13. ASSUME NEW i \in DOMAIN q PROVE i \in 1..n \/ i = n + 1
  BY <1>2, <1>4
<1>14. Placed(q, now, tags, k)
  BY <1>4, <1>10, <1>11, <1>12, <1>13 DEF Placed
<1> QED
  BY <1>14 DEF q

Scanned(scan, tags, k) ==
    /\ scan \in TagScan /\ Reads(scan, tags, k) /\ Tallied(scan, tags, k)
    /\ \E p : Placed(p, scan, tags, k)

LEMMA TalliedStays ==
    ASSUME NEW tags \in Seq(Tags), NEW k \in 1..Len(tags), NEW scan, NEW now,
           Tallied(scan, tags, k - 1), now.mermaid = scan.mermaid, now.scripts = scan.scripts,
           k \notin Pages!At(tags, "pre")
    PROVE  Tallied(now, tags, k)
<1>1. \A j \in Pages!At(tags, "pre") : j <= k - 1 <=> j <= k
  <2>1. ASSUME NEW j \in Pages!At(tags, "pre") PROVE j <= k - 1 <=> j <= k
    <3>1. j \in Nat /\ j # k
      BY AtIsTag
    <3> QED
      BY <3>1
  <2> QED
    BY <2>1
<1>2. {j \in Pages!At(tags, "pre") : j <= k - 1} = {j \in Pages!At(tags, "pre") : j <= k}
  BY <1>1
<1> QED
  BY <1>2 DEF Tallied

LEMMA TagIsScanned ==
    ASSUME NEW tags \in Seq(Tags), NEW k \in 1..Len(tags), tags[k].t = "raw" => tags[k].url # None,
           NEW scan, Scanned(scan, tags, k - 1)
    PROVE  Scanned(Pages!ScanTag(scan, tags[k]), tags, k)
<1> DEFINE now == Pages!ScanTag(scan, tags[k])
           tag == tags[k]
<1>1. /\ k \in Nat \ {0} /\ k - 1 \in Nat /\ k \in DOMAIN tags /\ tag \in Tags
      /\ DOMAIN tags = 1..Len(tags)
  OBVIOUS
<1>2. scan \in TagScan /\ Reads(scan, tags, k - 1) /\ Tallied(scan, tags, k - 1)
  BY DEF Scanned
<1>3. PICK p : Placed(p, scan, tags, k - 1)
  BY DEF Scanned
<1>4. Reads(now, tags, k)
  BY <1>2, ReadsOn
<1>5. Pages!Visible(tags, k) <=> ~scan.over /\ scan.raw = None
  BY <1>1, <1>2, ReadsWhatIsVisible
<1>6. \A t : k \in Pages!At(tags, t) <=> tag.t = t /\ Pages!Visible(tags, k)
  BY <1>1 DEF Pages!At
<1>7. CASE ~Pages!Visible(tags, k)
  <2>1. /\ now.mermaid = scan.mermaid /\ now.scripts = scan.scripts /\ now.depth = scan.depth
        /\ now.figures = scan.figures /\ now \in TagScan
    <3>1. now = scan \/ now = [scan EXCEPT !.raw = None]
      BY <1>5, <1>7 DEF Pages!ScanTag
    <3> HIDE DEF now
    <3> QED
      BY <1>2, <3>1 DEF TagScan
  <2>2. k \notin Pages!At(tags, "pre") /\ k \notin Pages!At(tags, "img")
    BY <1>6, <1>7
  <2> HIDE DEF now
  <2>3. Tallied(now, tags, k)
    BY <1>2, <2>1, <2>2, TalliedStays
  <2>4. Keeps(now, scan, tags, k)
    <3>1. scan.depth \in Nat
      BY <1>2 DEF TagScan
    <3> QED
      BY <2>1, <2>2, <3>1 DEF Keeps
  <2>5. Placed(p, now, tags, k)
    BY <1>2, <1>3, <2>1, <2>4, PlacedStays
  <2> QED
    BY <1>4, <2>1, <2>3, <2>5 DEF Scanned, now
<1>8. CASE Pages!Visible(tags, k)
  <2>1. now = Pages!HandleTag(scan, tag)
    BY <1>5, <1>8 DEF Pages!ScanTag
  <2>2. now \in TagScan /\ Handles(now, scan, tag)
    BY <1>1, <1>2, <2>1, TagHandled
  <2>3. \A t : k \in Pages!At(tags, t) <=> tag.t = t
    BY <1>6, <1>8
  <2> HIDE DEF now
  <2>4. Tallied(now, tags, k)
    <3>1. now.mermaid = Cardinality({j \in Pages!At(tags, "pre") : j <= k})
      <4> DEFINE before == {j \in Pages!At(tags, "pre") : j <= k - 1}
      <4>1. scan.mermaid = Cardinality(before)
        BY <1>2 DEF Tallied
      <4>2. \A j \in Pages!At(tags, "pre") : (j <= k <=> j <= k - 1 \/ j = k)
        <5>1. ASSUME NEW j \in Pages!At(tags, "pre") PROVE j <= k <=> j <= k - 1 \/ j = k
          <6>1. j \in Nat
            BY AtIsTag
          <6> QED
            BY <6>1
        <5> QED
          BY <5>1
      <4>3. CASE tag.t = "pre"
        <5>1. {j \in Pages!At(tags, "pre") : j <= k} = before \cup {k}
          BY <2>3, <4>2, <4>3
        <5>2. IsFiniteSet(before) /\ k \notin before
          <6>1. before \subseteq 1..k
            BY AtIsTag
          <6>2. IsFiniteSet(1..k)
            BY <1>1, FS_Interval
          <6>3. ~(k <= k - 1)
            BY <1>1
          <6> HIDE DEF before
          <6>4. IsFiniteSet(before)
            BY <6>1, <6>2, FS_Subset
          <6> QED
            BY <6>3, <6>4 DEF before
        <5>3. Cardinality(before \cup {k}) = Cardinality(before) + 1
          BY <5>2, FS_AddElement
        <5>4. now.mermaid = scan.mermaid + 1
          BY <2>2, <4>3 DEF Handles
        <5> QED
          BY <4>1, <5>1, <5>3, <5>4
      <4>4. CASE tag.t # "pre"
        <5>1. {j \in Pages!At(tags, "pre") : j <= k} = before
          BY <2>3, <4>2, <4>4
        <5>2. now.mermaid = scan.mermaid
          BY <2>2, <4>4 DEF Handles
        <5> QED
          BY <4>1, <5>1, <5>2
      <4> QED
        BY <4>3, <4>4
    <3>2. ASSUME NEW url \in now.scripts PROVE \E j \in Pages!At(tags, "script") : tags[j].url = url
      <4>1. url \in scan.scripts \/ (tag.t = "script" /\ url = tag.url)
        BY <2>2, <3>2 DEF Handles
      <4>2. CASE url \in scan.scripts
        BY <1>2, <4>2 DEF Tallied
      <4>3. CASE tag.t = "script" /\ url = tag.url
        BY <2>3, <4>3
      <4> QED
        BY <4>1, <4>2, <4>3
    <3> QED
      BY <3>1, <3>2 DEF Tallied
  <2>5. CASE Opens(scan, tag)
    <3>1. Adds(now, scan, tags, k)
      BY <2>2, <2>3, <2>5 DEF Adds, Handles, Opens
    <3>2. Placed(Append(p, k), now, tags, k)
      BY <1>2, <1>3, <2>2, <3>1, PlacedGrows
    <3> QED
      BY <1>4, <2>2, <2>4, <3>2 DEF Scanned, now
  <2>6. CASE ~Opens(scan, tag)
    <3>1. Keeps(now, scan, tags, k)
      BY <2>2, <2>3, <2>6 DEF Keeps, Handles
    <3>2. Placed(p, now, tags, k)
      BY <1>2, <1>3, <2>2, <3>1, PlacedStays
    <3> QED
      BY <1>4, <2>2, <2>4, <3>2 DEF Scanned, now
  <2> QED
    BY <2>5, <2>6
<1> QED
  BY <1>7, <1>8

\* So a built page is scanned as a browser reads it.
LEMMA PageIsScanned ==
    ASSUME NEW tags \in Seq(Tags), \A k \in DOMAIN tags : tags[k].t = "raw" => tags[k].url # None
    PROVE  Scanned(Pages!ScanPage(tags), tags, Len(tags))
<1> DEFINE n == Len(tags)
           V == TagScan
           start == Pages!StartScan
           step == [x \in Nat \X V |-> IF x[1] \in 1..n THEN Pages!ScanTag(x[2], tags[x[1]]) ELSE x[2]]
           Made(f) == f = [k \in 0..n |-> IF k = 0 THEN start ELSE Pages!ScanTag(f[k - 1], tags[k])]
<1>1. Pages!ScanPage(tags) = (CHOOSE f : Made(f))[n]
  BY DEF Pages!ScanPage
<1>2. n \in Nat /\ DOMAIN tags = 1..n
  OBVIOUS
<1>3. /\ start \in V /\ start.mermaid = 0 /\ start.figures = <<>> /\ start.scripts = {}
      /\ start.depth = 0 /\ start.raw = None /\ start.over = FALSE
  BY DEF Pages!StartScan, TagScan
<1>4. ASSUME NEW i \in 1..n, NEW scan \in V PROVE Pages!ScanTag(scan, tags[i]) \in V
  <2>1. tags[i] \in Tags
    OBVIOUS
  <2>2. Pages!HandleTag(scan, tags[i]) \in V
    BY <2>1, TagHandled
  <2>3. [scan EXCEPT !.raw = None] \in V
    BY DEF TagScan
  <2> QED
    BY <2>2, <2>3 DEF Pages!ScanTag
<1> HIDE DEF n, V, start
<1>5. step \in [Nat \X V -> V] /\ \A i \in 1..n, v \in V : step[<<i, v>>] = Pages!ScanTag(v, tags[i])
  BY <1>2, <1>4
<1> HIDE DEF step
<1>6. PICK g \in [0..n -> V] : IsRecursive(g, start, step, n)
  BY <1>2, <1>3, <1>5, Recursion
<1>7. Made(g)
  <2>1. ASSUME NEW i \in 0..n PROVE g[i] = IF i = 0 THEN start ELSE Pages!ScanTag(g[i - 1], tags[i])
    <3>1. i # 0 => i \in 1..n /\ g[i - 1] \in V
      BY <1>2, <1>6
    <3> QED
      BY <1>5, <1>6, <3>1 DEF IsRecursive
  <2> QED
    BY <1>6, <2>1, Zenon
<1>8. PICK f : Made(f) /\ Pages!ScanPage(tags) = f[n]
  BY <1>1, <1>7
<1>9. \A i \in 0..n : f[i] = IF i = 0 THEN start ELSE Pages!ScanTag(f[i - 1], tags[i])
  BY <1>8
<1> HIDE DEF Made
<1> DEFINE G == {i \in 0..n : Scanned(f[i], tags, i)}
<1>10. 0 \in G
  <2>1. Reads(start, tags, 0)
    <3>1. 1..0 = {} /\ 0 + 1 = 1
      OBVIOUS
    <3>2. Pages!RawElements(tags) \subseteq 1..n
      BY RawBegins DEF n
    <3>3. ASSUME NEW j \in Pages!RawElements(tags) PROVE ~Pages!GoesOn(tags, j, 1)
      <4>1. ~(j < 1)
        BY <1>2, <3>2
      <4> QED
        BY <4>1 DEF Pages!GoesOn
    <3> QED
      BY <1>3, <3>1, <3>3 DEF Reads, Pages!InRaw
  <2>2. Tallied(start, tags, 0)
    <3>1. ASSUME NEW j \in Pages!At(tags, "pre") PROVE ~(j <= 0)
      BY <1>2, AtIsTag
    <3>2. {j \in Pages!At(tags, "pre") : j <= 0} = {}
      BY <3>1
    <3> QED
      BY <1>3, <3>2, FS_EmptySet DEF Tallied
  <2>3. Placed(<<>>, start, tags, 0)
    BY <1>3 DEF Placed
  <2> QED
    BY <1>2, <1>3, <1>9, <2>1, <2>2, <2>3 DEF Scanned, V
<1>11. ASSUME NEW i \in 1..n, i - 1 \in G PROVE i \in G
  <2>1. i \in 0..n /\ i # 0 /\ i \in 1..Len(tags)
    BY <1>2 DEF n
  <2>2. Scanned(Pages!ScanTag(f[i - 1], tags[i]), tags, i)
    BY <1>2, <1>11, <2>1, TagIsScanned
  <2> QED
    BY <1>9, <2>1, <2>2
<1>12. n \in G
  <2> HIDE DEF G
  <2>1. \A i \in 0..n : i \in G
    BY <1>2, <1>10, <1>11, CountUp
  <2> QED
    BY <1>2, <2>1
<1> QED
  BY <1>8, <1>12 DEF n

------------------------------------------------------------------------------
(* `site`: any tree of documents.                                            *)
CONSTANTS Names, Lines      \* what a path and a page are made of
Patterns == [globs : Seq(SUBSET Names), anchored : BOOLEAN, directory : BOOLEAN, supported : BOOLEAN]
PagesAssumption ==
    /\ None \notin {"ok", "findings", "refused"} /\ None # {}
    /\ Hidden \subseteq Names /\ Templates \in Names
    /\ \A c \in SiteInputs :
          /\ c.flavor \in {"mkdocs", "starlight"}
          /\ c.files \cup c.dirs \subseteq Seq(Names) \ {<<>>} /\ IsFiniteSet(c.dirs)
          /\ \A p \in c.files \cup c.dirs : \A n \in 1..(Len(p) - 1) : SubSeq(p, 1, n) \in c.dirs
          /\ c.patterns \in Seq(Patterns)
          /\ \A p \in c.files : c.lines[p] \in Seq(Lines)
          /\ \A o \in DOMAIN c.built :
                /\ c.built[o] \in Seq(Tags)
                /\ \A k \in DOMAIN c.built[o] : c.built[o][k].t = "raw" => c.built[o][k].url # None

IsPage(p) == Pages!Name(p) \in Suffixed[input.flavor]

(* The walk: a page it has not found is below a directory still to list.     *)
Below(p) == \E n \in 0..(Len(p) - 1), i \in DOMAIN unlisted : unlisted[i] = SubSeq(p, 1, n)
WalkInv ==
    /\ unlisted \in Seq(Seq(Names))
    /\ \A p \in input.files \cup input.dirs : IsPage(p) => p \in listed \/ Below(p)

(* Then each page that the generator publishes is read, and what is wrong    *)
(* with it is a complaint.                                                   *)
ReadInv ==
    unread # None => \A p \in input.files : IsPage(p) /\ Pages!Published(p) =>
        p \in unread \/ \A e \in Pages!PageErrors(p) : <<p, e>> \in complaints
EndInv ==
    ended = "ok" => \A p \in input.files : IsPage(p) /\ Pages!Published(p) => Pages!PageErrors(p) = {}

PagesInv == input \in SiteInputs /\ WalkInv /\ ReadInv /\ EndInv

\* A sequence of all the paths leaves nothing out.
LEMMA SetIsListed ==
    ASSUME NEW S, IsFiniteSet(S)
    PROVE  /\ Pages!InSomeOrder(S) \in Seq(S)
           /\ \A x \in S : \E i \in DOMAIN Pages!InSomeOrder(S) : Pages!InSomeOrder(S)[i] = x
<1> DEFINE n == Cardinality(S)
           Listing(f) == f \in [1..n -> S] /\ Pages!IsInjective(f)
<1>1. n \in Nat /\ ExistsBijection(1..n, S)
  BY FS_CardinalityType
<1>2. Pages!Cardinality(S) = n
  BY DEF Pages!Cardinality, Cardinality
<1> HIDE DEF n
<1>3. Pages!InSomeOrder(S) = CHOOSE f \in [1..n -> S] : Pages!IsInjective(f)
  BY <1>2 DEF Pages!InSomeOrder
<1>4. PICK g \in Bijection(1..n, S) : TRUE
  BY <1>1 DEF ExistsBijection
<1>5. g \in [1..n -> S] /\ Pages!IsInjective(g)
  BY <1>4 DEF Bijection, Injection, IsInjective, Pages!IsInjective
<1>6. PICK f : f \in [1..n -> S] /\ Pages!IsInjective(f) /\ Pages!InSomeOrder(S) = f
  BY <1>3, <1>5
<1>7. f \in Injection(1..n, S)
  BY <1>6 DEF Injection, IsInjective, Pages!IsInjective
<1>8. Cardinality(1..n) = Cardinality(S)
  BY <1>1, FS_Interval DEF n
<1>9. f \in Surjection(1..n, S)
  BY <1>7, <1>8, FS_Injection
<1>10. \A x \in S : \E i \in 1..n : f[i] = x
  BY <1>9 DEF Surjection
<1> QED
  BY <1>1, <1>6, <1>10

LEMMA PrefixIsThere ==
    ASSUME NEW S, NEW s \in Seq(S), NEW n \in 0..Len(s)
    PROVE  /\ SubSeq(s, 1, n) \in Seq(S) /\ Len(SubSeq(s, 1, n)) = n
           /\ DOMAIN SubSeq(s, 1, n) = 1..n
           /\ \A i \in 1..n : SubSeq(s, 1, n)[i] = s[i]
  OBVIOUS

\* A path that a supported pattern matches is one that it takes.
LEMMA MatchedIsTaken ==
    ASSUME NEW parts \in Seq(Names), parts # <<>>, NEW pattern \in Patterns,
           Pages!PatternMatches(parts, pattern)
    PROVE  Pages!Takes(pattern, parts)
<1> DEFINE names == Pages!Named(parts, pattern)
           m == Len(pattern.globs)
<1>1. Len(parts) \in Nat /\ Len(parts) > 0 /\ pattern.globs \in Seq(SUBSET Names) /\ pattern.globs # <<>>
  BY DEF Patterns, Pages!PatternMatches
<1>2. m \in Nat /\ m > 0 /\ DOMAIN pattern.globs = 1..m
  BY <1>1
<1>3. /\ names \in Seq(Names) /\ Len(names) = IF pattern.directory THEN Len(parts) - 1 ELSE Len(parts)
      /\ \A i \in DOMAIN names : names[i] = parts[i]
  <2>1. CASE pattern.directory
    <3>1. names = SubSeq(parts, 1, Len(parts) - 1)
      BY <2>1 DEF Pages!Named, Pages!Parent
    <3> DEFINE n == Len(parts) - 1
    <3>2. n \in 0..Len(parts)
      BY <1>1
    <3>3. names = SubSeq(parts, 1, n)
      BY <3>1
    <3> HIDE DEF names, n
    <3>4. /\ Len(names) = n /\ names \in Seq(Names)
          /\ \A i \in 1..n : names[i] = parts[i]
      BY <3>2, <3>3, PrefixIsThere
    <3>5. /\ Len(names) = Len(parts) - 1 /\ names \in Seq(Names)
          /\ \A i \in 1..(Len(parts) - 1) : names[i] = parts[i]
      BY <3>4 DEF n
    <3>6. DOMAIN names = 1..(Len(parts) - 1)
      BY <3>5
    <3> QED
      BY <2>1, <3>5, <3>6
  <2>2. CASE ~pattern.directory
    <3>1. names = parts
      BY <2>2 DEF Pages!Named
    <3> QED
      BY <2>2, <3>1
  <2> QED
    BY <2>1, <2>2
<1>4. Len(names) \in Nat /\ DOMAIN names = 1..Len(names)
  BY <1>3
<1>5. \A n \in 1..Len(names) : n \in 1..Len(parts) /\ (pattern.directory => n < Len(parts))
  BY <1>1, <1>3, <1>4
<1>6. CASE pattern.anchored
  <2>1. m <= Len(names) /\ \A i \in 1..m : names[i] \in pattern.globs[i]
    BY <1>2, <1>6 DEF Pages!PatternMatches
  <2>2. m \in 1..Len(names) /\ \A i \in 1..m : i \in DOMAIN names
    BY <1>2, <1>4, <2>1
  <2> HIDE DEF names
  <2> QED
    BY <1>3, <1>5, <1>6, <2>1, <2>2 DEF Pages!Takes
<1>7. CASE ~pattern.anchored
  <2>1. PICK i \in DOMAIN names : names[i] \in pattern.globs[1]
    BY <1>7 DEF Pages!PatternMatches
  <2> HIDE DEF names
  <2> QED
    BY <1>1, <1>3, <1>4, <1>5, <1>7, <2>1 DEF Pages!Takes
<1> QED
  BY <1>6, <1>7

\* What the generator publishes is skipped only over a pattern that refuses.
LEMMA PublishedIsKept ==
    ASSUME PagesAssumption, input \in SiteInputs, NEW p \in input.files,
           Pages!Published(p), ~Pages!Unsupported(p)
    PROVE  ~Pages!Skips(p)
<1> DEFINE all == Pages!DefaultExclude \o input.patterns
           settling == Pages!Settling(p, all)
<1>1. /\ p \in Seq(Names) /\ p # <<>> /\ input.patterns \in Seq(Patterns)
      /\ input.flavor \in {"mkdocs", "starlight"} /\ Hidden \subseteq Names /\ Templates \in Names
  BY DEF PagesAssumption
<1>2. CASE input.flavor = "starlight"
  BY <1>2 DEF Pages!Published
<1>3. CASE input.flavor = "mkdocs"
  <2>1. all \in Seq(Patterns)
    <3> DEFINE hidden == Pages!Pattern(<<Hidden>>, FALSE, FALSE)
               templates == Pages!Pattern(<<{Templates}>>, TRUE, TRUE)
    <3>1. hidden \in Patterns /\ templates \in Patterns
      BY <1>1 DEF Pages!Pattern, Patterns
    <3>2. Pages!DefaultExclude = <<hidden, templates>>
      BY Zenon DEF Pages!DefaultExclude
    <3> HIDE DEF hidden, templates
    <3>3. Pages!DefaultExclude \in Seq(Patterns)
      BY <3>1, <3>2
    <3> QED
      BY <1>1, <3>3
  <2>2. DOMAIN all \subseteq Nat /\ \A i \in DOMAIN all : all[i] \in Patterns
    BY <2>1
  <2> HIDE DEF all
  <2>3. settling \subseteq DOMAIN all
    BY DEF Pages!Settling
  <2>4. ASSUME settling # {} PROVE FALSE
    <3>1. PICK i \in settling : \A j \in settling : i <= j
      <4>1. settling \subseteq Nat
        BY <2>2, <2>3
      <4> HIDE DEF settling
      <4> QED
        BY <2>4, <4>1, LeastNumber, Zenon
    <3>2. all[i].supported
      BY <1>3, <3>1 DEF Pages!Unsupported, all
    <3>3. Pages!PatternMatches(p, all[i]) /\ i \in DOMAIN all /\ all[i] \in Patterns
      BY <2>2, <2>3, <3>1, <3>2 DEF Pages!Settling
    <3>4. Pages!Takes(all[i], p)
      BY <1>1, <3>3, MatchedIsTaken
    <3>5. all[i] \in Pages!Range(all)
      BY <3>3 DEF Pages!Range
    <3> QED
      BY <1>3, <3>4, <3>5 DEF Pages!Published, all
  <2> QED
    BY <1>3, <2>4 DEF Pages!Skips, all
<1> QED
  BY <1>1, <1>2, <1>3

\* The figures of a page that has no complaint are those it asks for.
LEMMA FiguresAreShown ==
    ASSUME NEW tags \in Seq(Tags), NEW scan, Scanned(scan, tags, Len(tags)), NEW slugs,
           Pages!FigureErrors(slugs, scan) = {}
    PROVE  /\ input.player /\ \E k \in Pages!At(tags, "script") : tags[k].url = "loader"
           /\ \A i \in DOMAIN slugs : Pages!Shows(tags, slugs[i]) # {}
           /\ \A i \in DOMAIN slugs : \A j \in DOMAIN slugs : i < j =>
                 \E k \in Pages!Shows(tags, slugs[i]), m \in Pages!Shows(tags, slugs[j]) : k < m
<1> DEFINE n == Len(tags)
           figures == scan.figures
<1>1. scan \in TagScan /\ Tallied(scan, tags, n) /\ n \in Nat
  BY DEF Scanned
<1>2. PICK p : Placed(p, scan, tags, n)
  BY DEF Scanned
<1>3. /\ [i \in DOMAIN figures |-> figures[i].slug] = slugs
      /\ \A f \in Pages!Range(figures) : \A url \in f.urls : url \in input.assets \cap input.specs
      /\ "loader" \in scan.scripts /\ input.player
  <2>1. [i \in DOMAIN figures |-> figures[i].slug] = slugs
    BY Zenon DEF Pages!FigureErrors
  <2>2. ASSUME NEW f \in Pages!Range(figures), NEW url \in f.urls PROVE url \in input.assets \cap input.specs
    <3> DEFINE wrong == {e \in {"unresolved", "unspecified"} :
            \E g \in Pages!Range(figures) : \E u \in g.urls :
               IF e = "unresolved" THEN u \notin input.assets ELSE u \in input.assets \ input.specs}
    <3>1. wrong \subseteq Pages!FigureErrors(slugs, scan)
      BY <2>1, Zenon DEF Pages!FigureErrors
    <3>2. "unresolved" \notin wrong /\ "unspecified" \notin wrong
      <4> HIDE DEF wrong
      <4> QED
        BY <3>1
    <3>3. "unresolved" # "unspecified"
      OBVIOUS
    <3>4. url \in input.assets
      BY <2>2, <3>2, Zenon
    <3>5. ~(url \in input.assets \ input.specs)
      BY <2>2, <3>2, <3>3, Zenon
    <3> QED
      BY <3>4, <3>5
  <2>3. "loader" \in scan.scripts /\ input.player
    BY <2>1 DEF Pages!FigureErrors
  <2> QED
    BY <2>1, <2>2, <2>3
<1>4. /\ DOMAIN slugs = DOMAIN figures /\ \A i \in DOMAIN slugs : slugs[i] = figures[i].slug
  BY <1>3
<1>5. DOMAIN figures = 1..Len(figures) /\ Len(figures) \in Nat
  BY <1>1 DEF TagScan
<1>6. p \in Seq(Nat) /\ Len(p) = Len(figures) /\ DOMAIN p = 1..Len(p)
  BY <1>2 DEF Placed
<1>7. DOMAIN p = DOMAIN slugs
  BY <1>4, <1>5, <1>6
<1>8. ASSUME NEW i \in DOMAIN slugs PROVE p[i] \in Pages!Shows(tags, slugs[i])
  <2>1. /\ p[i] \in Pages!At(tags, "figure") /\ tags[p[i]].url = slugs[i]
        /\ \A m \in Pages!At(tags, "img") :
              (p[i] < m /\ m <= n /\ ~Between(tags, p[i], m)) => tags[m].url \in figures[i].urls
    BY <1>2, <1>4, <1>7 DEF Placed
  <2>2. ASSUME NEW m \in Pages!At(tags, "img"), p[i] < m, ~Between(tags, p[i], m)
        PROVE  tags[m].url \in input.assets \cap input.specs
    <3>1. m <= n
      BY AtIsTag
    <3>2. tags[m].url \in figures[i].urls
      BY <2>1, <2>2, <3>1
    <3>3. figures[i] \in Pages!Range(figures)
      BY <1>4 DEF Pages!Range
    <3> QED
      BY <1>3, <3>2, <3>3
  <2> QED
    BY <2>1, <2>2 DEF Pages!Shows, Between
<1>9. \A i \in DOMAIN slugs : \A j \in DOMAIN slugs : i < j => p[i] < p[j]
  BY <1>2, <1>7 DEF Placed
<1>10. \E k \in Pages!At(tags, "script") : tags[k].url = "loader"
  BY <1>1, <1>3 DEF Tallied
<1> QED
  BY <1>3, <1>8, <1>9, <1>10

\* A page without a complaint shows what it asks for.
LEMMA PageIsShown ==
    ASSUME PagesAssumption, input \in SiteInputs, NEW leaf \in input.files, Pages!PageErrors(leaf) = {}
    PROVE  Pages!IsShown(leaf)
<1> DEFINE lines == input.lines[leaf]
           tags == Pages!BuiltPage(leaf)
           diagrams == Len(Pages!Fences(lines, "mermaid"))
           slugs == Pages!FigureSlugs(lines)
           scan == Pages!ScanPage(tags)
<1>1. lines \in Seq(Lines)
  BY DEF PagesAssumption
<1>2. diagrams # 0 => Pages!Fences(lines, "mermaid") # <<>>
  OBVIOUS
<1>3. slugs # <<>> => Pages!Fences(lines, "figure") # <<>>
  BY DEF Pages!FigureSlugs
<1>4. ASSUME NEW kind \in {"mermaid", "figure"}, Pages!Fences(lines, kind) # <<>>, Pages!KindErrors(lines) = {}
      PROVE  kind \in Pages!Kinds
  <2>1. PICK b \in Pages!Range(Pages!FenceBlocks(lines)) : lines[b[1]].info = kind
    BY <1>1, <1>4, AskedIsThere
  <2> HIDE DEF lines
  <2> QED
    BY <1>4, <2>1, Zenon DEF Pages!KindErrors
<1>5. ASSUME diagrams # 0 \/ slugs # <<>>
      PROVE  /\ tags # None /\ Pages!KindErrors(lines) = {}
             /\ diagrams # 0 => scan.mermaid = diagrams
             /\ slugs # <<>> => Pages!FigureErrors(slugs, scan) = {}
  <2>1. Pages!PageErrors(leaf) =
           IF tags = None THEN Pages!KindErrors(lines) \cup {"notBuilt"}
           ELSE Pages!KindErrors(lines)
                \cup (IF diagrams # 0 /\ scan.mermaid # diagrams THEN {"diagrams"} ELSE {})
                \cup (IF slugs # <<>> THEN Pages!FigureErrors(slugs, scan) ELSE {})
    BY <1>5, Zenon DEF Pages!PageErrors
  <2> HIDE DEF tags, diagrams, slugs, scan, lines
  <2> QED
    BY <2>1
<1>6. ASSUME tags # None
      PROVE  tags \in Seq(Tags) /\ Scanned(scan, tags, Len(tags))
  <2>1. Pages!Output(leaf) \in DOMAIN input.built /\ tags = input.built[Pages!Output(leaf)]
    BY <1>6, Zenon DEF Pages!BuiltPage
  <2>2. tags \in Seq(Tags) /\ \A k \in DOMAIN tags : tags[k].t = "raw" => tags[k].url # None
    BY <2>1, Zenon DEF PagesAssumption
  <2> HIDE DEF tags
  <2> QED
    BY <2>2, PageIsScanned
<1>7. ASSUME diagrams # 0
      PROVE  tags # None /\ "mermaid" \in Pages!Kinds /\ Pages!Cardinality(Pages!At(tags, "pre")) = diagrams
  <2>1. Cardinality({j \in Pages!At(tags, "pre") : j <= Len(tags)}) = diagrams
    BY <1>5, <1>6, <1>7 DEF Scanned, Tallied
  <2>2. {j \in Pages!At(tags, "pre") : j <= Len(tags)} = Pages!At(tags, "pre")
    <3> HIDE DEF tags
    <3> QED
      BY <1>5, <1>6, <1>7, AtIsTag
  <2>3. Pages!Cardinality(Pages!At(tags, "pre")) = Cardinality(Pages!At(tags, "pre"))
    BY DEF Pages!Cardinality, Cardinality
  <2> QED
    BY <1>2, <1>4, <1>5, <1>7, <2>1, <2>2, <2>3
<1>8. ASSUME slugs # <<>>
      PROVE  /\ tags # None /\ "figure" \in Pages!Kinds /\ input.player
             /\ \E k \in Pages!At(tags, "script") : tags[k].url = "loader"
             /\ \A i \in DOMAIN slugs : Pages!Shows(tags, slugs[i]) # {}
             /\ \A i \in DOMAIN slugs, j \in DOMAIN slugs : i < j =>
                   \E k \in Pages!Shows(tags, slugs[i]), m \in Pages!Shows(tags, slugs[j]) : k < m
  <2>1. tags # None /\ "figure" \in Pages!Kinds /\ Pages!FigureErrors(slugs, scan) = {}
    BY <1>3, <1>4, <1>5, <1>8
  <2>2. tags \in Seq(Tags) /\ Scanned(scan, tags, Len(tags))
    BY <1>6, <2>1
  <2> HIDE DEF tags, slugs, scan
  <2> QED
    BY <2>1, <2>2, FiguresAreShown
<1> HIDE DEF tags, slugs, diagrams, lines
<1>9. diagrams > 0 => diagrams # 0
  OBVIOUS
<1> QED
  BY <1>7, <1>8, <1>9, Zenon DEF Pages!IsShown, tags, slugs, diagrams, lines

\* What is said of a page depends on the repository only.
LEMMA SitesStay ==
    ASSUME input' = input
    PROVE  \A p : /\ Pages!Published(p)' <=> Pages!Published(p)
                  /\ Pages!PageErrors(p)' = Pages!PageErrors(p)
                  /\ IsPage(p)' <=> IsPage(p)
<1>1. \A p : Pages!Skips(p)' <=> Pages!Skips(p)
  BY DEF Pages!Skips
<1>2. \A p : Pages!Published(p)' <=> Pages!Published(p)
  BY <1>1 DEF Pages!Published
<1>3. \A p : IsPage(p)' <=> IsPage(p)
  BY SMTT(30) DEF IsPage
<1>4. \A p : Pages!PageErrors(p)' = Pages!PageErrors(p)
  BY DEF Pages!PageErrors, Pages!BuiltPage, Pages!Output, Pages!StarlightOutput, Pages!StarlightSlug,
         Pages!FrontmatterSlug, Pages!PageOutput, Pages!KindErrors, Pages!Kinds, Pages!AstroKinds,
         Pages!EnabledKinds, Pages!ConfigError, Pages!FigureErrors
<1> QED
  BY <1>2, <1>3, <1>4

\* What is left to read and to complain of can only say more.
LEMMA ReadStays ==
    ASSUME input' = input,
           \A p \in input.files : IsPage(p) /\ Pages!Published(p) =>
              p \in unread' \/ \A e \in Pages!PageErrors(p) : <<p, e>> \in complaints'
    PROVE  ReadInv'
<1>1. ASSUME NEW p \in input'.files, IsPage(p)', Pages!Published(p)'
      PROVE  p \in unread' \/ \A e \in Pages!PageErrors(p)' : <<p, e>> \in complaints'
  <2>1. p \in input.files /\ IsPage(p) /\ Pages!Published(p) /\ Pages!PageErrors(p)' = Pages!PageErrors(p)
    BY <1>1, SitesStay
  <2> QED
    BY <2>1, Zenon
<1> QED
  BY <1>1, Zenon DEF ReadInv

\* A path has a name, and what is above it is a directory.
LEMMA PathsAre ==
    ASSUME PagesAssumption, input \in SiteInputs
    PROVE  /\ IsFiniteSet(input.dirs)
           /\ \A p \in input.files \cup input.dirs :
                 /\ p \in Seq(Names) /\ Len(p) \in Nat /\ Len(p) > 0
                 /\ \A n \in 1..(Len(p) - 1) : SubSeq(p, 1, n) \in input.dirs
<1>1. /\ IsFiniteSet(input.dirs) /\ input.files \cup input.dirs \subseteq Seq(Names) \ {<<>>}
      /\ \A p \in input.files \cup input.dirs : \A n \in 1..(Len(p) - 1) : SubSeq(p, 1, n) \in input.dirs
  BY Zenon DEF PagesAssumption
<1>2. \A s \in Seq(Names) \ {<<>>} : Len(s) \in Nat /\ Len(s) > 0
  OBVIOUS
<1> QED
  BY <1>1, <1>2

\* At first every page is below the directory of the documents.
LEMMA PagesInit == ASSUME PagesAssumption, Pages!Init PROVE PagesInv
<1>1. input \in SiteInputs /\ unlisted = <<<<>>>> /\ unread = None /\ ended = None
  BY DEF Pages!Init
<1>2. <<>> \in Seq(Names)
  OBVIOUS
<1>3. unlisted \in Seq(Seq(Names)) /\ 1 \in DOMAIN unlisted /\ unlisted[1] = <<>>
  BY <1>1, <1>2
<1>4. ASSUME NEW p \in input.files \cup input.dirs PROVE Below(p)
  <2>1. 0 \in 0..(Len(p) - 1) /\ p \in Seq(Names)
    BY <1>1, PathsAre
  <2>2. SubSeq(p, 1, 0) = <<>>
    BY <2>1
  <2> QED
    BY <1>3, <2>1, <2>2 DEF Below
<1>5. ended # "ok"
  BY <1>1 DEF PagesAssumption
<1> QED
  BY <1>1, <1>3, <1>4, <1>5 DEF PagesInv, WalkInv, ReadInv, EndInv

LEMMA PrefixOfPrefix ==
    ASSUME NEW S, NEW s \in Seq(S), NEW n \in Nat, n + 1 <= Len(s)
    PROVE  SubSeq(SubSeq(s, 1, n + 1), 1, n) = SubSeq(s, 1, n)
<1>1. n \in 0..Len(s) /\ n + 1 \in 0..Len(s)
  OBVIOUS
<1> DEFINE t == SubSeq(s, 1, n + 1)
<1>2. t \in Seq(S) /\ Len(t) = n + 1 /\ \A i \in 1..(n + 1) : t[i] = s[i]
  BY <1>1, PrefixIsThere
<1> HIDE DEF t
<1>3. n \in 0..Len(t)
  BY <1>2
<1> DEFINE u == SubSeq(t, 1, n)
           v == SubSeq(s, 1, n)
<1>4. /\ u \in Seq(S) /\ Len(u) = n /\ \A i \in 1..n : u[i] = t[i]
      /\ v \in Seq(S) /\ Len(v) = n /\ \A i \in 1..n : v[i] = s[i]
  BY <1>1, <1>2, <1>3, PrefixIsThere
<1> HIDE DEF u, v
<1>5. \A i \in 1..n : u[i] = v[i]
  BY <1>2, <1>4
<1>6. u = v
  BY <1>4, <1>5
<1> QED
  BY <1>6 DEF u, v, t

LEMMA BothAreThere ==
    ASSUME NEW S, NEW s \in Seq(S), NEW t \in Seq(S)
    PROVE  /\ s \o t \in Seq(S) /\ DOMAIN (s \o t) = 1..(Len(s) + Len(t))
           /\ \A i \in 1..Len(s) : (s \o t)[i] = s[i]
           /\ \A i \in 1..Len(t) : (s \o t)[Len(s) + i] = t[i]
  OBVIOUS

(* Listing a directory finds the pages in it, and every other page below it *)
(* is below one of the directories in it, which are still to list.           *)
LEMMA ListKeeps == ASSUME PagesAssumption, PagesInv, Pages!List PROVE WalkInv'
<1> DEFINE d == unlisted[Len(unlisted)]
           m == Len(unlisted)
           front == SubSeq(unlisted, 1, Len(unlisted) - 1)
           below == Pages!Children(d) \cap input.dirs
           subs == Pages!InSomeOrder(below)
<1>1. /\ input' = input /\ unlisted # <<>> /\ unlisted \in Seq(Seq(Names)) /\ input \in SiteInputs
      /\ \A p \in input.files \cup input.dirs : IsPage(p) => p \in listed \/ Below(p)
  BY DEF Pages!List, PagesInv, WalkInv
<1>2. CASE UNCHANGED <<unlisted, listed>>
  BY <1>1, <1>2, SitesStay DEF WalkInv, Below
<1>3. CASE /\ listed' = listed \cup {p \in Pages!Children(d) : Pages!Name(p) \in Suffixed[input.flavor]}
           /\ unlisted' = front \o subs
  <2>1. m \in Nat /\ m > 0 /\ DOMAIN unlisted = 1..m
    BY <1>1
  <2>2. d = unlisted[m] /\ front = SubSeq(unlisted, 1, m - 1)
    OBVIOUS
  <2>3. front \in Seq(Seq(Names)) /\ Len(front) = m - 1 /\ \A i \in 1..(m - 1) : front[i] = unlisted[i]
    <3> DEFINE n == m - 1
    <3>1. n \in 0..m
      BY <2>1
    <3>2. front = SubSeq(unlisted, 1, n)
      BY <2>2
    <3> HIDE DEF n, front, m
    <3>3. front \in Seq(Seq(Names)) /\ Len(front) = n /\ \A i \in 1..n : front[i] = unlisted[i]
      BY <1>1, <3>1, <3>2, PrefixIsThere DEF m
    <3> QED
      BY <3>3 DEF n
  <2>4. IsFiniteSet(below) /\ below \subseteq Seq(Names)
    BY <1>1, PathsAre, FS_Subset
  <2>5. subs \in Seq(below) /\ \A x \in below : \E i \in DOMAIN subs : subs[i] = x
    <3> HIDE DEF below
    <3> QED
      BY <2>4, SetIsListed
  <2> HIDE DEF below, subs, front, d, m
  <2>6. subs \in Seq(Seq(Names)) /\ Len(subs) \in Nat /\ DOMAIN subs = 1..Len(subs)
    BY <2>4, <2>5
  <2>7. /\ unlisted' \in Seq(Seq(Names))
        /\ \A i \in 1..(m - 1) : i \in DOMAIN unlisted' /\ unlisted'[i] = unlisted[i]
        /\ \A i \in DOMAIN subs : m - 1 + i \in DOMAIN unlisted' /\ unlisted'[m - 1 + i] = subs[i]
    <3>1. unlisted' = front \o subs
      BY <1>3
    <3>2. /\ unlisted' \in Seq(Seq(Names)) /\ DOMAIN unlisted' = 1..(Len(front) + Len(subs))
          /\ \A i \in 1..Len(front) : unlisted'[i] = front[i]
          /\ \A i \in 1..Len(subs) : unlisted'[Len(front) + i] = subs[i]
      BY SMTT(30), <2>3, <2>6, <3>1, BothAreThere
    <3>3. /\ m - 1 \in Nat /\ Len(front) = m - 1 /\ Len(subs) \in Nat /\ DOMAIN subs = 1..Len(subs)
          /\ \A i \in 1..(m - 1) : front[i] = unlisted[i]
      <4>1. m - 1 \in Nat
        BY <2>1
      <4> QED
        BY <2>3, <2>6, <4>1, Zenon
    <3>4. /\ DOMAIN unlisted' = 1..(m - 1 + Len(subs))
          /\ \A i \in 1..(m - 1) : unlisted'[i] = front[i]
          /\ \A i \in 1..Len(subs) : unlisted'[m - 1 + i] = subs[i]
      BY <3>2, <3>3
    <3>5. \A i \in 1..(m - 1) : i \in DOMAIN unlisted' /\ unlisted'[i] = unlisted[i]
      BY <3>3, <3>4
    <3>6. \A i \in DOMAIN subs : m - 1 + i \in DOMAIN unlisted' /\ unlisted'[m - 1 + i] = subs[i]
      BY <3>3, <3>4
    <3> QED
      BY <3>2, <3>5, <3>6, Zenon
  <2>8. ASSUME NEW p \in input.files \cup input.dirs, IsPage(p), p \notin listed'
        PROVE  \E n \in 0..(Len(p) - 1), i \in DOMAIN unlisted' : unlisted'[i] = SubSeq(p, 1, n)
    <3>1. p \notin listed /\ ~(p \in Pages!Children(d) /\ IsPage(p))
      BY <1>3, <2>8 DEF IsPage
    <3>2. PICK n \in 0..(Len(p) - 1), i \in DOMAIN unlisted : unlisted[i] = SubSeq(p, 1, n)
      BY <1>1, <2>8, <3>1 DEF Below
    <3>3. CASE i # m
      <4>1. i \in 1..(m - 1)
        BY <2>1, <3>2, <3>3
      <4>2. i \in DOMAIN unlisted' /\ unlisted'[i] = SubSeq(p, 1, n)
        BY <2>7, <3>2, <4>1
      <4> QED
        BY <3>2, <4>2
    <3>4. CASE i = m
      <4>1. p \in Seq(Names) /\ Len(p) \in Nat /\ Len(p) > 0 /\ n \in Nat /\ d = SubSeq(p, 1, n)
        BY <1>1, <2>2, <3>2, <3>4, PathsAre
      <4>2. n # Len(p) - 1
        BY <2>8, <3>1, <4>1 DEF Pages!Children, Pages!Parent
      <4> DEFINE q == SubSeq(p, 1, n + 1)
      <4>3. n + 1 \in 1..(Len(p) - 1) /\ n + 1 <= Len(p)
        BY <3>2, <4>1, <4>2
      <4>4. q \in input.dirs
        BY <1>1, <4>3, PathsAre
      <4>5. Len(q) = n + 1
        BY <4>1, <4>3
      <4>6. Pages!Parent(q) = d
        <5>1. SubSeq(q, 1, n) = SubSeq(p, 1, n)
          BY <4>1, <4>3, PrefixOfPrefix
        <5>2. Len(q) - 1 = n
          BY <4>1, <4>5
        <5> HIDE DEF q
        <5> QED
          BY <4>1, <5>1, <5>2 DEF Pages!Parent
      <4> HIDE DEF q
      <4>7. q \in below
        BY <4>4, <4>6 DEF Pages!Children, below
      <4>8. PICK j \in DOMAIN subs : subs[j] = q
        BY <2>5, <4>7
      <4>9. n + 1 \in 0..(Len(p) - 1) /\ unlisted'[m - 1 + j] = SubSeq(p, 1, n + 1)
            /\ m - 1 + j \in DOMAIN unlisted'
        BY <2>7, <4>3, <4>8 DEF q
      <4> QED
        BY <4>9
    <3> QED
      BY <3>3, <3>4
  <2> QED
    BY <1>1, <2>7, <2>8, SitesStay DEF WalkInv, Below
<1> QED
  BY <1>2, <1>3 DEF Pages!List

LEMMA PagesNext == ASSUME PagesAssumption, PagesInv, [Pages!Next]_(Pages!vars) PROVE PagesInv'
<1>1. input' = input
  BY DEF Pages!Next, Pages!List, Pages!Filter, Pages!ReadPage, Pages!End, Pages!vars
<1>2. input' \in SiteInputs
  BY <1>1 DEF PagesInv
<1>3. /\ None \notin {"ok", "findings", "refused"} /\ None # {}
  BY DEF PagesAssumption
<1>4. CASE Pages!List
  <2>1. unread' = unread /\ complaints' = complaints /\ ended' \in {ended, "refused"}
    BY <1>4 DEF Pages!List
  <2>2. ReadInv'
    BY <1>1, <2>1, SitesStay DEF PagesInv, ReadInv
  <2>3. EndInv'
    BY <1>1, <2>1, SitesStay DEF PagesInv, EndInv
  <2> QED
    BY <1>2, <1>4, <2>2, <2>3, ListKeeps DEF PagesInv
<1>5. CASE Pages!Filter
  <2>1. /\ unlisted = <<>> /\ UNCHANGED <<unlisted, listed, complaints>> /\ unread = None
        /\ ended' \in {ended, "refused"}
    BY <1>5 DEF Pages!Filter
  <2>2. WalkInv'
    BY <1>1, <2>1, SitesStay DEF PagesInv, WalkInv, Below
  <2>3. EndInv'
    BY <1>1, <2>1, SitesStay DEF PagesInv, EndInv
  <2>4. ASSUME unread' = unread PROVE ReadInv'
    BY <2>1, <2>4, Zenon DEF ReadInv
  <2>5. ASSUME unread' = {p \in listed : ~Pages!Skips(p)}, ~\E p \in listed : Pages!Unsupported(p)
        PROVE  ReadInv'
    <3>1. ASSUME NEW p \in input.files, IsPage(p), Pages!Published(p) PROVE p \in unread'
      <4>1. p \in listed
        BY <2>1, <3>1 DEF PagesInv, WalkInv, Below
      <4>2. ~Pages!Unsupported(p)
        BY <2>5, <4>1
      <4>3. ~Pages!Skips(p)
        BY <3>1, <4>2, PublishedIsKept DEF PagesInv
      <4> QED
        BY <2>5, <4>1, <4>3
    <3> QED
      BY <1>1, <3>1, ReadStays
  <2>6. \/ unread' = unread
        \/ unread' = {p \in listed : ~Pages!Skips(p)} /\ ~\E p \in listed : Pages!Unsupported(p)
    BY <1>5, Zenon DEF Pages!Filter
  <2> QED
    BY <1>2, <2>2, <2>3, <2>4, <2>5, <2>6 DEF PagesInv
<1>6. CASE Pages!ReadPage
  <2>1. UNCHANGED <<unlisted, listed>> /\ ended' \in {ended, "refused"} /\ unread # None
    BY <1>6 DEF Pages!ReadPage
  <2>2. WalkInv'
    BY <1>1, <2>1, SitesStay DEF PagesInv, WalkInv, Below
  <2>3. EndInv'
    BY <1>1, <2>1, SitesStay DEF PagesInv, EndInv
  <2> DEFINE read == CHOOSE p \in unread : TRUE
  <2>4. ASSUME UNCHANGED <<unread, complaints>> PROVE ReadInv'
    BY <1>1, <2>1, <2>4, ReadStays DEF PagesInv, ReadInv
  <2>5. ASSUME unread' = unread \ {read},
               complaints' = complaints \cup {<<read, e>> : e \in Pages!PageErrors(read)}
        PROVE  ReadInv'
    <3> HIDE DEF read
    <3>1. ASSUME NEW p \in input.files, IsPage(p), Pages!Published(p), p \notin unread',
                 NEW e \in Pages!PageErrors(p)
          PROVE  <<p, e>> \in complaints'
      <4>1. CASE p = read
        BY <2>5, <3>1, <4>1
      <4>2. CASE p # read
        BY <2>1, <2>5, <3>1, <4>2 DEF PagesInv, ReadInv
      <4> QED
        BY <4>1, <4>2
    <3> QED
      BY <1>1, <3>1, ReadStays
  <2>6. \/ UNCHANGED <<unread, complaints>>
        \/ /\ unread' = unread \ {read}
           /\ complaints' = complaints \cup {<<read, e>> : e \in Pages!PageErrors(read)}
    BY <1>6, Zenon DEF Pages!ReadPage
  <2> QED
    BY <1>2, <2>2, <2>3, <2>4, <2>5, <2>6 DEF PagesInv
<1>7. CASE Pages!End
  <2>1. /\ UNCHANGED <<unlisted, listed, unread, complaints>> /\ unread = {}
        /\ ended' = "ok" => complaints = {}
    BY <1>7 DEF Pages!End
  <2>2. WalkInv' /\ ReadInv'
    BY <1>1, <2>1, SitesStay DEF PagesInv, WalkInv, Below, ReadInv
  <2>3. ASSUME ended' = "ok", NEW p \in input.files, IsPage(p), Pages!Published(p) 
        PROVE  Pages!PageErrors(p) = {}
    BY <1>3, <2>1, <2>3 DEF PagesInv, ReadInv
  <2>4. EndInv'
    BY <1>1, <2>3, SitesStay DEF EndInv
  <2> QED
    BY <1>2, <2>2, <2>4 DEF PagesInv
<1>8. CASE UNCHANGED Pages!vars
  <2>1. UNCHANGED <<unlisted, listed, unread, complaints, ended>>
    BY <1>8 DEF Pages!vars
  <2> QED
    BY <1>1, <1>2, <2>1, SitesStay DEF PagesInv, WalkInv, Below, ReadInv, EndInv
<1> QED
  BY <1>4, <1>5, <1>6, <1>7, <1>8 DEF Pages!Next

(* Whatever the tree of documents, the exclusions, the pages, their fences   *)
(* and the markup built from them: the fences are found as they are written, *)
(* and where `site` passes, every page that the generator publishes shows    *)
(* the diagrams that it asks for, in their order, as a browser reads it.     *)
THEOREM PassMeansShownCorrect == ASSUME PagesAssumption PROVE Pages!Spec => []PassMeansShown
<1>1. ASSUME PagesInv PROVE PassMeansShown
  <2>1. ASSUME NEW leaf \in input.files
        PROVE  Pages!AreBlocks(Pages!FenceBlocks(input.lines[leaf]), input.lines[leaf])
    <3>1. input.lines[leaf] \in Seq(Lines)
      BY <1>1 DEF PagesInv, PagesAssumption
    <3> QED
      BY <3>1, FencesAreBlocks
  <2>2. ASSUME ended = "ok", NEW leaf \in input.files, IsPage(leaf), Pages!Published(leaf)
        PROVE  Pages!IsShown(leaf)
    <3>1. Pages!PageErrors(leaf) = {} /\ input \in SiteInputs
      BY <1>1, <2>2 DEF PagesInv, EndInv
    <3> QED
      BY <3>1, PageIsShown
  <2> QED
    BY <2>1, <2>2, Zenon DEF PassMeansShown, Pages!PassMeansShown, IsPage
<1> QED
  BY <1>1, PagesInit, PagesNext, PTL DEF Pages!Spec

-------------------------------------------------------------------------------
(* `glob`: any globs and paths.                                              *)
(* What is cut at p where its item t has been read, and at q where its item  *)
(* m has; ok says between which two points an item may lie.                  *)
Cuttable(ok, t, m, p, q) ==
    \E c \in [t..m -> Nat] : c[t] = p /\ c[m] = q /\ \A i \in (t + 1)..m : <<i, c[i - 1], c[i]>> \in ok

LEMMA CutNothing ==
    ASSUME NEW ok, NEW m \in Nat, NEW p \in Nat, NEW q
    PROVE  Cuttable(ok, m, m, p, q) <=> p = q
<1>1. ASSUME Cuttable(ok, m, m, p, q) PROVE p = q
  BY <1>1 DEF Cuttable
<1>2. ASSUME p = q PROVE Cuttable(ok, m, m, p, q)
  <2> DEFINE c == [i \in m..m |-> p]
  <2>1. c \in [m..m -> Nat] /\ c[m] = p /\ \A i \in (m + 1)..m : <<i, c[i - 1], c[i]>> \in ok
    OBVIOUS
  <2> QED
    BY <1>2, <2>1 DEF Cuttable
<1> QED
  BY <1>1, <1>2

LEMMA CutFirst ==
    ASSUME NEW ok, NEW t \in Nat, NEW m \in Nat, t < m, NEW p \in Nat, NEW q
    PROVE  Cuttable(ok, t, m, p, q)
           <=> \E r \in Nat : <<t + 1, p, r>> \in ok /\ Cuttable(ok, t + 1, m, r, q)
<1>1. ASSUME Cuttable(ok, t, m, p, q)
      PROVE  \E r \in Nat : <<t + 1, p, r>> \in ok /\ Cuttable(ok, t + 1, m, r, q)
  <2>1. PICK c \in [t..m -> Nat] :
              c[t] = p /\ c[m] = q /\ \A i \in (t + 1)..m : <<i, c[i - 1], c[i]>> \in ok
    BY <1>1 DEF Cuttable
  <2> DEFINE d == [i \in (t + 1)..m |-> c[i]]
  <2>2. t + 1 \in t..m /\ t + 1 \in (t + 1)..m /\ (t + 1) - 1 = t /\ m \in (t + 1)..m
    OBVIOUS
  <2>3. \A i \in (t + 1)..m : i \in t..m
    OBVIOUS
  <2>4. d \in [(t + 1)..m -> Nat] /\ d[t + 1] = c[t + 1] /\ d[m] = q /\ c[t + 1] \in Nat
    BY <2>1, <2>2, <2>3
  <2>5. \A i \in ((t + 1) + 1)..m : <<i, d[i - 1], d[i]>> \in ok
    <3> SUFFICES ASSUME NEW i \in ((t + 1) + 1)..m PROVE <<i, d[i - 1], d[i]>> \in ok
      OBVIOUS
    <3>1. i \in (t + 1)..m /\ i - 1 \in (t + 1)..m
      OBVIOUS
    <3> QED
      BY <2>1, <3>1
  <2> HIDE DEF d
  <2>6. Cuttable(ok, t + 1, m, c[t + 1], q)
    BY <2>4, <2>5 DEF Cuttable
  <2>7. <<t + 1, p, c[t + 1]>> \in ok
    BY <2>1, <2>2
  <2> QED
    BY <2>4, <2>6, <2>7
<1>2. ASSUME NEW r \in Nat, <<t + 1, p, r>> \in ok, Cuttable(ok, t + 1, m, r, q)
      PROVE  Cuttable(ok, t, m, p, q)
  <2>1. PICK c \in [(t + 1)..m -> Nat] :
              c[t + 1] = r /\ c[m] = q /\ \A i \in ((t + 1) + 1)..m : <<i, c[i - 1], c[i]>> \in ok
    BY <1>2 DEF Cuttable
  <2> DEFINE d == [i \in t..m |-> IF i = t THEN p ELSE c[i]]
  <2>2. \A i \in t..m : i # t => i \in (t + 1)..m
    OBVIOUS
  <2>3. d \in [t..m -> Nat]
    BY <2>1, <2>2
  <2>4. d[t] = p /\ d[m] = q
    BY <2>1
  <2>5. ASSUME NEW i \in (t + 1)..m PROVE <<i, d[i - 1], d[i]>> \in ok
    <3>1. i \in t..m /\ i - 1 \in t..m /\ i # t /\ d[i] = c[i]
      OBVIOUS
    <3>2. CASE i = t + 1
      <4>1. i - 1 = t
        BY <3>2
      <4> QED
        BY <1>2, <2>1, <2>4, <3>1, <3>2, <4>1
    <3>3. CASE i # t + 1
      <4>1. i - 1 # t /\ i \in ((t + 1) + 1)..m
        BY <3>3
      <4> QED
        BY <2>1, <3>1, <4>1
    <3> QED
      BY <3>2, <3>3
  <2> HIDE DEF d
  <2> QED
    BY <2>3, <2>4, <2>5 DEF Cuttable
<1> QED
  BY <1>1, <1>2

LEMMA CutLast ==
    ASSUME NEW ok, NEW t \in Nat, NEW m \in Nat, t < m, NEW p, NEW q \in Nat
    PROVE  Cuttable(ok, t, m, p, q)
           <=> \E r \in Nat : Cuttable(ok, t, m - 1, p, r) /\ <<m, r, q>> \in ok
<1>1. ASSUME Cuttable(ok, t, m, p, q)
      PROVE  \E r \in Nat : Cuttable(ok, t, m - 1, p, r) /\ <<m, r, q>> \in ok
  <2>1. PICK c \in [t..m -> Nat] :
              c[t] = p /\ c[m] = q /\ \A i \in (t + 1)..m : <<i, c[i - 1], c[i]>> \in ok
    BY <1>1 DEF Cuttable
  <2> DEFINE d == [i \in t..(m - 1) |-> c[i]]
  <2>2. t \in t..(m - 1) /\ m - 1 \in t..(m - 1) /\ m \in (t + 1)..m /\ m - 1 \in t..m
    OBVIOUS
  <2>3. \A i \in t..(m - 1) : i \in t..m
    OBVIOUS
  <2>4. d \in [t..(m - 1) -> Nat] /\ d[t] = p /\ d[m - 1] = c[m - 1] /\ c[m - 1] \in Nat
    BY <2>1, <2>2, <2>3
  <2>5. \A i \in (t + 1)..(m - 1) : <<i, d[i - 1], d[i]>> \in ok
    <3> SUFFICES ASSUME NEW i \in (t + 1)..(m - 1) PROVE <<i, d[i - 1], d[i]>> \in ok
      OBVIOUS
    <3>1. i \in (t + 1)..m /\ i \in t..(m - 1) /\ i - 1 \in t..(m - 1)
      OBVIOUS
    <3> QED
      BY <2>1, <3>1
  <2> HIDE DEF d
  <2>6. Cuttable(ok, t, m - 1, p, c[m - 1])
    BY <2>4, <2>5 DEF Cuttable
  <2>7. <<m, c[m - 1], q>> \in ok
    BY <2>1, <2>2
  <2> QED
    BY <2>4, <2>6, <2>7
<1>2. ASSUME NEW r \in Nat, Cuttable(ok, t, m - 1, p, r), <<m, r, q>> \in ok
      PROVE  Cuttable(ok, t, m, p, q)
  <2>1. PICK c \in [t..(m - 1) -> Nat] :
              c[t] = p /\ c[m - 1] = r /\ \A i \in (t + 1)..(m - 1) : <<i, c[i - 1], c[i]>> \in ok
    BY <1>2 DEF Cuttable
  <2> DEFINE d == [i \in t..m |-> IF i = m THEN q ELSE c[i]]
  <2>2. \A i \in t..m : i # m => i \in t..(m - 1)
    OBVIOUS
  <2>3. d \in [t..m -> Nat]
    BY <2>1, <2>2
  <2>4. d[t] = p /\ d[m] = q
    BY <2>1
  <2>5. ASSUME NEW i \in (t + 1)..m PROVE <<i, d[i - 1], d[i]>> \in ok
    <3>1. i \in t..m /\ i - 1 \in t..m /\ i - 1 # m /\ d[i - 1] = c[i - 1]
      OBVIOUS
    <3>2. CASE i = m
      BY <1>2, <2>1, <2>4, <3>1, <3>2
    <3>3. CASE i # m
      <4>1. i \in (t + 1)..(m - 1)
        BY <3>3
      <4> QED
        BY <2>1, <3>1, <3>3, <4>1
    <3> QED
      BY <3>2, <3>3
  <2> HIDE DEF d
  <2> QED
    BY <2>3, <2>4, <2>5 DEF Cuttable
<1> QED
  BY <1>1, <1>2

\* Only what ok says of the items that are cut matters.
LEMMA CutAlike ==
    ASSUME NEW ok, NEW ok2, NEW t \in Nat, NEW m \in Nat, NEW p, NEW q,
           \A i \in (t + 1)..m : \A r, s \in Nat : <<i, r, s>> \in ok <=> <<i, r, s>> \in ok2
    PROVE  Cuttable(ok, t, m, p, q) <=> Cuttable(ok2, t, m, p, q)
<1>1. ASSUME NEW c \in [t..m -> Nat], NEW i \in (t + 1)..m
      PROVE  <<i, c[i - 1], c[i]>> \in ok <=> <<i, c[i - 1], c[i]>> \in ok2
  <2>1. c[i - 1] \in Nat /\ c[i] \in Nat
    OBVIOUS
  <2> QED
    BY <2>1
<1> QED
  BY <1>1 DEF Cuttable

(* How far the tries have come: more with each of them, and less than there  *)
(* are of them until the text is at its end.                                 *)
Far(t, s, f, m, n) == f * (m + 1 - s) + (t - s) + n * s

LEMMA Distribute ==
    ASSUME NEW a \in Nat, NEW b \in Nat, NEW e \in Nat
    PROVE  a * (b + e) = a * b + a * e /\ (b + e) * a = b * a + e * a /\ a * b \in Nat /\ a * e \in Nat
OBVIOUS

LEMMA StarIsFurther ==
    ASSUME NEW t \in Nat, NEW s \in Nat, NEW f \in Nat, NEW m \in Nat, NEW n \in Nat,
           s <= t, t < m, f + (t - s) < n
    PROVE  Far(t, s, f, m, n) < Far(t + 1, t + 1, f + (t - s), m, n)
<1> DEFINE d == t - s
<1>1. d \in Nat /\ t = s + d /\ f + d < n
  OBVIOUS
<1>2. PICK e \in Nat : m = t + 1 + e
  <2>1. m - (t + 1) \in Nat /\ m = t + 1 + (m - (t + 1))
    OBVIOUS
  <2> QED
    BY <2>1
<1>3. PICK g \in Nat : n = f + d + 1 + g
  <2>1. n - (f + d + 1) \in Nat /\ n = f + d + 1 + (n - (f + d + 1))
    BY <1>1
  <2> QED
    BY <2>1
<1> HIDE DEF d
<1>4. m + 1 - s = d + 2 + e /\ t - s = d /\ m + 1 - (t + 1) = e + 1 /\ (t + 1) - (t + 1) = 0
      /\ t + 1 = s + (d + 1)
  BY <1>1, <1>2
<1>5. Far(t, s, f, m, n) = f * (d + 2 + e) + d + n * s
  BY <1>4 DEF Far
<1>6. Far(t + 1, t + 1, f + d, m, n) = (f + d) * (e + 1) + 0 + n * (s + (d + 1))
  BY <1>4 DEF Far
<1> DEFINE d1 == d + 1
           e1 == e + 1
           g1 == d + 1 + g
           dg == d + g
<1>a. /\ d1 \in Nat /\ e1 \in Nat /\ g1 \in Nat /\ dg \in Nat
      /\ n = f + g1 /\ g1 = dg + 1 /\ d + 2 + e = d1 + e1 /\ d1 = d + 1
  BY <1>1, <1>3
<1>b. Far(t, s, f, m, n) = f * (d1 + e1) + d + n * s
  BY <1>5, <1>a
<1>c. Far(t + 1, t + 1, f + d, m, n) = (f + d) * e1 + 0 + n * (s + d1)
  BY <1>6
<1> HIDE DEF d1, e1, g1, dg
<1>7. n * (s + d1) = n * s + n * d1 /\ n * s \in Nat
  BY <1>a, Distribute
<1>8. n * d1 = f * d1 + g1 * d1
  BY <1>a, Distribute
<1>9. (f + d) * e1 = f * e1 + d * e1 /\ d * e1 \in Nat
  BY <1>1, <1>a, Distribute
<1>10. f * (d1 + e1) = f * d1 + f * e1 /\ f * d1 \in Nat /\ f * e1 \in Nat
  BY <1>a, Distribute
<1>11. g1 * d1 = dg * d1 + 1 * d1 /\ dg * d1 \in Nat /\ 1 * d1 = d1
  <2>1. (dg + 1) * d1 = dg * d1 + 1 * d1 /\ dg * d1 \in Nat
    BY <1>a, Distribute
  <2> QED
    BY <1>a, <2>1
<1> DEFINE v == n * s
           a == f * d1
           b == f * e1
           x == dg * d1
           y == d * e1
<1>12. Far(t, s, f, m, n) = (a + b) + d + v
  BY <1>b, <1>10
<1>13. Far(t + 1, t + 1, f + d, m, n) = (b + y) + 0 + (v + (a + (x + d1)))
  BY <1>c, <1>7, <1>8, <1>9, <1>11
<1>14. x \in Nat /\ y \in Nat /\ v \in Nat /\ a \in Nat /\ b \in Nat
  BY <1>7, <1>9, <1>10, <1>11
<1> HIDE DEF v, a, b, x, y
<1>15. (a + b) + d + v < (b + y) + 0 + (v + (a + (x + d1)))
  BY <1>1, <1>a, <1>14
<1> QED
  BY <1>1, <1>12, <1>13, <1>15 DEF d

LEMMA BackIsFurther ==
    ASSUME NEW t \in Nat, NEW s \in Nat, NEW f \in Nat, NEW m \in Nat, NEW n \in Nat,
           s <= t, t <= m
    PROVE  /\ Far(t, s, f, m, n) < Far(s, s, f + 1, m, n)
           /\ t < m => Far(t, s, f, m, n) < Far(t + 1, s, f, m, n)
<1> DEFINE h == m + 1 - s
<1>1. h \in Nat /\ t - s < h /\ s - s = 0
  OBVIOUS
<1>2. f * h \in Nat /\ n * s \in Nat /\ (f + 1) * h = f * h + h
  <2> HIDE DEF h
  <2> QED
    BY <1>1
<1> DEFINE v == n * s
           a == f * h
<1>3. Far(t, s, f, m, n) = a + (t - s) + v /\ Far(s, s, f + 1, m, n) = a + h + (s - s) + v
      /\ Far(t + 1, s, f, m, n) = a + ((t + 1) - s) + v
  <2>1. Far(s, s, f + 1, m, n) = (f + 1) * h + (s - s) + v
    BY DEF Far
  <2> QED
    BY <1>2, <2>1 DEF Far
<1>4. a \in Nat /\ v \in Nat
  BY <1>2
<1> HIDE DEF v, a
<1> QED
  BY <1>1, <1>3, <1>4

LEMMA NotThatFar ==
    ASSUME NEW t \in Nat, NEW s \in Nat, NEW f \in Nat, NEW m \in Nat, NEW n \in Nat,
           s <= t, t <= m, f + (t - s) < n
    PROVE  Far(t, s, f, m, n) < (m + 1) * (n + 1)
<1> DEFINE d == t - s
           h == m + 1 - s
<1>1. d \in Nat /\ h \in Nat /\ d < h /\ m + 1 = h + s /\ f <= n
  OBVIOUS
<1>2. Far(t, s, f, m, n) = f * h + d + n * s
  BY DEF Far
<1> HIDE DEF d, h
<1>3. (m + 1) * (n + 1) = n * h + n * s + h + s
  BY <1>1
<1>4. PICK g \in Nat : n = f + g
  <2>1. n - f \in Nat /\ n = f + (n - f)
    BY <1>1
  <2> QED
    BY <2>1
<1>5. n * h = f * h + g * h /\ g * h \in Nat /\ f * h \in Nat /\ n * s \in Nat
  BY <1>1, <1>4
<1> DEFINE a == f * h
           b == g * h
           v == n * s
<1>6. Far(t, s, f, m, n) = a + d + v /\ (m + 1) * (n + 1) = a + b + v + h + s
      /\ a \in Nat /\ b \in Nat /\ v \in Nat
  BY <1>2, <1>3, <1>5
<1> HIDE DEF a, b, v
<1> QED
  BY <1>1, <1>6

(* A pattern and a text, in the terms of the cuts.                           *)
GlobTokens == [star : BOOLEAN, codes : SUBSET Codes, text : BOOLEAN]
TokenCuts(tokens, text) ==
    {x \in (1..Len(tokens)) \X Nat \X Nat :
        /\ x[2] <= x[3] /\ x[3] <= Len(text)
        /\ tokens[x[1]].star \/ (x[3] = x[2] + 1 /\ text[x[3]] \in tokens[x[1]].codes)}
\* What is left of the pattern spells what is left of the text.
Rest(tokens, text, t, p) == Cuttable(TokenCuts(tokens, text), t, Len(tokens), p, Len(text))

LEMMA SpellsAreCuts ==
    ASSUME NEW tokens \in Seq(GlobTokens), NEW text \in Seq(Codes)
    PROVE  Glob!Spells(tokens, text) <=> Rest(tokens, text, 0, 0)
<1> DEFINE m == Len(tokens)
           n == Len(text)
           ok == TokenCuts(tokens, text)
<1>1. m \in Nat /\ n \in Nat /\ DOMAIN tokens = 1..m
  OBVIOUS
<1>2. ASSUME NEW i \in 1..m, NEW r \in Nat, NEW q \in Nat
      PROVE  <<i, r, q>> \in ok
             <=> /\ r <= q /\ q <= n
                 /\ tokens[i].star \/ (q = r + 1 /\ text[q] \in tokens[i].codes)
  BY DEF TokenCuts
<1> HIDE DEF m, n, ok
<1>3. ASSUME NEW c \in [0..m -> 0..n], c[0] = 0, c[m] = n, \A i \in 1..m : c[i - 1] <= c[i],
             \A i \in 1..m : tokens[i].star \/ (c[i] = c[i - 1] + 1 /\ text[c[i]] \in tokens[i].codes)
      PROVE  Cuttable(ok, 0, m, 0, n)
  <2>1. c \in [0..m -> Nat]
    BY <1>1
  <2>2. \A i \in (0 + 1)..m : <<i, c[i - 1], c[i]>> \in ok
    <3> SUFFICES ASSUME NEW i \in 1..m PROVE <<i, c[i - 1], c[i]>> \in ok
      OBVIOUS
    <3>1. c[i - 1] \in Nat /\ c[i] \in Nat /\ c[i] <= n
      BY <1>1
    <3> QED
      BY <1>2, <1>3, <3>1
  <2> QED
    BY <1>3, <2>1, <2>2 DEF Cuttable
<1>4. ASSUME Cuttable(ok, 0, m, 0, n) PROVE Glob!Spells(tokens, text)
  <2>1. PICK c \in [0..m -> Nat] :
              c[0] = 0 /\ c[m] = n /\ \A i \in (0 + 1)..m : <<i, c[i - 1], c[i]>> \in ok
    BY <1>4 DEF Cuttable
  <2>2. ASSUME NEW i \in 1..m
        PROVE  /\ c[i - 1] <= c[i] /\ c[i] <= n
               /\ tokens[i].star \/ (c[i] = c[i - 1] + 1 /\ text[c[i]] \in tokens[i].codes)
    <3>1. c[i - 1] \in Nat /\ c[i] \in Nat /\ i \in (0 + 1)..m
      BY <1>1, <2>1
    <3> QED
      BY <1>2, <2>1, <3>1
  <2>3. \A i \in 0..m : c[i] \in 0..n
    BY <1>1, <2>1, <2>2
  <2>4. c \in [0..m -> 0..n]
    BY <2>1, <2>3
  <2>5. c \in Glob!Cuts(m, n)
    BY <2>1, <2>2, <2>4 DEF Glob!Cuts
  <2> QED
    BY <1>1, <2>2, <2>5 DEF Glob!Spells, m, n
<1>5. Glob!Spells(tokens, text) => Cuttable(ok, 0, m, 0, n)
  BY <1>1, <1>3 DEF Glob!Spells, Glob!Cuts, m, n
<1> QED
  BY <1>4, <1>5 DEF Rest, ok, m, n

LEMMA RestOfNothing ==
    ASSUME NEW tokens \in Seq(GlobTokens), NEW text \in Seq(Codes), NEW p \in Nat
    PROVE  Rest(tokens, text, Len(tokens), p) <=> p = Len(text)
BY CutNothing, Len(tokens) \in Nat DEF Rest

LEMMA RestOfSome ==
    ASSUME NEW tokens \in Seq(GlobTokens), NEW text \in Seq(Codes), NEW p \in Nat,
           NEW t \in Nat, t < Len(tokens)
    PROVE  /\ tokens[t + 1].star =>
                 (Rest(tokens, text, t, p)
                  <=> \E r \in Nat : p <= r /\ r <= Len(text) /\ Rest(tokens, text, t + 1, r))
           /\ ~ tokens[t + 1].star =>
                 (Rest(tokens, text, t, p)
                  <=> /\ p < Len(text) /\ text[p + 1] \in tokens[t + 1].codes
                      /\ Rest(tokens, text, t + 1, p + 1))
           /\ Rest(tokens, text, t, p) => p <= Len(text)
<1> DEFINE m == Len(tokens)
           n == Len(text)
           ok == TokenCuts(tokens, text)
<1>1. m \in Nat /\ n \in Nat /\ t < m
  OBVIOUS
<1>2. ASSUME NEW r \in Nat
      PROVE  <<t + 1, p, r>> \in ok
             <=> /\ p <= r /\ r <= n
                 /\ tokens[t + 1].star \/ (r = p + 1 /\ text[r] \in tokens[t + 1].codes)
  <2>1. t + 1 \in 1..m
    OBVIOUS
  <2> QED
    BY <2>1 DEF TokenCuts
<1>3. \A r \in Nat : Rest(tokens, text, t + 1, r) <=> Cuttable(ok, t + 1, m, r, n)
  BY DEF Rest
<1>4. Rest(tokens, text, t, p) <=> Cuttable(ok, t, m, p, n)
  BY DEF Rest
<1> HIDE DEF m, n, ok
<1>5. Rest(tokens, text, t, p) <=> \E r \in Nat : <<t + 1, p, r>> \in ok /\ Rest(tokens, text, t + 1, r)
  BY <1>1, <1>3, <1>4, CutFirst
<1>6. ASSUME tokens[t + 1].star
      PROVE  Rest(tokens, text, t, p) <=> \E r \in Nat : p <= r /\ r <= n /\ Rest(tokens, text, t + 1, r)
  BY <1>2, <1>5, <1>6
<1>7. ASSUME ~ tokens[t + 1].star
      PROVE  Rest(tokens, text, t, p)
             <=> p < n /\ text[p + 1] \in tokens[t + 1].codes /\ Rest(tokens, text, t + 1, p + 1)
  <2>1. \A r \in Nat : <<t + 1, p, r>> \in ok <=> r = p + 1 /\ p < n /\ text[p + 1] \in tokens[t + 1].codes
    BY <1>1, <1>2, <1>7
  <2>2. p + 1 \in Nat
    OBVIOUS
  <2>3. ASSUME Rest(tokens, text, t, p)
        PROVE  p < n /\ text[p + 1] \in tokens[t + 1].codes /\ Rest(tokens, text, t + 1, p + 1)
    BY <1>5, <2>1, <2>3
  <2>4. ASSUME p < n, text[p + 1] \in tokens[t + 1].codes, Rest(tokens, text, t + 1, p + 1)
        PROVE  Rest(tokens, text, t, p)
    <3>1. <<t + 1, p, p + 1>> \in ok
      BY <2>1, <2>2, <2>4
    <3> QED
      BY <1>5, <2>2, <2>4, <3>1
  <2> QED
    BY <2>3, <2>4
<1>8. ASSUME Rest(tokens, text, t, p) PROVE p <= n
  <2>1. PICK r \in Nat : <<t + 1, p, r>> \in ok
    BY <1>5, <1>8
  <2>2. p <= r /\ r <= n
    BY <1>2, <2>1
  <2> QED
    BY <1>1, <2>1, <2>2
<1> QED
  BY <1>6, <1>7, <1>8 DEF n

\* Where no star is read from s to t, the text is read along.
LEMMA RestGoesAlong ==
    ASSUME NEW tokens \in Seq(GlobTokens), NEW text \in Seq(Codes), NEW r \in Nat,
           NEW s \in Nat, NEW t \in Nat, s <= t, t <= Len(tokens),
           \A i \in (s + 1)..t : ~ tokens[i].star, Rest(tokens, text, s, r)
    PROVE  Rest(tokens, text, t, r + (t - s)) /\ r + (t - s) <= Len(text)
<1> DEFINE d == t - s
           R(i) == Rest(tokens, text, s + i, r + i)
           T == {i \in 0..d : R(i)}
<1>1. d \in Nat /\ s + d = t /\ Len(tokens) \in Nat /\ Len(text) \in Nat
  OBVIOUS
<1> HIDE DEF d
<1>2. 0 \in T
  BY <1>1
<1>3. ASSUME NEW i \in 1..d, i - 1 \in T PROVE i \in T
  <2> DEFINE u == s + (i - 1)
             p == r + (i - 1)
  <2>1. u \in Nat /\ p \in Nat /\ u < Len(tokens) /\ u + 1 = s + i /\ p + 1 = r + i /\ u + 1 \in (s + 1)..t
    BY <1>1
  <2>2. Rest(tokens, text, u, p)
    BY <1>3
  <2> HIDE DEF u, p
  <2>3. Rest(tokens, text, u + 1, p + 1)
    BY <2>1, <2>2, RestOfSome
  <2> QED
    BY SMTT(30), <1>1, <2>1, <2>3
<1>4. R(d)
  <2> HIDE DEF T
  <2>1. \A i \in 0..d : i \in T
    BY <1>1, <1>2, <1>3, CountUp
  <2>2. d \in T
    BY <1>1, <2>1
  <2> QED
    BY <2>2 DEF T
<1>5. Rest(tokens, text, t, r + d)
  BY <1>1, <1>4
<1>6. r + d <= Len(text)
  <2>1. CASE t = Len(tokens)
    BY <1>1, <1>5, <2>1, RestOfNothing
  <2>2. CASE t < Len(tokens)
    BY <1>1, <1>5, <2>2, RestOfSome
  <2> QED
    BY <1>1, <2>1, <2>2
<1> QED
  BY <1>5, <1>6 DEF d

LEMMA RestAtTheEnd ==
    ASSUME NEW tokens \in Seq(GlobTokens), NEW text \in Seq(Codes), NEW t \in Nat, t <= Len(tokens)
    PROVE  Rest(tokens, text, t, Len(text)) <=> \A i \in (t + 1)..Len(tokens) : tokens[i].star
<1> DEFINE m == Len(tokens)
           n == Len(text)
           d == m - t
           R(i) == Rest(tokens, text, m - i, n)
           S(i) == \A j \in ((m - i) + 1)..m : tokens[j].star
           T == {i \in 0..d : R(i) <=> S(i)}
<1>1. d \in Nat /\ m - d = t /\ m \in Nat /\ n \in Nat
  OBVIOUS
<1>2. 0 \in T
  <2>1. R(0)
    BY <1>1, RestOfNothing
  <2>2. S(0)
    BY <1>1
  <2> QED
    BY <1>1, <2>1, <2>2
<1>3. ASSUME NEW i \in 1..d, i - 1 \in T PROVE i \in T
  <2> DEFINE u == m - i
  <2>1. u \in Nat /\ u < m /\ u + 1 = m - (i - 1) /\ u + 1 \in 1..m
    BY <1>1
  <2>2. R(i - 1) <=> S(i - 1)
    BY <1>3
  <2>3. Rest(tokens, text, u + 1, n) <=> \A j \in ((u + 1) + 1)..m : tokens[j].star
    BY <2>1, <2>2
  <2>4. (R(i) <=> Rest(tokens, text, u, n)) /\ (S(i) <=> \A j \in (u + 1)..m : tokens[j].star)
    OBVIOUS
  <2> HIDE DEF u, R, S
  <2>5. Rest(tokens, text, u, n) <=> tokens[u + 1].star /\ Rest(tokens, text, u + 1, n)
    <3>1. CASE tokens[u + 1].star
      <4>1. Rest(tokens, text, u, n)
            <=> \E r \in Nat : n <= r /\ r <= n /\ Rest(tokens, text, u + 1, r)
        BY <1>1, <2>1, <3>1, RestOfSome
      <4>2. \A r \in Nat : n <= r /\ r <= n <=> r = n
        BY <1>1
      <4> QED
        BY <1>1, <3>1, <4>1, <4>2
    <3>2. CASE ~ tokens[u + 1].star
      <4>1. Rest(tokens, text, u, n) => n < n
        BY <1>1, <2>1, <3>2, RestOfSome
      <4> QED
        BY <1>1, <3>2, <4>1
    <3> QED
      BY <3>1, <3>2
  <2>6. (\A j \in (u + 1)..m : tokens[j].star)
        <=> tokens[u + 1].star /\ \A j \in ((u + 1) + 1)..m : tokens[j].star
    <3>1. \A j \in (u + 1)..m : j = u + 1 \/ j \in ((u + 1) + 1)..m
      BY <1>1, <2>1
    <3>2. u + 1 \in (u + 1)..m /\ \A j \in ((u + 1) + 1)..m : j \in (u + 1)..m
      BY <1>1, <2>1
    <3> QED
      BY <3>1, <3>2
  <2>7. R(i) <=> S(i)
    BY <2>3, <2>4, <2>5, <2>6
  <2>8. i \in 0..d
    BY <1>1
  <2> QED
    BY <2>7, <2>8
<1>4. d \in T
  <2> HIDE DEF T, d
  <2>1. \A i \in 0..d : i \in T
    BY <1>1, <1>2, <1>3, CountUp
  <2> QED
    BY <1>1, <2>1
<1> QED
  BY <1>1, <1>4

(* The loop: what is read, the star it would go back to, and that nothing is *)
(* lost by going back to the last one only.                                  *)
Tries == [token : Nat, position : Nat, star : Nat, from : Nat, failed : BOOLEAN]
Reading(at, tokens, text) ==
    /\ at \in Tries
    /\ at.star <= at.token /\ at.token <= Len(tokens)
    /\ at.position = at.from + (at.token - at.star) /\ at.position <= Len(text)
    /\ at.star = 0 => at.from = 0
    /\ at.star > 0 => tokens[at.star].star
    /\ \A i \in (at.star + 1)..at.token : ~ tokens[i].star
\* The star at s takes more than the first f.
TakesMore(tokens, text, s, f) == s > 0 /\ \E r \in Nat : f < r /\ Rest(tokens, text, s, r)
NothingLost(at, tokens, text) ==
    Rest(tokens, text, 0, 0)
    <=> /\ ~ at.failed
        /\ Rest(tokens, text, at.token, at.position) \/ TakesMore(tokens, text, at.star, at.from)
FarAt(at, tokens, text) == Far(at.token, at.star, at.from, Len(tokens), Len(text))

\* Once a further star is reached, or the end of the text, going back to an
\* earlier one is of no use: what it could take, the further one can.
LEMMA NoUseGoingBack ==
    ASSUME NEW tokens \in Seq(GlobTokens), NEW text \in Seq(Codes), NEW at,
           Reading(at, tokens, text),
           TakesMore(tokens, text, at.star, at.from),
           at.position = Len(text) \/ (at.token < Len(tokens) /\ tokens[at.token + 1].star)
    PROVE  Rest(tokens, text, at.token, at.position)
<1>1. /\ at.star \in Nat /\ at.from \in Nat /\ at.token \in Nat /\ at.position \in Nat
      /\ at.star <= at.token /\ at.token <= Len(tokens)
      /\ at.position = at.from + (at.token - at.star)
      /\ \A i \in (at.star + 1)..at.token : ~ tokens[i].star
  BY DEF Reading, Tries
<1>2. PICK r \in Nat : at.from < r /\ Rest(tokens, text, at.star, r)
  BY DEF TakesMore
<1> DEFINE q == r + (at.token - at.star)
<1>3. Rest(tokens, text, at.token, q) /\ q <= Len(text)
  BY <1>1, <1>2, RestGoesAlong
<1>4. q \in Nat /\ at.position < q
  BY <1>1, <1>2
<1> HIDE DEF q
<1>5. Len(text) \in Nat /\ Len(tokens) \in Nat
  OBVIOUS
<1>6. at.position # Len(text)
  BY <1>1, <1>3, <1>4, <1>5
<1>7. at.token < Len(tokens) /\ tokens[at.token + 1].star
  BY <1>6
<1>8. PICK u \in Nat : q <= u /\ u <= Len(text) /\ Rest(tokens, text, at.token + 1, u)
  BY <1>1, <1>3, <1>4, <1>7, RestOfSome
<1>9. at.position <= u
  BY <1>1, <1>4, <1>8
<1> QED
  BY <1>1, <1>7, <1>8, <1>9, RestOfSome

\* What one round of the loop does.
LEMMA AdvanceIs ==
    ASSUME NEW tokens, NEW text, NEW at \in Tries
    PROVE  LET more == at.token < Len(tokens)
               token == tokens[at.token + 1]
               next == Glob!Advance(at, tokens, text)
           IN  /\ at.failed \/ at.position = Len(text) => next = at
               /\ ~ at.failed /\ at.position # Len(text) =>
                    \/ /\ more /\ token.star
                       /\ next = [token |-> at.token + 1, position |-> at.position,
                                  star |-> at.token + 1, from |-> at.position, failed |-> FALSE]
                    \/ /\ more /\ ~ token.star /\ text[at.position + 1] \in token.codes
                       /\ next = [token |-> at.token + 1, position |-> at.position + 1,
                                  star |-> at.star, from |-> at.from, failed |-> FALSE]
                    \/ /\ more => ~ token.star /\ text[at.position + 1] \notin token.codes
                       /\ at.star > 0
                       /\ next = [token |-> at.star, position |-> at.from + 1,
                                  star |-> at.star, from |-> at.from + 1, failed |-> FALSE]
                    \/ /\ more => ~ token.star /\ text[at.position + 1] \notin token.codes
                       /\ ~ (at.star > 0)
                       /\ next = [token |-> at.token, position |-> at.position,
                                  star |-> at.star, from |-> at.from, failed |-> TRUE]
BY ZenonT(50) DEF Tries, Glob!Advance, Glob!GoesBack

LEMMA AdvanceReads ==
    ASSUME NEW tokens \in Seq(GlobTokens), NEW text \in Seq(Codes), NEW at,
           Reading(at, tokens, text), NothingLost(at, tokens, text),
           ~ at.failed, at.position # Len(text)
    PROVE  LET next == Glob!Advance(at, tokens, text)
           IN  /\ Reading(next, tokens, text) /\ NothingLost(next, tokens, text)
               /\ ~ next.failed => FarAt(at, tokens, text) < FarAt(next, tokens, text)
<1> DEFINE m == Len(tokens)
           n == Len(text)
           t == at.token
           p == at.position
           s == at.star
           f == at.from
           next == Glob!Advance(at, tokens, text)
           more == t < m
           R(i, j) == Rest(tokens, text, i, j)
           More(i, j) == TakesMore(tokens, text, i, j)
<1>1. /\ t \in Nat /\ p \in Nat /\ s \in Nat /\ f \in Nat /\ m \in Nat /\ n \in Nat
      /\ s <= t /\ t <= m /\ p = f + (t - s) /\ p < n /\ at \in Tries
      /\ s = 0 => f = 0
      /\ s > 0 => tokens[s].star
      /\ \A i \in (s + 1)..t : ~ tokens[i].star
  BY DEF Reading, Tries
<1>2. R(0, 0) <=> R(t, p) \/ More(s, f)
  BY DEF NothingLost
<1>3. \/ /\ more /\ tokens[t + 1].star
         /\ next = [token |-> t + 1, position |-> p, star |-> t + 1, from |-> p, failed |-> FALSE]
      \/ /\ more /\ ~ tokens[t + 1].star /\ text[p + 1] \in tokens[t + 1].codes
         /\ next = [token |-> t + 1, position |-> p + 1, star |-> s, from |-> f, failed |-> FALSE]
      \/ /\ more => ~ tokens[t + 1].star /\ text[p + 1] \notin tokens[t + 1].codes
         /\ s > 0
         /\ next = [token |-> s, position |-> f + 1, star |-> s, from |-> f + 1, failed |-> FALSE]
      \/ /\ more => ~ tokens[t + 1].star /\ text[p + 1] \notin tokens[t + 1].codes
         /\ ~ (s > 0)
         /\ next = [token |-> t, position |-> p, star |-> s, from |-> f, failed |-> TRUE]
  BY <1>1, AdvanceIs
<1>4. more /\ tokens[t + 1].star /\ More(s, f) => R(t, p)
  BY NoUseGoingBack
<1>5. R(t, p) => more /\ (~ tokens[t + 1].star => text[p + 1] \in tokens[t + 1].codes)
  <2>1. CASE t = m
    <3>1. ~ R(m, p)
      BY <1>1, RestOfNothing
    <3> QED
      BY <2>1, <3>1
  <2>2. CASE t < m
    BY <1>1, <2>2, RestOfSome
  <2> QED
    BY <1>1, <2>1, <2>2
<1>6. more /\ tokens[t + 1].star =>
        (R(t, p) <=> \E r \in Nat : p <= r /\ r <= n /\ R(t + 1, r))
  BY <1>1, RestOfSome
<1>7. more /\ ~ tokens[t + 1].star /\ text[p + 1] \in tokens[t + 1].codes =>
        (R(t, p) <=> R(t + 1, p + 1))
  BY <1>1, RestOfSome
<1>8. \A r \in Nat : t < m /\ R(t + 1, r) => r <= n
  <2> SUFFICES ASSUME NEW r \in Nat, t < m, R(t + 1, r) PROVE r <= n
    OBVIOUS
  <2>1. CASE t + 1 = m
    BY <1>1, <2>1, RestOfNothing
  <2>2. CASE t + 1 < m
    BY <1>1, <2>2, RestOfSome
  <2> QED
    BY <1>1, <2>1, <2>2
<1>9. Reading(next, tokens, text)
      <=> /\ next \in Tries
          /\ next.star <= next.token /\ next.token <= m
          /\ next.position = next.from + (next.token - next.star) /\ next.position <= n
          /\ next.star = 0 => next.from = 0
          /\ next.star > 0 => tokens[next.star].star
          /\ \A i \in (next.star + 1)..next.token : ~ tokens[i].star
  BY DEF Reading
<1>10. NothingLost(next, tokens, text)
       <=> (R(0, 0) <=> ~ next.failed /\ (R(next.token, next.position) \/ More(next.star, next.from)))
  BY DEF NothingLost
<1>11. FarAt(at, tokens, text) = Far(t, s, f, m, n)
       /\ FarAt(next, tokens, text) = Far(next.token, next.star, next.from, m, n)
  BY DEF FarAt
<1>12. \A i, j : More(i, j) <=> i > 0 /\ \E r \in Nat : j < r /\ R(i, r)
  BY DEF TakesMore
<1>13. ~ at.failed
  OBVIOUS
<1> DEFINE Good(x) == /\ Reading(x, tokens, text) /\ NothingLost(x, tokens, text)
                      /\ ~ x.failed => FarAt(at, tokens, text) < FarAt(x, tokens, text)
<1> SUFFICES Good(next)
  OBVIOUS
<1> HIDE DEF m, n, t, p, s, f, next, R, More
<1>14. ASSUME more, tokens[t + 1].star,
              next = [token |-> t + 1, position |-> p, star |-> t + 1, from |-> p, failed |-> FALSE]
       PROVE  Good(next)
  <2>1. Reading(next, tokens, text)
    BY <1>1, <1>9, <1>14 DEF Tries
  <2>2. R(t, p) <=> R(t + 1, p) \/ More(t + 1, p)
    <3>1. ASSUME R(t, p) PROVE R(t + 1, p) \/ More(t + 1, p)
      <4>1. PICK r \in Nat : p <= r /\ R(t + 1, r)
        BY <1>6, <1>14, <3>1
      <4>2. r = p \/ p < r
        BY <1>1, <4>1
      <4> QED
        BY <1>1, <1>12, <4>1, <4>2
    <3>2. ASSUME R(t + 1, p) PROVE R(t, p)
      BY <1>1, <1>6, <1>14, <3>2
    <3>3. ASSUME More(t + 1, p) PROVE R(t, p)
      <4>1. PICK r \in Nat : p < r /\ R(t + 1, r)
        BY <1>12, <3>3
      <4>2. p <= r /\ r <= n
        BY <1>1, <1>8, <1>14, <4>1
      <4> QED
        BY <1>6, <1>14, <4>1, <4>2
    <3> QED
      BY <3>1, <3>2, <3>3
  <2>3. NothingLost(next, tokens, text)
    <3>1. R(0, 0) <=> R(t + 1, p) \/ More(t + 1, p)
      BY <1>2, <1>4, <1>14, <2>2
    <3> QED
      BY <1>10, <1>14, <3>1
  <2>4. FarAt(at, tokens, text) < FarAt(next, tokens, text)
    <3>1. f + (t - s) < n /\ p = f + (t - s)
      BY <1>1
    <3>2. Far(t, s, f, m, n) < Far(t + 1, t + 1, f + (t - s), m, n)
      BY <1>1, <1>14, <3>1, StarIsFurther
    <3> QED
      BY <1>11, <1>14, <3>1, <3>2
  <2> QED
    BY <2>1, <2>3, <2>4
<1>15. ASSUME more, ~ tokens[t + 1].star, text[p + 1] \in tokens[t + 1].codes,
              next = [token |-> t + 1, position |-> p + 1, star |-> s, from |-> f, failed |-> FALSE]
       PROVE  Good(next)
  <2>1. Reading(next, tokens, text)
    <3>1. \A i \in (s + 1)..(t + 1) : ~ tokens[i].star
      <4>1. \A i \in (s + 1)..(t + 1) : i = t + 1 \/ i \in (s + 1)..t
        BY <1>1
      <4> QED
        BY <1>1, <1>15, <4>1
    <3>2. /\ next.token = t + 1 /\ next.position = p + 1 /\ next.star = s /\ next.from = f
          /\ next \in Tries
      BY <1>1, <1>15 DEF Tries
    <3>3. s <= t + 1 /\ t + 1 <= m /\ p + 1 = f + ((t + 1) - s) /\ p + 1 <= n
      BY <1>1, <1>15
    <3> QED
      BY <1>1, <1>9, <3>1, <3>2, <3>3
  <2>2. NothingLost(next, tokens, text)
    BY <1>2, <1>7, <1>10, <1>15
  <2>3. FarAt(at, tokens, text) < FarAt(next, tokens, text)
    <3>1. Far(t, s, f, m, n) < Far(t + 1, s, f, m, n)
      BY <1>1, <1>15, BackIsFurther
    <3> QED
      BY <1>11, <1>15, <3>1
  <2> QED
    BY <2>1, <2>2, <2>3
<1>16. ASSUME more => ~ tokens[t + 1].star /\ text[p + 1] \notin tokens[t + 1].codes, s > 0,
              next = [token |-> s, position |-> f + 1, star |-> s, from |-> f + 1, failed |-> FALSE]
       PROVE  Good(next)
  <2>1. Reading(next, tokens, text)
    <3>1. /\ next.token = s /\ next.position = f + 1 /\ next.star = s /\ next.from = f + 1
          /\ next \in Tries
      BY <1>1, <1>16 DEF Tries
    <3>2. s <= s /\ s <= m /\ f + 1 = (f + 1) + (s - s) /\ f + 1 <= n /\ s # 0
      <4>1. s \in Nat /\ t \in Nat /\ f \in Nat /\ p \in Nat /\ m \in Nat /\ n \in Nat
        BY <1>1
      <4>2. s <= t /\ t <= m /\ p = f + (t - s) /\ p < n
        BY <1>1
      <4>3. s > 0
        BY <1>16
      <4> QED
        BY <4>1, <4>2, <4>3
    <3>3. \A i \in (s + 1)..s : ~ tokens[i].star
      BY <1>1
    <3> QED
      BY <1>1, <1>9, <1>16, <3>1, <3>2, <3>3
  <2>2. ~ R(t, p)
    BY <1>5, <1>16
  <2>3. More(s, f) <=> R(s, f + 1) \/ More(s, f + 1)
    <3>1. \A r \in Nat : f < r <=> r = f + 1 \/ f + 1 < r
      BY <1>1
    <3>2. f + 1 \in Nat
      BY <1>1
    <3> QED
      BY <1>12, <1>16, <3>1, <3>2
  <2>4. NothingLost(next, tokens, text)
    <3>1. R(0, 0) <=> R(s, f + 1) \/ More(s, f + 1)
      BY <1>2, <2>2, <2>3
    <3> QED
      BY <1>10, <1>16, <3>1
  <2>5. FarAt(at, tokens, text) < FarAt(next, tokens, text)
    <3>1. Far(t, s, f, m, n) < Far(s, s, f + 1, m, n)
      BY <1>1, BackIsFurther
    <3> QED
      BY <1>11, <1>16, <3>1
  <2> QED
    BY <2>1, <2>4, <2>5
<1>17. ASSUME more => ~ tokens[t + 1].star /\ text[p + 1] \notin tokens[t + 1].codes, ~ (s > 0),
              next = [token |-> t, position |-> p, star |-> s, from |-> f, failed |-> TRUE]
       PROVE  Good(next)
  <2>1. Reading(next, tokens, text)
    <3>1. /\ next.token = t /\ next.position = p /\ next.star = s /\ next.from = f
          /\ next \in Tries
      BY <1>1, <1>17 DEF Tries
    <3>2. p <= n
      BY <1>1
    <3> QED
      BY <1>1, <1>9, <3>1, <3>2
  <2>2. ~ R(t, p) /\ ~ More(s, f)
    BY <1>5, <1>12, <1>17
  <2>3. NothingLost(next, tokens, text)
    <3>1. ~ R(0, 0) /\ next.failed
      BY <1>2, <1>17, <2>2
    <3> QED
      BY <1>10, <3>1
  <2>4. next.failed
    BY <1>17
  <2> QED
    BY <2>1, <2>3, <2>4
<1> QED
  BY <1>3, <1>14, <1>15, <1>16, <1>17

\* The bound of the loop is more than it needs.
LEMMA AttemptEnds ==
    ASSUME NEW tokens \in Seq(GlobTokens), NEW text \in Seq(Codes)
    PROVE  LET at == Glob!Attempt(tokens, text)
           IN  /\ Reading(at, tokens, text) /\ NothingLost(at, tokens, text)
               /\ at.failed \/ at.position = Len(text)
<1> DEFINE m == Len(tokens)
           n == Len(text)
           bound == (m + 1) * (n + 1)
           V == Tries
           Step(v) == Glob!Advance(v, tokens, text)
           step == [x \in Nat \X V |-> Step(x[2])]
           Made(f) == f = [k \in 0..bound |-> IF k = 0 THEN Glob!StartMatch
                                              ELSE Glob!Advance(f[k - 1], tokens, text)]
<1>1. Glob!Attempt(tokens, text) = (CHOOSE f : Made(f))[bound]
  BY DEF Glob!Attempt
<1>2. m \in Nat /\ n \in Nat /\ bound \in Nat
  <2>1. m \in Nat /\ n \in Nat
    OBVIOUS
  <2>2. m + 1 \in Nat /\ n + 1 \in Nat
    BY <2>1
  <2> HIDE DEF m, n
  <2>3. (m + 1) * (n + 1) \in Nat
    BY <2>2
  <2> QED
    BY <2>1, <2>3
<1>3. Glob!StartMatch \in V /\ Glob!StartMatch = [token |-> 0, position |-> 0, star |-> 0, from |-> 0, failed |-> FALSE]
  BY DEF Glob!StartMatch, Tries
<1>4. ASSUME NEW v \in V PROVE Step(v) \in V
  <2>1. v \in Tries /\ v.token + 1 \in Nat /\ v.position + 1 \in Nat /\ v.from + 1 \in Nat
    BY DEF Tries
  <2>2. \/ Step(v) = v
        \/ Step(v) = [token |-> v.token + 1, position |-> v.position,
                      star |-> v.token + 1, from |-> v.position, failed |-> FALSE]
        \/ Step(v) = [token |-> v.token + 1, position |-> v.position + 1,
                      star |-> v.star, from |-> v.from, failed |-> FALSE]
        \/ Step(v) = [token |-> v.star, position |-> v.from + 1,
                      star |-> v.star, from |-> v.from + 1, failed |-> FALSE]
        \/ Step(v) = [token |-> v.token, position |-> v.position,
                      star |-> v.star, from |-> v.from, failed |-> TRUE]
    <3> HIDE DEF V
    <3> QED
      BY <2>1, AdvanceIs
  <2> HIDE DEF Step
  <2>3. v.token \in Nat /\ v.position \in Nat /\ v.star \in Nat /\ v.from \in Nat
    BY <2>1 DEF Tries
  <2>4. /\ [token |-> v.token + 1, position |-> v.position,
            star |-> v.token + 1, from |-> v.position, failed |-> FALSE] \in Tries
        /\ [token |-> v.token + 1, position |-> v.position + 1,
            star |-> v.star, from |-> v.from, failed |-> FALSE] \in Tries
        /\ [token |-> v.star, position |-> v.from + 1,
            star |-> v.star, from |-> v.from + 1, failed |-> FALSE] \in Tries
        /\ [token |-> v.token, position |-> v.position,
            star |-> v.star, from |-> v.from, failed |-> TRUE] \in Tries
    BY <2>3 DEF Tries
  <2> QED
    BY <2>1, <2>2, <2>4
<1> HIDE DEF m, n, bound, V
<1>5. step \in [Nat \X V -> V] /\ \A k \in Nat, v \in V : step[<<k, v>>] = Step(v)
  <2> HIDE DEF Step
  <2> QED
    BY <1>4
<1> HIDE DEF step
<1>6. PICK g \in [0..bound -> V] : IsRecursive(g, Glob!StartMatch, step, bound)
  BY <1>2, <1>3, <1>5, Recursion
<1>7. Made(g)
  <2>1. ASSUME NEW k \in 0..bound
        PROVE  g[k] = IF k = 0 THEN Glob!StartMatch ELSE Glob!Advance(g[k - 1], tokens, text)
    <3>1. k # 0 => k \in Nat /\ k - 1 \in 0..bound /\ g[k - 1] \in V
      BY <1>2, <1>6
    <3>2. g[k] = IF k = 0 THEN Glob!StartMatch ELSE Step(g[k - 1])
      <4> HIDE DEF Step
      <4> QED
        BY <1>5, <1>6, <3>1 DEF IsRecursive
    <3> QED
      BY <3>2
  <2> QED
    BY <1>6, <2>1, Zenon
<1>8. PICK f : Made(f) /\ Glob!Attempt(tokens, text) = f[bound]
  BY <1>1, <1>7
<1>9. \A k \in 0..bound : f[k] = IF k = 0 THEN Glob!StartMatch ELSE Glob!Advance(f[k - 1], tokens, text)
  BY <1>8
<1> HIDE DEF Made
<1> DEFINE Done(at) == at.failed \/ at.position = n
           Holds(k) == /\ Reading(f[k], tokens, text) /\ NothingLost(f[k], tokens, text)
                       /\ Done(f[k]) \/ k <= FarAt(f[k], tokens, text)
           T == {k \in 0..bound : Holds(k)}
<1>10. ASSUME NEW at, Reading(at, tokens, text)
       PROVE  FarAt(at, tokens, text) \in Nat /\ (at.position # n => FarAt(at, tokens, text) < bound)
  <2>1. /\ at.token \in Nat /\ at.star \in Nat /\ at.from \in Nat /\ at.star <= at.token /\ at.token <= m
        /\ at.position = at.from + (at.token - at.star) /\ at.position <= n /\ at.position \in Nat
    BY <1>10 DEF Reading, Tries, m, n
  <2>2. FarAt(at, tokens, text) = Far(at.token, at.star, at.from, m, n)
    BY DEF FarAt, m, n
  <2>3. Far(at.token, at.star, at.from, m, n) \in Nat
    <3>1. (m + 1 - at.star) \in Nat /\ at.token - at.star \in Nat
      BY SMTT(30), <1>2, <2>1
    <3>2. at.from * (m + 1 - at.star) \in Nat /\ n * at.star \in Nat
      BY <1>2, <2>1, <3>1, Distribute
    <3> QED
      BY <3>1, <3>2 DEF Far
  <2>4. at.position # n => Far(at.token, at.star, at.from, m, n) < (m + 1) * (n + 1)
    <3>1. at.position # n => at.from + (at.token - at.star) < n
      BY <1>2, <2>1
    <3> QED
      BY <1>2, <2>1, <3>1, NotThatFar
  <2> QED
    BY <2>2, <2>3, <2>4 DEF bound
<1>11. 0 \in T
  <2>1. 0 \in 0..bound /\ f[0] = Glob!StartMatch
    BY <1>2, <1>9
  <2>2. /\ f[0].token = 0 /\ f[0].position = 0 /\ f[0].star = 0 /\ f[0].from = 0 /\ f[0].failed = FALSE
        /\ f[0] \in Tries
    BY <1>3, <2>1 DEF V
  <2>3. Reading(f[0], tokens, text)
    BY <2>2, Len(tokens) \in Nat, Len(text) \in Nat DEF Reading
  <2>4. NothingLost(f[0], tokens, text)
    BY <2>2 DEF NothingLost, TakesMore
  <2>5. 0 <= FarAt(f[0], tokens, text)
    BY <1>10, <2>3
  <2> QED
    BY <2>1, <2>3, <2>4, <2>5
<1>12. ASSUME NEW k \in 1..bound, k - 1 \in T PROVE k \in T
  <2> DEFINE at == f[k - 1]
             next == Glob!Advance(at, tokens, text)
  <2>1. k \in 0..bound /\ k # 0 /\ k \in Nat /\ k - 1 \in Nat
    BY <1>2
  <2>2. f[k] = next
    BY <1>9, <2>1
  <2>3. Reading(at, tokens, text) /\ NothingLost(at, tokens, text)
        /\ (Done(at) \/ k - 1 <= FarAt(at, tokens, text))
    BY <1>12
  <2>4. at \in Tries
    BY <2>3 DEF Reading
  <2>5. ASSUME Done(at) PROVE next = at
    BY <2>4, <2>5, AdvanceIs DEF n
  <2>6. ASSUME ~ Done(at)
        PROVE  /\ Reading(next, tokens, text) /\ NothingLost(next, tokens, text)
               /\ next.failed \/ FarAt(at, tokens, text) < FarAt(next, tokens, text)
    BY <2>3, <2>6, AdvanceReads DEF n
  <2> HIDE DEF next, at
  <2>7. Holds(k)
    <3>1. ASSUME Done(at) PROVE Holds(k)
      BY <2>2, <2>3, <2>5, <3>1
    <3>2. ASSUME ~ Done(at) PROVE Holds(k)
      <4>1. Reading(next, tokens, text) /\ NothingLost(next, tokens, text)
            /\ (next.failed \/ FarAt(at, tokens, text) < FarAt(next, tokens, text))
        BY <2>6, <3>2
      <4>2. FarAt(at, tokens, text) \in Nat /\ FarAt(next, tokens, text) \in Nat
        BY <1>10, <2>3, <4>1
      <4>3. next.failed \/ k <= FarAt(next, tokens, text)
        BY <2>1, <2>3, <3>2, <4>1, <4>2
      <4> QED
        BY <2>2, <4>1, <4>3
    <3> QED
      BY <3>1, <3>2
  <2> QED
    BY <2>1, <2>7
<1>13. Holds(bound)
  <2> HIDE DEF T, Holds
  <2>1. \A k \in 0..bound : k \in T
    BY <1>2, <1>11, <1>12, CountUp
  <2>2. bound \in T
    BY <1>2, <2>1
  <2> QED
    BY <2>2 DEF T
<1>14. Done(f[bound])
  <2>1. FarAt(f[bound], tokens, text) \in Nat
        /\ (f[bound].position # n => FarAt(f[bound], tokens, text) < bound)
    BY <1>10, <1>13
  <2> QED
    BY <1>2, <1>13, <2>1
<1> QED
  BY <1>8, <1>13, <1>14 DEF n

\* tokensMatch tells what a pattern spells.
LEMMA TokensMatchSpells ==
    ASSUME NEW tokens \in Seq(GlobTokens), NEW text \in Seq(Codes)
    PROVE  Glob!TokensMatch(tokens, text) <=> Glob!Spells(tokens, text)
<1> DEFINE at == Glob!Attempt(tokens, text)
<1>1. Reading(at, tokens, text) /\ NothingLost(at, tokens, text) /\ (at.failed \/ at.position = Len(text))
  BY AttemptEnds
<1>2. Glob!TokensMatch(tokens, text)
      <=> /\ ~ at.failed /\ at.position = Len(text)
          /\ \A i \in (at.token + 1)..Len(tokens) : tokens[i].star
  BY DEF Glob!TokensMatch
<1>3. Glob!Spells(tokens, text) <=> Rest(tokens, text, 0, 0)
  BY SpellsAreCuts
<1> HIDE DEF at
<1>4. at.token \in Nat /\ at.token <= Len(tokens)
  BY <1>1 DEF Reading, Tries
<1>5. CASE at.failed
  BY <1>1, <1>2, <1>3, <1>5 DEF NothingLost
<1>6. CASE ~ at.failed
  <2>1. at.position = Len(text)
    BY <1>1, <1>6
  <2>2. Rest(tokens, text, 0, 0) <=> Rest(tokens, text, at.token, at.position)
    <3>1. Rest(tokens, text, 0, 0)
          <=> Rest(tokens, text, at.token, at.position) \/ TakesMore(tokens, text, at.star, at.from)
      BY <1>1, <1>6 DEF NothingLost
    <3>2. TakesMore(tokens, text, at.star, at.from) => Rest(tokens, text, at.token, at.position)
      BY <1>1, <2>1, NoUseGoingBack
    <3> QED
      BY <3>1, <3>2
  <2>3. Rest(tokens, text, at.token, Len(text)) <=> \A i \in (at.token + 1)..Len(tokens) : tokens[i].star
    BY <1>4, RestAtTheEnd
  <2> QED
    BY <1>2, <1>3, <1>6, <2>1, <2>2, <2>3
<1> QED
  BY <1>5, <1>6

(* A segment and its alternatives.                                           *)
LEMMA FlattenIs ==
    ASSUME NEW X, NEW seqs \in Seq(Seq(X)), seqs # <<>>
    PROVE  \E f \in [1..Len(seqs) -> Seq(X)] :
              /\ f[1] = seqs[1]
              /\ \A i \in 2..Len(seqs) : f[i] = f[i - 1] \o seqs[i]
              /\ Glob!FlattenSeq(seqs) = f[Len(seqs)]
<1> DEFINE n == Len(seqs)
           V == Seq(X)
           Step(v, i) == v \o seqs[i]
           step == [x \in Nat \X V |-> IF x[1] \in 1..n THEN Step(x[2], x[1]) ELSE x[2]]
           Made(f) == f = [i \in 1..n |-> IF i = 1 THEN seqs[i] ELSE f[i - 1] \o seqs[i]]
<1>1. Glob!FlattenSeq(seqs) = (CHOOSE f : Made(f))[n]
  <2>1. Len(seqs) # 0
    OBVIOUS
  <2> QED
    BY <2>1 DEF Glob!FlattenSeq
<1>2. n \in Nat /\ n >= 1 /\ \A i \in 1..n : seqs[i] \in V
  OBVIOUS
<1>3. ASSUME NEW i \in 1..n, NEW v \in V PROVE Step(v, i) \in V
  OBVIOUS
<1>4. <<>> \in V /\ \A v \in V : <<>> \o v = v
  OBVIOUS
<1> HIDE DEF n, V
<1>5. step \in [Nat \X V -> V] /\ \A i \in 1..n, v \in V : step[<<i, v>>] = Step(v, i)
  <2> HIDE DEF Step
  <2> QED
    BY <1>2, <1>3
<1> HIDE DEF step
<1>6. PICK g \in [0..n -> V] : IsRecursive(g, <<>>, step, n)
  BY <1>2, <1>4, <1>5, Recursion
<1> DEFINE h == [i \in 1..n |-> g[i]]
<1>7. \A i \in 1..n : i \in 0..n /\ h[i] = g[i] /\ g[i] \in V /\ g[i - 1] \in V /\ i - 1 \in 0..n
  BY <1>2, <1>6
<1>8. \A i \in 1..n : g[i] = g[i - 1] \o seqs[i]
  <2> SUFFICES ASSUME NEW i \in 1..n PROVE g[i] = g[i - 1] \o seqs[i]
    OBVIOUS
  <2>1. g[i] = Step(g[i - 1], i)
    <3> HIDE DEF Step
    <3>1. i # 0
      BY <1>2
    <3> QED
      BY <1>5, <1>6, <1>7, <3>1 DEF IsRecursive
  <2> QED
    BY <2>1
<1>9. \A i \in 1..n : h[i] = IF i = 1 THEN seqs[i] ELSE h[i - 1] \o seqs[i]
  <2> SUFFICES ASSUME NEW i \in 1..n PROVE h[i] = IF i = 1 THEN seqs[i] ELSE h[i - 1] \o seqs[i]
    OBVIOUS
  <2>1. CASE i = 1
    <3>1. 0 \in 0..n /\ i - 1 = 0
      BY <1>2, <2>1
    <3>3. g[0] = IF 0 = 0 THEN <<>> ELSE step[<<0, g[0 - 1]>>]
      BY <1>6, <3>1, Zenon DEF IsRecursive
    <3>4. g[0] = <<>>
      BY <3>3
    <3>2. g[i] = <<>> \o seqs[i]
      BY <1>8, <3>1, <3>4
    <3> QED
      BY <1>2, <1>4, <1>7, <2>1, <3>2
  <2>2. CASE i # 1
    <3>1. i - 1 \in 1..n
      BY <1>2, <2>2
    <3> QED
      BY <1>7, <1>8, <2>2, <3>1
  <2> QED
    BY <2>1, <2>2
<1>10. Made(h)
  BY <1>9, Zenon
<1>11. PICK f : Made(f) /\ Glob!FlattenSeq(seqs) = f[n]
  BY <1>1, <1>10
<1>12. f = [i \in 1..n |-> IF i = 1 THEN seqs[i] ELSE f[i - 1] \o seqs[i]]
  BY <1>11
<1>13. \A i \in 1..n : f[i] = IF i = 1 THEN seqs[i] ELSE f[i - 1] \o seqs[i]
  BY <1>12
<1> HIDE DEF Made
<1> DEFINE T == {i \in 0..n : i > 0 => f[i] = h[i]}
<1>14. 0 \in T
  BY <1>2
<1>15. ASSUME NEW i \in 1..n, i - 1 \in T PROVE i \in T
  <2>1. i \in 0..n /\ (i # 1 => i - 1 > 0)
    BY <1>2
  <2> HIDE DEF h
  <2> QED
    BY <1>9, <1>13, <1>15, <2>1
<1>16. \A i \in 1..n : f[i] = h[i]
  <2>1. \A i \in 0..n : i \in T
    <3> HIDE DEF T
    <3> QED
      BY <1>2, <1>14, <1>15, CountUp
  <2> HIDE DEF h
  <2>2. \A i \in 1..n : i \in 0..n /\ i > 0
    BY <1>2
  <2> QED
    BY <2>1, <2>2
<1>17. h \in [1..n -> V]
  BY <1>7
<1>18. h[1] = seqs[1] /\ \A i \in 2..n : h[i] = h[i - 1] \o seqs[i]
  <2>1. 1 \in 1..n /\ \A i \in 2..n : i \in 1..n /\ i # 1
    BY <1>2
  <2> HIDE DEF h
  <2> QED
    BY <1>9, <2>1
<1>19. Glob!FlattenSeq(seqs) = h[n]
  <2> HIDE DEF h
  <2> QED
    BY <1>2, <1>11, <1>16
<1> HIDE DEF h
<1> QED
  BY <1>17, <1>18, <1>19 DEF n, V

Joined(v, w) == v \o w

LEMMA ContinueIs ==
    ASSUME NEW prefixes, NEW choices, NEW w
    PROVE  w \in Glob!Continue(prefixes, choices)
           <=> \E v \in prefixes : \E a \in choices : w = Joined(v, a)
BY DEF Glob!Continue, Joined

LEMMA ExpandIs ==
    ASSUME NEW X, NEW parts \in Seq(Seq(Seq(X)))
    PROVE  \E e \in [0..Len(parts) -> SUBSET Seq(X)] :
              /\ e[0] = {<<>>}
              /\ \A p \in 1..Len(parts) : e[p] = Glob!Continue(e[p - 1], Glob!ToSet(parts[p]))
              /\ Glob!ExpandBraces(parts) = e[Len(parts)]
<1> DEFINE n == Len(parts)
           V == SUBSET Seq(X)
           Step(v, i) == Glob!Continue(v, Glob!ToSet(parts[i]))
           step == [x \in Nat \X V |-> IF x[1] \in 1..n THEN Step(x[2], x[1]) ELSE x[2]]
           Made(f) == f = [p \in 0..n |-> IF p = 0 THEN {<<>>}
                                          ELSE Glob!Continue(f[p - 1], Glob!ToSet(parts[p]))]
<1>1. Glob!ExpandBraces(parts) = (CHOOSE f : Made(f))[n]
  BY DEF Glob!ExpandBraces
<1>2. n \in Nat
  OBVIOUS
<1>3. ASSUME NEW i \in 1..n, NEW v \in V PROVE Step(v, i) \in V
  <2>1. parts[i] \in Seq(Seq(X))
    OBVIOUS
  <2>2. \A w \in Glob!ToSet(parts[i]) : w \in Seq(X)
    BY <2>1 DEF Glob!ToSet
  <2>3. ASSUME NEW w \in Glob!Continue(v, Glob!ToSet(parts[i])) PROVE w \in Seq(X)
    <3>a. \E y \in v : \E z \in Glob!ToSet(parts[i]) : w = Joined(y, z)
      BY <2>3, ContinueIs
    <3>1. PICK y \in v, z \in Glob!ToSet(parts[i]) : w = Joined(y, z)
      BY <3>a
    <3> HIDE DEF Step
    <3>2. y \in Seq(X) /\ z \in Seq(X)
      BY <2>2
    <3> QED
      BY <3>1, <3>2 DEF Joined
  <2> QED
    BY <2>3
<1>4. {<<>>} \in V
  OBVIOUS
<1> HIDE DEF n, V
<1>5. step \in [Nat \X V -> V] /\ \A i \in 1..n, v \in V : step[<<i, v>>] = Step(v, i)
  <2> HIDE DEF Step
  <2> QED
    BY <1>2, <1>3
<1> HIDE DEF step
<1>6. PICK g \in [0..n -> V] : IsRecursive(g, {<<>>}, step, n)
  BY <1>2, <1>4, <1>5, Recursion
<1>7. \A i \in 0..n : g[i] = IF i = 0 THEN {<<>>} ELSE Glob!Continue(g[i - 1], Glob!ToSet(parts[i]))
  <2> SUFFICES ASSUME NEW i \in 0..n
               PROVE  g[i] = IF i = 0 THEN {<<>>} ELSE Glob!Continue(g[i - 1], Glob!ToSet(parts[i]))
    OBVIOUS
  <2>1. i # 0 => i \in 1..n /\ g[i - 1] \in V
    BY <1>2, <1>6
  <2>2. g[i] = IF i = 0 THEN {<<>>} ELSE Step(g[i - 1], i)
    <3> HIDE DEF Step
    <3> QED
      BY <1>5, <1>6, <2>1 DEF IsRecursive
  <2> QED
    BY <2>2
<1>8. Made(g)
  BY <1>6, <1>7, Zenon
<1>9. PICK f : Made(f) /\ Glob!ExpandBraces(parts) = f[n]
  BY <1>1, <1>8
<1>10. \A i \in 0..n : f[i] = IF i = 0 THEN {<<>>} ELSE Glob!Continue(f[i - 1], Glob!ToSet(parts[i]))
  BY <1>9
<1> HIDE DEF Made
<1> DEFINE T == {i \in 0..n : f[i] = g[i]}
<1>11. 0 \in T
  <2>1. 0 \in 0..n
    BY <1>2
  <2>2. g[0] = {<<>>} /\ f[0] = {<<>>}
    BY <1>7, <1>10, <2>1, Zenon
  <2> QED
    BY <2>1, <2>2
<1>12. ASSUME NEW i \in 1..n, i - 1 \in T PROVE i \in T
  <2>1. i \in 0..n /\ i # 0
    BY <1>2
  <2> QED
    BY <1>7, <1>10, <1>12, <2>1
<1>13. \A i \in 0..n : f[i] = g[i]
  <2>1. \A i \in 0..n : i \in T
    <3> HIDE DEF T
    <3> QED
      BY <1>2, <1>11, <1>12, CountUp
  <2> QED
    BY <2>1
<1>14. g[0] = {<<>>} /\ \A p \in 1..n : g[p] = Glob!Continue(g[p - 1], Glob!ToSet(parts[p]))
  <2>1. 0 \in 0..n /\ \A p \in 1..n : p \in 0..n /\ p # 0
    BY <1>2
  <2> QED
    BY <1>7, <2>1
<1>15. Glob!ExpandBraces(parts) = g[n]
  BY <1>2, <1>9, <1>13
<1> QED
  BY <1>6, <1>14, <1>15 DEF n, V

\* What a segment is compiled to is what its choices spell, each once.
Choices(parts) ==
    {choice \in [DOMAIN parts -> UNION {Glob!ToSet(parts[p]) : p \in DOMAIN parts}] :
        \A p \in DOMAIN parts : choice[p] \in Glob!ToSet(parts[p])}

LEMMA ExpandedAreChosen ==
    ASSUME NEW X, NEW parts \in Seq(Seq(Seq(X))), parts # <<>>, NEW tokens
    PROVE  tokens \in Glob!ExpandBraces(parts)
           <=> \E choice \in Choices(parts) : Glob!FlattenSeq(choice) = tokens
<1> DEFINE n == Len(parts)
           A(p) == Glob!ToSet(parts[p])
<1>1. n \in Nat /\ n >= 1 /\ DOMAIN parts = 1..n
  OBVIOUS
<1>2. ASSUME NEW p \in 1..n PROVE A(p) \subseteq Seq(X)
  <2>1. parts[p] \in Seq(Seq(X))
    OBVIOUS
  <2> QED
    BY <2>1 DEF Glob!ToSet
<1>3. PICK e \in [0..n -> SUBSET Seq(X)] :
              /\ e[0] = {<<>>}
              /\ \A p \in 1..n : e[p] = Glob!Continue(e[p - 1], A(p))
              /\ Glob!ExpandBraces(parts) = e[n]
  BY ExpandIs
<1>4. \A c : c \in Choices(parts) <=> c \in [1..n -> UNION {A(p) : p \in 1..n}] /\ \A p \in 1..n : c[p] \in A(p)
  BY <1>1 DEF Choices
<1> HIDE DEF n, A
<1>5. ASSUME NEW c \in Choices(parts)
      PROVE  c \in Seq(Seq(X)) /\ c # <<>> /\ Len(c) = n
  <2>1. c \in [1..n -> UNION {A(p) : p \in 1..n}] /\ \A p \in 1..n : c[p] \in A(p)
    BY <1>4
  <2>2. c \in [1..n -> Seq(X)]
    BY <1>2, <2>1
  <2> QED
    BY <1>1, <2>2
<1>6. ASSUME NEW c \in Choices(parts) PROVE Glob!FlattenSeq(c) \in e[n]
  <2>1. \A p \in 1..n : c[p] \in A(p) /\ c[p] \in Seq(X)
    BY <1>2, <1>4
  <2>a. c \in Seq(Seq(X)) /\ c # <<>> /\ Len(c) = n
    BY <1>5
  <2>2. PICK f \in [1..n -> Seq(X)] :
              /\ f[1] = c[1]
              /\ \A i \in 2..n : f[i] = f[i - 1] \o c[i]
              /\ Glob!FlattenSeq(c) = f[n]
    <3>1. \E f \in [1..Len(c) -> Seq(X)] :
              /\ f[1] = c[1]
              /\ \A i \in 2..Len(c) : f[i] = f[i - 1] \o c[i]
              /\ Glob!FlattenSeq(c) = f[Len(c)]
      BY <2>a, FlattenIs
    <3> QED
      BY <2>a, <3>1
  <2> DEFINE T == {i \in 0..n : i > 0 => f[i] \in e[i]}
  <2>3. 0 \in T
    BY <1>1
  <2>4. ASSUME NEW i \in 1..n, i - 1 \in T PROVE i \in T
    <3>1. i \in 0..n /\ i - 1 \in 0..n /\ e[i] = Glob!Continue(e[i - 1], A(i))
      BY <1>1, <1>3
    <3>2. CASE i = 1
      <4>1. i - 1 = 0 /\ e[i - 1] = {<<>>} /\ f[i] = c[i]
        BY <1>3, <2>2, <3>2
      <4>2. f[i] = <<>> \o c[i]
        BY <2>1, <4>1
      <4>3. f[i] \in e[i]
        <5>1. \E v \in e[i - 1] : \E a \in A(i) : f[i] = Joined(v, a)
          BY <2>1, <4>1, <4>2 DEF Joined
        <5> QED
          BY <3>1, <5>1, ContinueIs
      <4> QED
        BY <3>1, <4>3
    <3>3. CASE i # 1
      <4>1. i \in 2..n /\ i - 1 > 0
        BY <1>1, <3>3
      <4>2. f[i] = f[i - 1] \o c[i] /\ f[i - 1] \in e[i - 1]
        BY <2>2, <2>4, <4>1
      <4>3. f[i] \in e[i]
        <5>1. \E v \in e[i - 1] : \E a \in A(i) : f[i] = Joined(v, a)
          BY <2>1, <4>2 DEF Joined
        <5> QED
          BY <3>1, <5>1, ContinueIs
      <4> QED
        BY <3>1, <4>3
    <3> QED
      BY <3>2, <3>3
  <2>5. \A i \in 0..n : i \in T
    <3> HIDE DEF T
    <3> QED
      BY <1>1, <2>3, <2>4, CountUp
  <2> QED
    BY <1>1, <2>2, <2>5
<1> DEFINE Way(h, i, w) == /\ h \in [0..i -> Seq(X)] /\ h[0] = <<>> /\ h[i] = w
                           /\ \A j \in 1..i : \E a \in A(j) : h[j] = h[j - 1] \o a
           T == {i \in 0..n : \A w \in e[i] : \E h : Way(h, i, w)}
<1>7. 0 \in T
  <2> DEFINE h == [i \in 0..0 |-> <<>>]
  <2>1. Way(h, 0, <<>>)
    OBVIOUS
  <2> HIDE DEF Way, h
  <2> QED
    BY <1>1, <1>3, <2>1
<1>8. ASSUME NEW i \in 1..n, i - 1 \in T PROVE i \in T
  <2>1. i \in 0..n /\ i - 1 \in 0..n /\ i \in Nat /\ i - 1 \in Nat /\ e[i] = Glob!Continue(e[i - 1], A(i))
    BY <1>1, <1>3
  <2> SUFFICES ASSUME NEW w \in e[i] PROVE \E h : Way(h, i, w)
    BY <2>1
  <2>a. \E v \in e[i - 1] : \E a \in A(i) : w = Joined(v, a)
    BY <2>1, ContinueIs
  <2>2. PICK v \in e[i - 1], a \in A(i) : w = v \o a
    BY <2>a DEF Joined
  <2>3. PICK g : Way(g, i - 1, v)
    BY <1>8, <2>2
  <2> DEFINE h == [j \in 0..i |-> IF j = i THEN w ELSE g[j]]
  <2>4. \A j \in 0..i : j # i => j \in 0..(i - 1)
    BY <2>1
  <2>5. w \in Seq(X)
    BY <1>3, <2>1
  <2>6. h \in [0..i -> Seq(X)] /\ h[0] = <<>> /\ h[i] = w
    BY <2>1, <2>3, <2>4, <2>5
  <2>7. ASSUME NEW j \in 1..i PROVE \E b \in A(j) : h[j] = h[j - 1] \o b
    <3>1. j \in 0..i /\ j - 1 \in 0..i /\ j - 1 # i /\ h[j - 1] = g[j - 1]
      BY <2>1
    <3>2. CASE j = i
      BY <2>2, <2>3, <2>6, <3>1, <3>2
    <3>3. CASE j # i
      <4>1. j \in 1..(i - 1) /\ h[j] = g[j]
        BY <2>1, <3>1, <3>3
      <4> QED
        BY <2>3, <3>1, <4>1
    <3> QED
      BY <3>2, <3>3
  <2> HIDE DEF h
  <2> QED
    BY <2>6, <2>7
<1>9. ASSUME NEW w \in e[n] PROVE \E c \in Choices(parts) : Glob!FlattenSeq(c) = w
  <2>1. n \in T
    <3> HIDE DEF T
    <3>1. \A i \in 0..n : i \in T
      BY <1>1, <1>7, <1>8, CountUp
    <3> QED
      BY <1>1, <3>1
  <2>2. PICK h : Way(h, n, w)
    BY <1>9, <2>1
  <2> DEFINE c == [p \in 1..n |-> CHOOSE a \in A(p) : h[p] = h[p - 1] \o a]
  <2>3. \A p \in 1..n : c[p] \in A(p) /\ h[p] = h[p - 1] \o c[p]
    BY <2>2
  <2>4. c \in Choices(parts)
    <3> DEFINE F(p) == CHOOSE a \in A(p) : h[p] = h[p - 1] \o a
    <3>a. c = [p \in 1..n |-> F(p)]
      OBVIOUS
    <3> HIDE DEF c, F
    <3>1. c = [p \in 1..n |-> c[p]]
      BY <3>a
    <3>2. \A p \in 1..n : c[p] \in UNION {A(q) : q \in 1..n}
      BY <2>3
    <3>3. c \in [1..n -> UNION {A(q) : q \in 1..n}]
      BY <3>1, <3>2
    <3> QED
      BY <1>4, <2>3, <3>3
  <2> HIDE DEF c
  <2>a. c \in Seq(Seq(X)) /\ c # <<>> /\ Len(c) = n
    BY <1>5, <2>4
  <2>5. PICK f \in [1..n -> Seq(X)] :
              /\ f[1] = c[1]
              /\ \A i \in 2..n : f[i] = f[i - 1] \o c[i]
              /\ Glob!FlattenSeq(c) = f[n]
    <3>1. \E f \in [1..Len(c) -> Seq(X)] :
              /\ f[1] = c[1]
              /\ \A i \in 2..Len(c) : f[i] = f[i - 1] \o c[i]
              /\ Glob!FlattenSeq(c) = f[Len(c)]
      BY <2>a, FlattenIs
    <3> QED
      BY <2>a, <3>1
  <2> DEFINE U == {i \in 0..n : i > 0 => f[i] = h[i]}
  <2>6. 0 \in U
    BY <1>1
  <2>7. ASSUME NEW i \in 1..n, i - 1 \in U PROVE i \in U
    <3>1. i \in 0..n /\ h[i] = h[i - 1] \o c[i]
      <4>1. i \in 0..n
        BY <1>1
      <4>2. h[i] = h[i - 1] \o c[i]
        BY <2>3
      <4> QED
        BY <4>1, <4>2
    <3>2. CASE i = 1
      <4>1. h[i - 1] = <<>> /\ c[i] \in Seq(X) /\ f[i] = c[i]
        <5>1. i - 1 = 0 /\ h[0] = <<>> /\ f[1] = c[1]
          BY <2>2, <2>5, <3>2
        <5>2. c[i] \in A(i) /\ A(i) \subseteq Seq(X)
          BY <1>2, <2>3
        <5> QED
          BY <3>2, <5>1, <5>2
      <4> QED
        BY <3>1, <4>1
    <3>3. CASE i # 1
      <4>1. i \in 2..n /\ i - 1 > 0
        BY <1>1, <3>3
      <4> QED
        BY <2>5, <2>7, <3>1, <4>1
    <3> QED
      BY <3>2, <3>3
  <2>8. \A i \in 0..n : i \in U
    <3> HIDE DEF U
    <3> QED
      BY <1>1, <2>6, <2>7, CountUp
  <2> QED
    BY <1>1, <2>2, <2>4, <2>5, <2>8
<1> QED
  BY <1>3, <1>6, <1>9

LEMMA SegmentMatchesSpells ==
    ASSUME NEW parts \in Seq(Seq(Seq(GlobTokens))), parts # Glob!Globstar, NEW text \in Seq(Codes)
    PROVE  Glob!SegmentMatches(Glob!CompileSegment(parts), text) <=> Glob!SegmentSpells(parts, text)
<1>1. parts # <<>>
  BY DEF Glob!Globstar
<1>2. Glob!CompileSegment(parts).alternatives = Glob!ExpandBraces(parts)
  BY DEF Glob!CompileSegment
<1>3. Glob!SegmentMatches(Glob!CompileSegment(parts), text)
      <=> \E tokens \in Glob!ExpandBraces(parts) : Glob!TokensMatch(tokens, text)
  BY <1>2 DEF Glob!SegmentMatches
<1>4. Glob!ExpandBraces(parts) \subseteq Seq(GlobTokens)
  <2>1. PICK e \in [0..Len(parts) -> SUBSET Seq(GlobTokens)] : Glob!ExpandBraces(parts) = e[Len(parts)]
    BY ExpandIs
  <2>2. Len(parts) \in 0..Len(parts)
    BY Len(parts) \in Nat
  <2> QED
    BY <2>1, <2>2
<1>5. Glob!SegmentSpells(parts, text)
      <=> \E choice \in Choices(parts) : Glob!Spells(Glob!FlattenSeq(choice), text)
  BY DEF Glob!SegmentSpells, Choices
<1>6. \A tokens \in Glob!ExpandBraces(parts) : Glob!TokensMatch(tokens, text) <=> Glob!Spells(tokens, text)
  BY <1>4, TokensMatchSpells
<1>7. \A tokens : tokens \in Glob!ExpandBraces(parts)
                  <=> \E choice \in Choices(parts) : Glob!FlattenSeq(choice) = tokens
  BY <1>1, ExpandedAreChosen
<1> QED
  BY <1>3, <1>5, <1>6, <1>7

(* The rows of the table: the first segments match the first parts where     *)
(* these can be cut so that each segment gets what it takes.                 *)
CompiledSegments == [globstar : BOOLEAN, wildcard : BOOLEAN, alternatives : SUBSET Seq(GlobTokens)]
SegmentCuts(segments, parts) ==
    {x \in (1..Len(segments)) \X Nat \X Nat :
        /\ x[3] <= Len(parts)
        /\ \/ segments[x[1]].globstar /\ x[2] <= x[3]
           \/ /\ ~ segments[x[1]].globstar
              /\ x[3] = x[2] + 1 /\ Glob!SegmentMatches(segments[x[1]], parts[x[3]])}
CutTo(segments, parts, i, p) == Cuttable(SegmentCuts(segments, parts), 0, i, 0, p)

LEMMA RowIs ==
    ASSUME NEW segments \in Seq(CompiledSegments), NEW reached \in [0..Len(segments) -> BOOLEAN], NEW part
    PROVE  LET row == Glob!Row(segments, reached, part)
           IN  /\ row \in [0..Len(segments) -> BOOLEAN]
               /\ ~ row[0]
               /\ \A i \in 1..Len(segments) :
                     /\ segments[i].globstar => (row[i] <=> row[i - 1] \/ reached[i])
                     /\ ~ segments[i].globstar =>
                           (row[i] <=> reached[i - 1] /\ Glob!SegmentMatches(segments[i], part))
<1> DEFINE n == Len(segments)
           Body(i, v) == i > 0 /\ IF segments[i].globstar THEN v \/ reached[i]
                                  ELSE reached[i - 1] /\ Glob!SegmentMatches(segments[i], part)
           step == [x \in Nat \X BOOLEAN |-> Body(x[1], x[2])]
           Made(f) == f = [i \in 0..n |-> i > 0 /\ IF segments[i].globstar THEN f[i - 1] \/ reached[i]
                                                   ELSE reached[i - 1] /\ Glob!SegmentMatches(segments[i], part)]
           row == Glob!Row(segments, reached, part)
<1>1. row = CHOOSE f : Made(f)
  BY DEF Glob!Row
<1>2. n \in Nat /\ FALSE \in BOOLEAN
  OBVIOUS
<1>3. \A i, v : Body(i, v) \in BOOLEAN
  OBVIOUS
<1> HIDE DEF n
<1>4. step \in [Nat \X BOOLEAN -> BOOLEAN] /\ \A i \in Nat, v \in BOOLEAN : step[<<i, v>>] = Body(i, v)
  <2> HIDE DEF Body
  <2> QED
    BY <1>3
<1> HIDE DEF step
<1>5. PICK g \in [0..n -> BOOLEAN] : IsRecursive(g, FALSE, step, n)
  BY <1>2, <1>4, Recursion
<1>6. \A i \in 0..n : g[i] = Body(i, g[i - 1])
  <2> SUFFICES ASSUME NEW i \in 0..n PROVE g[i] = Body(i, g[i - 1])
    OBVIOUS
  <2>1. g[i] = IF i = 0 THEN FALSE ELSE step[<<i, g[i - 1]>>]
    <3> HIDE DEF Body
    <3> QED
      BY <1>5 DEF IsRecursive
  <2>2. CASE i = 0
    <3>1. g[i] = FALSE
      BY <2>1, <2>2
    <3>2. Body(i, g[i - 1]) = FALSE
      <4>1. ~ (i > 0)
        BY <2>2
      <4> QED
        BY <4>1
    <3> HIDE DEF Body
    <3> QED
      BY <3>1, <3>2
  <2>3. CASE i # 0
    <3> HIDE DEF Body
    <3>1. i \in Nat /\ i - 1 \in 0..n
      BY <1>2, <2>3
    <3>2. g[i - 1] \in BOOLEAN
      BY <1>5, <3>1
    <3> QED
      BY <1>4, <2>1, <2>3, <3>1, <3>2
  <2> QED
    BY <2>2, <2>3
<1>7. Made(g)
  BY <1>5, <1>6, Zenon
<1>8. Made(row)
  <2> HIDE DEF Made, row
  <2> QED
    BY <1>1, <1>7
<1>9. row = [i \in 0..n |-> Body(i, row[i - 1])]
  <2> HIDE DEF row
  <2> QED
    BY <1>8, Zenon
<1> HIDE DEF Made, row
<1>10. row \in [0..n -> BOOLEAN] /\ \A i \in 0..n : row[i] = Body(i, row[i - 1])
  <2> HIDE DEF Body
  <2>1. \A i \in 0..n : row[i] = Body(i, row[i - 1])
    BY <1>9
  <2> QED
    BY <1>3, <1>9, <2>1
<1>11. ~ row[0]
  <2>1. 0 \in 0..n /\ ~ (0 > 0)
    BY <1>2
  <2> QED
    BY <1>10, <2>1
<1>12. ASSUME NEW i \in 1..n
       PROVE  /\ segments[i].globstar => (row[i] <=> row[i - 1] \/ reached[i])
              /\ ~ segments[i].globstar =>
                    (row[i] <=> reached[i - 1] /\ Glob!SegmentMatches(segments[i], part))
  <2>1. i \in 0..n /\ i > 0
    BY <1>2
  <2>2. row[i] = Body(i, row[i - 1])
    <3> HIDE DEF Body
    <3> QED
      BY <1>10, <2>1
  <2> QED
    BY <2>1, <2>2
<1> QED
  BY <1>10, <1>11, <1>12 DEF n, row

LEMMA CutToIs ==
    ASSUME NEW segments \in Seq(CompiledSegments), NEW parts \in Seq(Seq(Codes)),
           NEW i \in 0..Len(segments), NEW p \in 0..Len(parts)
    PROVE  /\ i = 0 => (CutTo(segments, parts, i, p) <=> p = 0)
           /\ i > 0 /\ segments[i].globstar =>
                (CutTo(segments, parts, i, p)
                 <=> \/ CutTo(segments, parts, i - 1, p)
                     \/ p > 0 /\ CutTo(segments, parts, i, p - 1))
           /\ i > 0 /\ ~ segments[i].globstar =>
                (CutTo(segments, parts, i, p)
                 <=> /\ p > 0 /\ CutTo(segments, parts, i - 1, p - 1)
                     /\ Glob!SegmentMatches(segments[i], parts[p]))
<1> DEFINE ok == SegmentCuts(segments, parts)
           R(j, q) == CutTo(segments, parts, j, q)
<1>1. Len(segments) \in Nat /\ Len(parts) \in Nat /\ i \in Nat /\ p \in Nat /\ p <= Len(parts)
  OBVIOUS
<1>2. \A j, q : R(j, q) <=> Cuttable(ok, 0, j, 0, q)
  BY DEF CutTo
<1>3. ASSUME i > 0, NEW r \in Nat, NEW q \in Nat, q <= Len(parts)
      PROVE  <<i, r, q>> \in ok
             <=> \/ segments[i].globstar /\ r <= q
                 \/ ~ segments[i].globstar /\ q = r + 1 /\ Glob!SegmentMatches(segments[i], parts[q])
  <2>1. i \in 1..Len(segments)
    BY <1>1, <1>3
  <2> QED
    BY <1>3, <2>1 DEF SegmentCuts
<1> HIDE DEF ok, R
<1>4. i = 0 => (R(i, p) <=> p = 0)
  <2>1. Cuttable(ok, 0, 0, 0, p) <=> 0 = p
    BY CutNothing
  <2> QED
    BY <1>2, <2>1
<1>5. ASSUME i > 0, NEW q \in Nat, q <= Len(parts)
      PROVE  R(i, q) <=> \E r \in Nat : R(i - 1, r) /\ <<i, r, q>> \in ok
  BY <1>1, <1>2, <1>5, CutLast
<1>6. ASSUME i > 0, segments[i].globstar
      PROVE  R(i, p) <=> R(i - 1, p) \/ (p > 0 /\ R(i, p - 1))
  <2>1. \A q \in Nat : q <= Len(parts) => (R(i, q) <=> \E r \in Nat : R(i - 1, r) /\ r <= q)
    BY <1>3, <1>5, <1>6
  <2>2. R(i, p) <=> \E r \in Nat : R(i - 1, r) /\ r <= p
    BY <1>1, <2>1
  <2>3. p > 0 => (R(i, p - 1) <=> \E r \in Nat : R(i - 1, r) /\ r <= p - 1)
    <3>1. p > 0 => p - 1 \in Nat /\ p - 1 <= Len(parts)
      BY <1>1
    <3> QED
      BY <2>1, <3>1
  <2>4. \A r \in Nat : r <= p <=> r = p \/ (p > 0 /\ r <= p - 1)
    BY <1>1
  <2> QED
    BY <1>1, <2>2, <2>3, <2>4
<1>7. ASSUME i > 0, ~ segments[i].globstar
      PROVE  R(i, p) <=> p > 0 /\ R(i - 1, p - 1) /\ Glob!SegmentMatches(segments[i], parts[p])
  <2>1. R(i, p) <=> \E r \in Nat : R(i - 1, r) /\ <<i, r, p>> \in ok
    BY <1>1, <1>5, <1>7
  <2>2. \A r \in Nat : <<i, r, p>> \in ok <=> p = r + 1 /\ Glob!SegmentMatches(segments[i], parts[p])
    BY <1>1, <1>3, <1>7
  <2>3. \A r \in Nat : p = r + 1 <=> p > 0 /\ r = p - 1
    BY <1>1
  <2>4. p > 0 => p - 1 \in Nat
    BY <1>1
  <2> QED
    BY <2>1, <2>2, <2>3, <2>4
<1> QED
  BY <1>4, <1>6, <1>7 DEF R

LEMMA SegmentsMatchIs ==
    ASSUME NEW segments \in Seq(CompiledSegments), NEW parts \in Seq(Seq(Codes))
    PROVE  Glob!SegmentsMatch(segments, parts) <=> CutTo(segments, parts, Len(segments), Len(parts))
<1> DEFINE n == Len(segments)
           m == Len(parts)
           V == [0..n -> BOOLEAN]
           First == Glob!FirstRow(segments)
           Step(v, p) == Glob!Row(segments, v, parts[p])
           step == [x \in Nat \X V |-> Step(x[2], x[1])]
           Made(f) == f = [p \in 0..m |-> IF p = 0 THEN Glob!FirstRow(segments)
                                          ELSE Glob!Row(segments, f[p - 1], parts[p])]
           R(i, p) == CutTo(segments, parts, i, p)
<1>1. Glob!SegmentsMatch(segments, parts) = (CHOOSE f : Made(f))[m][n]
  BY DEF Glob!SegmentsMatch
<1>2. n \in Nat /\ m \in Nat
  OBVIOUS
<1>3. First \in V /\ \A i \in 0..n : First[i] <=> \A j \in 1..i : segments[j].globstar
  BY DEF Glob!FirstRow
<1>4. ASSUME NEW v \in V, NEW p PROVE Step(v, p) \in V
  BY RowIs
<1>5. ASSUME NEW v \in V, NEW p
      PROVE  /\ ~ Step(v, p)[0]
             /\ \A i \in 1..n :
                     /\ segments[i].globstar => (Step(v, p)[i] <=> Step(v, p)[i - 1] \/ v[i])
                     /\ ~ segments[i].globstar =>
                           (Step(v, p)[i] <=> v[i - 1] /\ Glob!SegmentMatches(segments[i], parts[p]))
  BY RowIs
<1>6. ASSUME NEW i \in 0..n, NEW p \in 0..m
      PROVE  /\ i = 0 => (R(i, p) <=> p = 0)
             /\ i > 0 /\ segments[i].globstar => (R(i, p) <=> R(i - 1, p) \/ (p > 0 /\ R(i, p - 1)))
             /\ i > 0 /\ ~ segments[i].globstar =>
                  (R(i, p) <=> p > 0 /\ R(i - 1, p - 1) /\ Glob!SegmentMatches(segments[i], parts[p]))
  BY CutToIs
<1> HIDE DEF n, m, V, First
<1>7. step \in [Nat \X V -> V] /\ \A p \in Nat, v \in V : step[<<p, v>>] = Step(v, p)
  <2> HIDE DEF Step
  <2> QED
    BY <1>4
<1> HIDE DEF step
<1>8. PICK g \in [0..m -> V] : IsRecursive(g, First, step, m)
  BY <1>2, <1>3, <1>7, Recursion
<1>9. \A p \in 0..m : g[p] = IF p = 0 THEN First ELSE Glob!Row(segments, g[p - 1], parts[p])
  <2> SUFFICES ASSUME NEW p \in 0..m
               PROVE  g[p] = IF p = 0 THEN First ELSE Glob!Row(segments, g[p - 1], parts[p])
    OBVIOUS
  <2>1. p # 0 => p \in Nat /\ g[p - 1] \in V
    BY <1>2, <1>8
  <2>2. g[p] = IF p = 0 THEN First ELSE Step(g[p - 1], p)
    <3> HIDE DEF Step
    <3> QED
      BY <1>7, <1>8, <2>1 DEF IsRecursive
  <2> QED
    BY <2>2
<1>10. Made(g)
  <2>1. \A p \in 0..m : g[p] = IF p = 0 THEN Glob!FirstRow(segments) ELSE Glob!Row(segments, g[p - 1], parts[p])
    BY <1>9 DEF First
  <2> QED
    BY <1>8, <2>1, Zenon
<1>11. PICK f : Made(f) /\ Glob!SegmentsMatch(segments, parts) = f[m][n]
  BY <1>1, <1>10
<1>12. \A p \in 0..m : f[p] = IF p = 0 THEN First ELSE Step(f[p - 1], p)
  BY <1>11 DEF First
<1> HIDE DEF Made, Step, R
<1> DEFINE Holds(p) == f[p] \in V /\ \A i \in 0..n : f[p][i] <=> R(i, p)
           T == {p \in 0..m : Holds(p)}
<1>13. 0 \in T
  <2>1. 0 \in 0..m /\ f[0] = First
    BY <1>2, <1>12
  <2> DEFINE U == {i \in 0..n : First[i] <=> R(i, 0)}
  <2>2. 0 \in U
    <3>1. 0 \in 0..n /\ \A j \in 1..0 : FALSE
      BY <1>2
    <3>2. First[0]
      BY <1>3, <3>1
    <3>3. R(0, 0)
      BY <1>6, <2>1, <3>1
    <3> QED
      BY <3>1, <3>2, <3>3
  <2>3. ASSUME NEW i \in 1..n, i - 1 \in U PROVE i \in U
    <3>1. i \in 0..n /\ i - 1 \in 0..n /\ i > 0 /\ ~ (0 > 0)
      BY <1>2
    <3>2. \A j \in 1..i : j = i \/ j \in 1..(i - 1)
      BY <3>1
    <3>3. i \in 1..i /\ \A j \in 1..(i - 1) : j \in 1..i
      BY <3>1
    <3>4. First[i] <=> First[i - 1] /\ segments[i].globstar
      <4>1. First[i] <=> \A j \in 1..i : segments[j].globstar
        BY <1>3, <3>1
      <4>2. First[i - 1] <=> \A j \in 1..(i - 1) : segments[j].globstar
        BY <1>3, <3>1
      <4> QED
        BY <3>2, <3>3, <4>1, <4>2
    <3>5. R(i, 0) <=> R(i - 1, 0) /\ segments[i].globstar
      BY <1>6, <2>1, <3>1
    <3> QED
      BY <2>3, <3>1, <3>4, <3>5
  <2>4. \A i \in 0..n : i \in U
    <3> HIDE DEF U
    <3> QED
      BY <1>2, <2>2, <2>3, CountUp
  <2> QED
    BY <1>3, <2>1, <2>4
<1>14. ASSUME NEW p \in 1..m, p - 1 \in T PROVE p \in T
  <2>1. p \in 0..m /\ p - 1 \in 0..m /\ p > 0 /\ p # 0
    BY <1>2
  <2> DEFINE v == f[p - 1]
             w == Step(v, p)
  <2>2. f[p] = w
    BY <1>12, <2>1
  <2>3. v \in V /\ \A i \in 0..n : v[i] <=> R(i, p - 1)
    BY <1>14
  <2>4. w \in V
    BY <1>4, <2>3
  <2>5. /\ ~ w[0]
        /\ \A i \in 1..n :
                /\ segments[i].globstar => (w[i] <=> w[i - 1] \/ v[i])
                /\ ~ segments[i].globstar => (w[i] <=> v[i - 1] /\ Glob!SegmentMatches(segments[i], parts[p]))
    BY <1>5, <2>3
  <2> HIDE DEF v, w
  <2> DEFINE U == {i \in 0..n : w[i] <=> R(i, p)}
  <2>6. 0 \in U
    <3>1. 0 \in 0..n
      BY <1>2
    <3>2. ~ R(0, p)
      BY <1>6, <2>1, <3>1
    <3> QED
      BY <2>5, <3>1, <3>2
  <2>7. ASSUME NEW i \in 1..n, i - 1 \in U PROVE i \in U
    <3>1. i \in 0..n /\ i - 1 \in 0..n /\ i > 0
      BY <1>2
    <3>2. w[i - 1] <=> R(i - 1, p)
      BY <2>7
    <3>3. (v[i] <=> R(i, p - 1)) /\ (v[i - 1] <=> R(i - 1, p - 1))
      BY <2>3, <3>1
    <3>4. CASE segments[i].globstar
      <4>1. R(i, p) <=> R(i - 1, p) \/ R(i, p - 1)
        BY <1>6, <2>1, <3>1, <3>4
      <4>2. w[i] <=> w[i - 1] \/ v[i]
        BY <2>5, <3>4
      <4> QED
        BY <3>1, <3>2, <3>3, <4>1, <4>2
    <3>5. CASE ~ segments[i].globstar
      <4>1. R(i, p) <=> R(i - 1, p - 1) /\ Glob!SegmentMatches(segments[i], parts[p])
        BY <1>6, <2>1, <3>1, <3>5
      <4>2. w[i] <=> v[i - 1] /\ Glob!SegmentMatches(segments[i], parts[p])
        BY <2>5, <3>5
      <4> QED
        BY <3>1, <3>3, <4>1, <4>2
    <3> QED
      BY <3>4, <3>5
  <2>8. \A i \in 0..n : i \in U
    <3> HIDE DEF U
    <3> QED
      BY <1>2, <2>6, <2>7, CountUp
  <2> QED
    BY <2>1, <2>2, <2>4, <2>8
<1>15. Holds(m)
  <2> HIDE DEF T, Holds
  <2>1. \A p \in 0..m : p \in T
    BY <1>2, <1>13, <1>14, CountUp
  <2>2. m \in T
    BY <1>2, <2>1
  <2> QED
    BY <2>2 DEF T
<1>16. f[m][n] <=> R(n, m)
  BY <1>2, <1>15
<1> QED
  BY <1>11, <1>16 DEF R, n, m

(* A pattern and a path.                                                     *)
Patterned == Seq(Seq(Seq(Seq(GlobTokens))))

\* A pattern that is collapsed has no two ** side by side.
LEMMA CollapseIs ==
    ASSUME NEW X, NEW pattern \in Seq(X)
    PROVE  LET raw == Glob!Collapse(pattern)
           IN  /\ raw \in Seq(X)
               /\ \A i \in 2..Len(raw) : raw[i] = Glob!Globstar => raw[i - 1] # Glob!Globstar
<1> DEFINE n == Len(pattern)
           V == Seq(X)
           G == Glob!Globstar
           Step(v, i) == IF i > 1 /\ pattern[i] = G /\ pattern[i - 1] = G THEN v ELSE Append(v, pattern[i])
           step == [x \in Nat \X V |-> IF x[1] \in 1..n THEN Step(x[2], x[1]) ELSE x[2]]
           Made(f) == f = [i \in 0..n |->
                             IF i = 0 THEN <<>>
                             ELSE IF i > 1 /\ pattern[i] = Glob!Globstar /\ pattern[i - 1] = Glob!Globstar THEN f[i - 1]
                             ELSE Append(f[i - 1], pattern[i])]
           Apart(v) == \A i \in 2..Len(v) : v[i] = G => v[i - 1] # G
<1>1. Glob!Collapse(pattern) = (CHOOSE f : Made(f))[n]
  BY DEF Glob!Collapse
<1>2. n \in Nat /\ \A i \in 1..n : pattern[i] \in X
  OBVIOUS
<1>3. ASSUME NEW i \in 1..n, NEW v \in V PROVE Step(v, i) \in V
  BY <1>2
<1>4. <<>> \in V
  OBVIOUS
<1> HIDE DEF n, V, G
<1>5. step \in [Nat \X V -> V] /\ \A i \in 1..n, v \in V : step[<<i, v>>] = Step(v, i)
  <2> HIDE DEF Step
  <2> QED
    BY <1>2, <1>3
<1> HIDE DEF step
<1>6. PICK g \in [0..n -> V] : IsRecursive(g, <<>>, step, n)
  BY <1>2, <1>4, <1>5, Recursion
<1>7. \A i \in 0..n : g[i] = IF i = 0 THEN <<>> ELSE Step(g[i - 1], i)
  <2> SUFFICES ASSUME NEW i \in 0..n PROVE g[i] = IF i = 0 THEN <<>> ELSE Step(g[i - 1], i)
    OBVIOUS
  <2> HIDE DEF Step
  <2>1. i # 0 => i \in 1..n /\ g[i - 1] \in V
    BY <1>2, <1>6
  <2> QED
    BY <1>5, <1>6, <2>1 DEF IsRecursive
<1>8. Made(g)
  <2>1. \A i \in 0..n : g[i] = IF i = 0 THEN <<>>
                               ELSE IF i > 1 /\ pattern[i] = Glob!Globstar /\ pattern[i - 1] = Glob!Globstar THEN g[i - 1]
                               ELSE Append(g[i - 1], pattern[i])
    BY <1>7 DEF G
  <2> QED
    BY <1>6, <2>1, Zenon
<1>9. PICK f : Made(f) /\ Glob!Collapse(pattern) = f[n]
  BY <1>1, <1>8
<1>10. \A i \in 0..n : f[i] = IF i = 0 THEN <<>> ELSE Step(f[i - 1], i)
  <2>1. \A i \in 0..n : f[i] = IF i = 0 THEN <<>>
                               ELSE IF i > 1 /\ pattern[i] = Glob!Globstar /\ pattern[i - 1] = Glob!Globstar THEN f[i - 1]
                               ELSE Append(f[i - 1], pattern[i])
    BY <1>9
  <2> QED
    BY <2>1 DEF G
<1> HIDE DEF Made
<1> DEFINE Holds(i) == /\ f[i] \in V /\ Apart(f[i])
                       /\ i > 0 => Len(f[i]) > 0 /\ f[i][Len(f[i])] = pattern[i]
           T == {i \in 0..n : Holds(i)}
<1>11. 0 \in T
  <2>1. 0 \in 0..n
    BY <1>2
  <2>2. f[0] = <<>>
    <3> HIDE DEF Step
    <3> QED
      BY <1>10, <2>1
  <2>3. Apart(<<>>)
    OBVIOUS
  <2> HIDE DEF Apart
  <2> QED
    BY <1>4, <2>1, <2>2, <2>3
<1>12. ASSUME NEW i \in 1..n, i - 1 \in T PROVE i \in T
  <2>1. i \in 0..n /\ i # 0 /\ i > 0 /\ (i > 1 => i - 1 > 0) /\ (i # 1 => i > 1)
    BY <1>2
  <2> DEFINE v == f[i - 1]
  <2>2. v \in V /\ Apart(v) /\ (i > 1 => Len(v) > 0 /\ v[Len(v)] = pattern[i - 1])
    BY <1>12, <2>1
  <2>3. f[i] = Step(v, i)
    <3> HIDE DEF Step
    <3> QED
      BY <1>10, <2>1
  <2> HIDE DEF v
  <2>4. CASE i > 1 /\ pattern[i] = G /\ pattern[i - 1] = G
    <3>1. f[i] = v
      BY <2>3, <2>4
    <3> HIDE DEF Apart
    <3> QED
      BY <2>1, <2>2, <2>4, <3>1
  <2>5. CASE ~ (i > 1 /\ pattern[i] = G /\ pattern[i - 1] = G)
    <3>1. f[i] = Append(v, pattern[i]) /\ pattern[i] \in X
      BY <1>2, <2>3, <2>5
    <3> DEFINE w == Append(v, pattern[i])
    <3>2. w \in V /\ Len(w) = Len(v) + 1 /\ w[Len(v) + 1] = pattern[i] /\ Len(v) \in Nat
          /\ \A j \in 1..Len(v) : w[j] = v[j]
      BY <2>2, <3>1 DEF V
    <3> HIDE DEF w
    <3>3. ASSUME NEW j \in 2..Len(w), w[j] = G PROVE w[j - 1] # G
      <4>1. CASE j \in 2..Len(v)
        <5>1. j \in 1..Len(v) /\ j - 1 \in 1..Len(v)
          BY <3>2, <4>1
        <5> QED
          BY <2>2, <3>2, <3>3, <4>1, <5>1
      <4>2. CASE j = Len(v) + 1
        <5>1. j - 1 = Len(v) /\ Len(v) > 0 /\ Len(v) \in 1..Len(v)
          BY <3>2, <3>3, <4>2
        <5>2. pattern[i] = G /\ w[j - 1] = v[Len(v)]
          BY <3>2, <3>3, <4>2, <5>1
        <5>3. i > 1
          <6>1. CASE i = 1
            <7>1. v = <<>>
              <8>1. i - 1 = 0 /\ 0 \in 0..n
                BY <1>2, <6>1
              <8> HIDE DEF Step
              <8> QED
                BY <1>10, <8>1 DEF v
            <7> QED
              BY <5>1, <7>1
          <6> QED
            BY <2>1, <6>1
        <5> QED
          BY <2>2, <2>5, <5>2, <5>3
      <4> QED
        BY <3>2, <4>1, <4>2
    <3>4. Apart(w)
      BY <3>3
    <3>5. f[i] = w
      BY <3>1 DEF w
    <3> HIDE DEF Apart
    <3>6. Len(w) > 0 /\ w[Len(w)] = pattern[i]
      BY <3>2
    <3> QED
      BY <2>1, <3>2, <3>4, <3>5, <3>6
  <2> QED
    BY <2>4, <2>5
<1>13. Holds(n)
  <2> HIDE DEF T, Holds
  <2>1. \A i \in 0..n : i \in T
    BY <1>2, <1>11, <1>12, CountUp
  <2>2. n \in T
    BY <1>2, <2>1
  <2> QED
    BY <2>2 DEF T
<1> QED
  BY <1>9, <1>13 DEF V, G

LEMMA CompiledIs ==
    ASSUME NEW raw \in Patterned
    PROVE  LET segments == Glob!Compiled(raw)
           IN  /\ segments \in Seq(CompiledSegments) /\ Len(segments) = Len(raw)
               /\ \A i \in 1..Len(raw) :
                     /\ segments[i] = Glob!CompileSegment(raw[i])
                     /\ segments[i].globstar <=> raw[i] = Glob!Globstar
<1> DEFINE n == Len(raw)
           segments == Glob!Compiled(raw)
<1>1. n \in Nat /\ DOMAIN raw = 1..n
  BY DEF Patterned
<1>2. ASSUME NEW i \in 1..n
      PROVE  /\ Glob!CompileSegment(raw[i]) \in CompiledSegments
             /\ Glob!CompileSegment(raw[i]).globstar <=> raw[i] = Glob!Globstar
  <2> DEFINE parts == raw[i]
  <2>1. parts \in Seq(Seq(Seq(GlobTokens)))
    BY DEF Patterned
  <2> HIDE DEF parts
  <2>2. CASE parts = Glob!Globstar
    <3>1. Glob!CompileSegment(parts) = [globstar |-> TRUE, wildcard |-> TRUE, alternatives |-> {}]
      BY <2>2 DEF Glob!CompileSegment
    <3> QED
      BY <2>2, <3>1 DEF CompiledSegments, parts
  <2>3. CASE parts # Glob!Globstar
    <3> DEFINE wild == \E tokens \in Glob!ExpandBraces(parts) : Glob!Wildcard(tokens)
    <3>1. Glob!CompileSegment(parts)
          = [globstar |-> FALSE, wildcard |-> wild, alternatives |-> Glob!ExpandBraces(parts)]
      BY <2>3 DEF Glob!CompileSegment
    <3>2. wild \in BOOLEAN
      OBVIOUS
    <3> HIDE DEF wild
    <3>3. Glob!ExpandBraces(parts) \subseteq Seq(GlobTokens)
      <4>1. PICK e \in [0..Len(parts) -> SUBSET Seq(GlobTokens)] : Glob!ExpandBraces(parts) = e[Len(parts)]
        BY <2>1, ExpandIs
      <4>2. Len(parts) \in 0..Len(parts)
        BY <2>1, Len(parts) \in Nat
      <4> QED
        BY <4>1, <4>2
    <3> QED
      BY <2>3, <3>1, <3>2, <3>3 DEF CompiledSegments, parts
  <2> QED
    BY <2>2, <2>3
<1>3. segments = [i \in 1..n |-> Glob!CompileSegment(raw[i])]
  BY <1>1 DEF Glob!Compiled
<1> HIDE DEF n, segments
<1>4. segments \in Seq(CompiledSegments) /\ Len(segments) = n
  BY <1>1, <1>2, <1>3
<1>5. \A i \in 1..n : segments[i] = Glob!CompileSegment(raw[i])
  BY <1>3
<1> QED
  BY <1>2, <1>4, <1>5 DEF n, segments

\* The one segment that is put before a trailing ** matches anything.
LEMMA AnySegmentMatches ==
    ASSUME NEW text \in Seq(Codes)
    PROVE  Glob!AnySegment \in CompiledSegments /\ ~ Glob!AnySegment.globstar
           /\ Glob!SegmentMatches(Glob!AnySegment, text)
<1> DEFINE tokens == <<Glob!Star>>
<1>1. Glob!Star \in GlobTokens /\ Glob!Star.star
  BY DEF Glob!Star, GlobTokens
<1>2. tokens \in Seq(GlobTokens) /\ Len(tokens) = 1 /\ tokens[1] = Glob!Star
  BY <1>1
<1>3. Glob!AnySegment.alternatives = {tokens} /\ Glob!AnySegment.globstar = FALSE
  BY DEF Glob!AnySegment
<1>4. Glob!AnySegment = [globstar |-> FALSE, wildcard |-> TRUE, alternatives |-> {tokens}]
  BY DEF Glob!AnySegment
<1> HIDE DEF tokens
<1>5. Len(text) \in Nat
  OBVIOUS
<1>6. Rest(tokens, text, 1, Len(text))
  BY <1>2, <1>5, RestOfNothing
<1>7. Rest(tokens, text, 0, 0)
  <2>1. 0 \in Nat /\ 0 < Len(tokens) /\ 0 + 1 = 1 /\ tokens[0 + 1].star
    BY <1>1, <1>2
  <2>2. 0 <= Len(text) /\ Len(text) <= Len(text)
    BY <1>5
  <2>3. Rest(tokens, text, 0, 0)
        <=> \E r \in Nat : 0 <= r /\ r <= Len(text) /\ Rest(tokens, text, 0 + 1, r)
    BY <1>2, <2>1, RestOfSome
  <2> QED
    BY <1>5, <1>6, <2>1, <2>2, <2>3
<1>8. Glob!TokensMatch(tokens, text)
  BY <1>2, <1>7, TokensMatchSpells, SpellsAreCuts
<1> QED
  BY <1>2, <1>3, <1>4, <1>8 DEF Glob!SegmentMatches, CompiledSegments

\* What a path's names may be, in the terms of the cuts.
NameCuts(raw, parts) ==
    {x \in (1..Len(raw)) \X Nat \X Nat :
        /\ x[2] <= x[3] /\ x[3] <= Len(parts)
        /\ \/ /\ raw[x[1]] = Glob!Globstar
              /\ ~ (x[1] = Len(raw) /\ x[1] > 1 /\ raw[x[1] - 1] # Glob!Globstar
                     /\ Glob!EndsInStar(raw[x[1] - 1]) /\ x[3] = x[2])
           \/ /\ raw[x[1]] # Glob!Globstar
              /\ x[3] = x[2] + 1 /\ Glob!SegmentSpells(raw[x[1]], parts[x[3]])}

LEMMA NamesAreCuts ==
    ASSUME NEW raw \in Patterned, NEW parts \in Seq(Seq(Codes))
    PROVE  Glob!Names(raw, parts) <=> Cuttable(NameCuts(raw, parts), 0, Len(raw), 0, Len(parts))
<1> DEFINE m == Len(raw)
           n == Len(parts)
           ok == NameCuts(raw, parts)
           Takes(i, r, q) ==
               IF raw[i] = Glob!Globstar
               THEN ~ (i = m /\ i > 1 /\ raw[i - 1] # Glob!Globstar /\ Glob!EndsInStar(raw[i - 1]) /\ q = r)
               ELSE q = r + 1 /\ Glob!SegmentSpells(raw[i], parts[q])
<1>1. m \in Nat /\ n \in Nat /\ DOMAIN raw = 1..m
  BY DEF Patterned
<1>2. ASSUME NEW i \in 1..m, NEW r \in Nat, NEW q \in Nat
      PROVE  <<i, r, q>> \in ok <=> r <= q /\ q <= n /\ Takes(i, r, q)
  BY DEF NameCuts
<1>3. Glob!Names(raw, parts) <=> \E c \in Glob!Cuts(m, n) : \A i \in 1..m : Takes(i, c[i - 1], c[i])
  BY <1>1 DEF Glob!Names
<1> HIDE DEF m, n, ok, Takes
<1>4. ASSUME NEW c \in Glob!Cuts(m, n), \A i \in 1..m : Takes(i, c[i - 1], c[i])
      PROVE  Cuttable(ok, 0, m, 0, n)
  <2>1. c \in [0..m -> 0..n] /\ c[0] = 0 /\ c[m] = n /\ \A i \in 1..m : c[i - 1] <= c[i]
    BY DEF Glob!Cuts
  <2>2. c \in [0..m -> Nat]
    BY <1>1, <2>1
  <2>3. \A i \in (0 + 1)..m : <<i, c[i - 1], c[i]>> \in ok
    <3> SUFFICES ASSUME NEW i \in 1..m PROVE <<i, c[i - 1], c[i]>> \in ok
      OBVIOUS
    <3>1. c[i - 1] \in Nat /\ c[i] \in Nat /\ c[i] <= n
      BY <1>1, <2>1
    <3> QED
      BY <1>2, <1>4, <2>1, <3>1
  <2> QED
    BY <2>1, <2>2, <2>3 DEF Cuttable
<1>5. ASSUME Cuttable(ok, 0, m, 0, n)
      PROVE  \E c \in Glob!Cuts(m, n) : \A i \in 1..m : Takes(i, c[i - 1], c[i])
  <2>1. PICK c \in [0..m -> Nat] :
              c[0] = 0 /\ c[m] = n /\ \A i \in (0 + 1)..m : <<i, c[i - 1], c[i]>> \in ok
    BY <1>5 DEF Cuttable
  <2>2. ASSUME NEW i \in 1..m PROVE c[i - 1] <= c[i] /\ c[i] <= n /\ Takes(i, c[i - 1], c[i])
    <3>1. c[i - 1] \in Nat /\ c[i] \in Nat /\ i \in (0 + 1)..m
      BY <1>1, <2>1
    <3> QED
      BY <1>2, <2>1, <3>1
  <2>3. \A i \in 0..m : c[i] \in 0..n
    BY <1>1, <2>1, <2>2
  <2>4. c \in [0..m -> 0..n]
    BY <2>1, <2>3
  <2>5. c \in Glob!Cuts(m, n)
    BY <2>1, <2>2, <2>4 DEF Glob!Cuts
  <2> QED
    BY <2>2, <2>5
<1> QED
  BY <1>3, <1>4, <1>5 DEF ok, m, n

\* An item of the pattern takes the same of the path, compiled or as written,
\* where it is not the ** that takes one more.
LEMMA TakesAlike ==
    ASSUME NEW raw \in Patterned, NEW parts \in Seq(Seq(Codes)),
           NEW segments \in Seq(CompiledSegments), NEW i \in 1..Len(raw),
           i \in 1..Len(segments), segments[i] = Glob!CompileSegment(raw[i]),
           i # Len(raw) \/ ~ Glob!TakesOneMore(raw),
           NEW r \in Nat, NEW q \in Nat
    PROVE  <<i, r, q>> \in NameCuts(raw, parts) <=> <<i, r, q>> \in SegmentCuts(segments, parts)
<1>1. <<i, r, q>> \in SegmentCuts(segments, parts)
      <=> /\ q <= Len(parts)
          /\ \/ segments[i].globstar /\ r <= q
             \/ ~ segments[i].globstar /\ q = r + 1 /\ Glob!SegmentMatches(segments[i], parts[q])
  BY DEF SegmentCuts
<1>2. <<i, r, q>> \in NameCuts(raw, parts)
      <=> /\ r <= q /\ q <= Len(parts)
          /\ \/ /\ raw[i] = Glob!Globstar
                /\ ~ (i = Len(raw) /\ i > 1 /\ raw[i - 1] # Glob!Globstar
                       /\ Glob!EndsInStar(raw[i - 1]) /\ q = r)
             \/ raw[i] # Glob!Globstar /\ q = r + 1 /\ Glob!SegmentSpells(raw[i], parts[q])
  BY DEF NameCuts
<1>3. segments[i].globstar <=> raw[i] = Glob!Globstar
  BY CompiledIs
<1>4. CASE raw[i] = Glob!Globstar
  <2>1. ~ (i = Len(raw) /\ i > 1 /\ Glob!EndsInStar(raw[i - 1]))
    BY <1>4 DEF Glob!TakesOneMore, Glob!Last
  <2> QED
    BY <1>1, <1>2, <1>3, <1>4, <2>1
<1>5. CASE raw[i] # Glob!Globstar
  <2>1. ASSUME q = r + 1, q <= Len(parts)
        PROVE  Glob!SegmentMatches(segments[i], parts[q]) <=> Glob!SegmentSpells(raw[i], parts[q])
    <3>1. raw[i] \in Seq(Seq(Seq(GlobTokens)))
      BY DEF Patterned
    <3>2. q \in 1..Len(parts)
      BY <2>1
    <3>3. parts[q] \in Seq(Codes)
      BY <3>2
    <3> QED
      BY <1>5, <3>1, <3>3, SegmentMatchesSpells
  <2>2. q = r + 1 => r <= q
    OBVIOUS
  <2> QED
    BY <1>1, <1>2, <1>3, <1>5, <2>1, <2>2
<1> QED
  BY <1>4, <1>5

LEMMA TwoMore ==
    ASSUME NEW X, NEW front \in Seq(X), NEW a \in X, NEW b \in X,
           NEW s, s = Joined(front, <<a, b>>)
    PROVE  /\ s \in Seq(X) /\ Len(s) = Len(front) + 2
           /\ \A i \in 1..Len(front) : s[i] = front[i]
           /\ s[Len(front) + 1] = a /\ s[Len(front) + 2] = b
BY DEF Joined

\* parseStyleExclusion and segmentsMatch tell what a pattern names, however its
\* trailing ** is read.
LEMMA MatchIsNamed ==
    ASSUME NEW raw \in Patterned, NEW parts \in Seq(Seq(Codes)),
           \A i \in 2..Len(raw) : raw[i] = Glob!Globstar => raw[i - 1] # Glob!Globstar,
           NEW segments,
           segments = IF Glob!TakesOneMore(raw)
                      THEN Glob!Front(Glob!Compiled(raw)) \o <<Glob!AnySegment, Glob!Last(Glob!Compiled(raw))>>
                      ELSE Glob!Compiled(raw)
    PROVE  Glob!SegmentsMatch(segments, parts) <=> Glob!Names(raw, parts)
<1> DEFINE n == Len(raw)
           m == Len(parts)
           whole == Glob!Compiled(raw)
           ok == NameCuts(raw, parts)
<1>1. n \in Nat /\ m \in Nat
  BY DEF Patterned
<1>2. whole \in Seq(CompiledSegments) /\ Len(whole) = n
      /\ \A i \in 1..n : whole[i] = Glob!CompileSegment(raw[i]) /\ (whole[i].globstar <=> raw[i] = Glob!Globstar)
  BY CompiledIs
<1>3. Glob!Names(raw, parts) <=> Cuttable(ok, 0, n, 0, m)
  BY NamesAreCuts
<1>4. CASE ~ Glob!TakesOneMore(raw)
  <2>1. segments = whole
    BY <1>4
  <2> HIDE DEF whole
  <2>2. ASSUME NEW i \in (0 + 1)..n, NEW r \in Nat, NEW q \in Nat
        PROVE  <<i, r, q>> \in ok <=> <<i, r, q>> \in SegmentCuts(segments, parts)
    <3>1. i \in 1..Len(raw) /\ i \in 1..Len(segments)
      BY <1>2, <2>1
    <3> QED
      BY <1>2, <1>4, <2>1, <3>1, TakesAlike
  <2> HIDE DEF n, m, ok
  <2>3. Cuttable(ok, 0, n, 0, m) <=> Cuttable(SegmentCuts(segments, parts), 0, n, 0, m)
    BY <1>1, <2>2, CutAlike
  <2>4. Glob!SegmentsMatch(segments, parts) <=> CutTo(segments, parts, n, m)
    BY <1>2, <2>1, SegmentsMatchIs DEF m
  <2> QED
    BY <1>3, <2>3, <2>4 DEF CutTo
<1>5. CASE Glob!TakesOneMore(raw)
  <2>1. n > 1 /\ raw[n] = Glob!Globstar /\ Glob!EndsInStar(raw[n - 1])
    BY <1>5 DEF Glob!TakesOneMore, Glob!Last
  <2>2. raw[n - 1] # Glob!Globstar
    BY <1>1, <2>1
  <2>3. segments = Glob!Front(whole) \o <<Glob!AnySegment, Glob!Last(whole)>>
    BY <1>5
  <2> HIDE DEF whole
  <2>4. segments = SubSeq(whole, 1, n - 1) \o <<Glob!AnySegment, whole[n]>>
    BY <1>2, <2>3 DEF Glob!Front, Glob!Last
  <2>5. /\ segments \in Seq(CompiledSegments) /\ Len(segments) = n + 1
        /\ \A i \in 1..(n - 1) : segments[i] = whole[i]
        /\ segments[n] = Glob!AnySegment /\ segments[n + 1] = whole[n]
    <3> DEFINE front == SubSeq(whole, 1, n - 1)
    <3>1. Glob!AnySegment \in CompiledSegments
      BY AnySegmentMatches, <<>> \in Seq(Codes)
    <3>2. whole[n] \in CompiledSegments
      BY <1>1, <1>2, <2>1
    <3>3. front \in Seq(CompiledSegments) /\ Len(front) = n - 1
          /\ \A i \in 1..(n - 1) : front[i] = whole[i]
      <4> HIDE DEF n
      <4> QED
        BY <1>1, <1>2, <2>1
    <3>4. segments = Joined(front, <<Glob!AnySegment, whole[n]>>)
      BY <2>4 DEF Joined
    <3> HIDE DEF front, n
    <3>5. /\ segments \in Seq(CompiledSegments) /\ Len(segments) = Len(front) + 2
          /\ \A i \in 1..Len(front) : segments[i] = front[i]
          /\ segments[Len(front) + 1] = Glob!AnySegment /\ segments[Len(front) + 2] = whole[n]
      <4>1. front \in Seq(CompiledSegments)
        BY <3>3
      <4>2. \A s : s = Joined(front, <<Glob!AnySegment, whole[n]>>) =>
              /\ s \in Seq(CompiledSegments) /\ Len(s) = Len(front) + 2
              /\ \A i \in 1..Len(front) : s[i] = front[i]
              /\ s[Len(front) + 1] = Glob!AnySegment /\ s[Len(front) + 2] = whole[n]
        BY <3>1, <3>2, <4>1, TwoMore
      <4> QED
        BY <3>4, <4>2
    <3>6. Len(front) + 1 = n /\ Len(front) + 2 = n + 1
      BY <1>1, <3>3
    <3> QED
      BY <3>3, <3>5, <3>6
  <2>6. ~ segments[n].globstar /\ segments[n + 1].globstar
    <3>1. n \in 1..n
      BY <1>1, <2>1
    <3> QED
      BY <1>2, <2>1, <2>5, <3>1, AnySegmentMatches, <<>> \in Seq(Codes)
  <2> DEFINE sc == SegmentCuts(segments, parts)
             R(i, q) == CutTo(segments, parts, i, q)
  <2>7. ASSUME NEW q \in Nat PROVE Cuttable(ok, 0, n - 1, 0, q) <=> R(n - 1, q)
    <3>1. ASSUME NEW i \in (0 + 1)..(n - 1), NEW r \in Nat, NEW s \in Nat
          PROVE  <<i, r, s>> \in ok <=> <<i, r, s>> \in sc
      <4>1. i \in 1..Len(raw) /\ i \in 1..Len(segments) /\ i # Len(raw) /\ i \in 1..(n - 1) /\ i \in 1..n
        BY <1>1, <2>5
      <4>2. segments[i] = Glob!CompileSegment(raw[i])
        BY <1>2, <2>5, <4>1
      <4> QED
        BY <2>5, <4>1, <4>2, TakesAlike
    <3>2. n - 1 \in Nat
      BY <1>1, <2>1
    <3> HIDE DEF n, ok, sc
    <3>3. Cuttable(ok, 0, n - 1, 0, q) <=> Cuttable(sc, 0, n - 1, 0, q)
      BY <3>1, <3>2, CutAlike
    <3> QED
      BY <3>3 DEF CutTo, sc
  <2>8. ASSUME NEW p \in 0..m
        PROVE  R(n, p) <=> p > 0 /\ R(n - 1, p - 1)
    <3>1. n \in 0..Len(segments) /\ n > 0
      BY <1>1, <2>1, <2>5
    <3>2. R(n, p) <=> /\ p > 0 /\ R(n - 1, p - 1)
                      /\ Glob!SegmentMatches(segments[n], parts[p])
      BY <2>5, <2>6, <3>1, CutToIs
    <3>3. p > 0 => Glob!SegmentMatches(segments[n], parts[p])
      <4>1. p > 0 => p \in 1..m
        BY <1>1
      <4>2. p > 0 => parts[p] \in Seq(Codes)
        BY <4>1
      <4> QED
        BY <2>5, <4>2, AnySegmentMatches
    <3> QED
      BY <3>2, <3>3
  <2>9. R(n + 1, m) <=> \E r \in Nat : R(n, r) /\ r <= m
    <3>1. n + 1 \in Nat /\ 0 < n + 1 /\ (n + 1) - 1 = n /\ n + 1 \in 1..Len(segments)
      BY <1>1, <2>5
    <3>2. R(n + 1, m) <=> \E r \in Nat : Cuttable(sc, 0, (n + 1) - 1, 0, r) /\ <<n + 1, r, m>> \in sc
      <4> HIDE DEF sc, n, m
      <4> QED
        BY <1>1, <3>1, CutLast DEF CutTo, sc
    <3>3. \A r \in Nat : <<n + 1, r, m>> \in sc <=> r <= m
      BY <1>1, <2>6, <3>1 DEF SegmentCuts
    <3>4. \A r \in Nat : Cuttable(sc, 0, (n + 1) - 1, 0, r) <=> R(n, r)
      BY <3>1 DEF CutTo
    <3> HIDE DEF sc, R, n, m
    <3> QED
      BY <3>2, <3>3, <3>4
  <2>10. Cuttable(ok, 0, n, 0, m) <=> \E q \in Nat : Cuttable(ok, 0, n - 1, 0, q) /\ <<n, q, m>> \in ok
    <3> HIDE DEF ok, n, m
    <3>1. 0 \in Nat /\ 0 < n
      BY <1>1, <2>1
    <3> QED
      BY <1>1, <3>1, CutLast
  <2>11. \A q \in Nat : <<n, q, m>> \in ok <=> q < m
    <3>1. n \in 1..Len(raw)
      BY <1>1, <2>1
    <3>2. \A q \in Nat : <<n, q, m>> \in ok <=> q <= m /\ m # q
      BY <1>1, <2>1, <2>2, <3>1 DEF NameCuts
    <3> QED
      BY <1>1, <3>2
  <2>12. Glob!SegmentsMatch(segments, parts) <=> R(n + 1, m)
    BY <2>5, SegmentsMatchIs
  <2> HIDE DEF ok, sc, R, n, m
  <2>13. R(n + 1, m) <=> \E q \in Nat : R(n - 1, q) /\ q < m
    <3>1. ASSUME R(n + 1, m) PROVE \E q \in Nat : R(n - 1, q) /\ q < m
      <4>1. PICK r \in Nat : R(n, r) /\ r <= m
        BY <2>9, <3>1
      <4>2. r \in 0..m
        BY <1>1, <4>1
      <4>3. r > 0 /\ R(n - 1, r - 1)
        BY <2>8, <4>1, <4>2
      <4>4. r - 1 \in Nat /\ r - 1 < m
        BY <1>1, <4>1, <4>3
      <4> QED
        BY <4>3, <4>4
    <3>2. ASSUME NEW q \in Nat, R(n - 1, q), q < m PROVE R(n + 1, m)
      <4>1. q + 1 \in 0..m /\ q + 1 > 0 /\ (q + 1) - 1 = q /\ q + 1 \in Nat /\ q + 1 <= m
        BY <1>1, <3>2
      <4>2. R(n, q + 1)
        BY <2>8, <3>2, <4>1
      <4> QED
        BY <2>9, <4>1, <4>2
    <3> QED
      BY <3>1, <3>2
  <2>14. Cuttable(ok, 0, n, 0, m) <=> \E q \in Nat : R(n - 1, q) /\ q < m
    BY <2>7, <2>10, <2>11
  <2> QED
    BY <1>3, <2>12, <2>13, <2>14
<1> QED
  BY <1>4, <1>5

\* A pattern is written with segments of parts, these with alternatives of
\* tokens, and a path is made of texts.
GlobAssumption == Globs \subseteq Patterned /\ Paths \subseteq Seq(Seq(Codes))

GlobInv ==
    /\ glob \in Globs /\ tested \in Paths
    /\ compiled \in {<<>>, <<Glob!ParseStyleExclusion(glob)>>}
    /\ decided \in {"none", "refused", "match", "mismatch"}
    /\ decided \in {"match", "mismatch"} =>
         /\ compiled = <<Glob!ParseStyleExclusion(glob)>> /\ ~ compiled[1].problem
         /\ decided = "match" <=> (Glob!SpelledAsGlob \/ Glob!SegmentsMatch(compiled[1].segments, tested))

LEMMA GlobInvHolds == ASSUME GlobAssumption PROVE Glob!Spec => []GlobInv
<1>1. Glob!Init => GlobInv
  BY DEF Glob!Init, GlobInv
<1>2. GlobInv /\ [Glob!Next]_Glob!vars => GlobInv'
  <2> SUFFICES ASSUME GlobInv, [Glob!Next]_Glob!vars PROVE GlobInv'
    OBVIOUS
  <2>1. CASE Glob!Compile
    <3>1. \/ decided = "none" /\ decided' = "none"
          \/ decided = "refused" /\ decided' = "refused"
      <4>1. compiled = <<>> /\ decided' = decided
        BY <2>1 DEF Glob!Compile
      <4>2. \A x : <<>> # <<x>>
        OBVIOUS
      <4>3. decided \notin {"match", "mismatch"}
        BY <4>1, <4>2 DEF GlobInv
      <4> QED
        BY <4>1, <4>3 DEF GlobInv
    <3> QED
      BY <2>1, <3>1 DEF Glob!Compile, GlobInv
  <2>2. CASE Glob!Match
    <3>1. compiled = <<Glob!ParseStyleExclusion(glob)>> /\ compiled' = compiled /\ glob' = glob /\ tested' = tested
      BY <2>2 DEF Glob!Match, GlobInv
    <3>2. decided' = IF compiled[1].problem THEN "refused"
                     ELSE IF Glob!SpelledAsGlob \/ Glob!SegmentsMatch(compiled[1].segments, tested)
                     THEN "match" ELSE "mismatch"
      BY <2>2 DEF Glob!Match
    <3> QED
      BY <3>1, <3>2 DEF GlobInv, Glob!SpelledAsGlob
  <2>3. CASE UNCHANGED Glob!vars
    BY <2>3 DEF GlobInv, Glob!vars, Glob!SpelledAsGlob
  <2> QED
    BY <2>1, <2>2, <2>3 DEF Glob!Next
<1> QED
  BY <1>1, <1>2, PTL DEF Glob!Spec

(* MatchesAsWritten: a glob that the settings accept matches exactly the path *)
(* that is spelled as it and those that its grammar names, whatever          *)
(* Spelling() says, whatever globs and paths there are, although *)
(* tokensMatch goes back to the last `*' only and its loop has a bound, and   *)
(* although a trailing ** is compiled to two segments.                       *)
THEOREM MatchesAsWrittenCorrect == ASSUME GlobAssumption PROVE Glob!Spec => []MatchesAsWritten
<1>1. GlobInv => MatchesAsWritten
  <2> SUFFICES ASSUME GlobInv, decided \in {"match", "mismatch"}
               PROVE  decided = "match"
                      <=> (tested = Spelling(glob) \/ Glob!Names(Glob!Collapse(glob), tested))
    BY DEF MatchesAsWritten, Glob!MatchesAsWritten
  <2> DEFINE raw == Glob!Collapse(glob)
             parsed == Glob!ParseStyleExclusion(glob)
             both == IF Glob!TakesOneMore(raw)
                     THEN Glob!Front(Glob!Compiled(raw)) \o <<Glob!AnySegment, Glob!Last(Glob!Compiled(raw))>>
                     ELSE Glob!Compiled(raw)
  <2>1. /\ glob \in Patterned /\ tested \in Seq(Seq(Codes))
        /\ ~ parsed.problem
        /\ decided = "match" <=> (tested = Spelling(glob) \/ Glob!SegmentsMatch(parsed.segments, tested))
    BY DEF GlobInv, GlobAssumption, Glob!SpelledAsGlob
  <2>2. raw \in Patterned /\ \A i \in 2..Len(raw) : raw[i] = Glob!Globstar => raw[i - 1] # Glob!Globstar
    BY <2>1, CollapseIs DEF Patterned
  <2>3. parsed.segments = both
    <3>1. \/ parsed = Glob!Refused
          \/ parsed = [problem |-> FALSE, segments |-> both]
      BY DEF Glob!ParseStyleExclusion
    <3> HIDE DEF both, parsed
    <3>2. Glob!Refused.problem
      BY DEF Glob!Refused
    <3> QED
      BY <2>1, <3>1, <3>2
  <2> HIDE DEF parsed
  <2>4. Glob!SegmentsMatch(both, tested) <=> Glob!Names(raw, tested)
    <3> HIDE DEF raw
    <3> QED
      BY <2>1, <2>2, MatchIsNamed
  <2> HIDE DEF both
  <2> QED
    BY <2>1, <2>3, <2>4
<1> QED
  BY <1>1, GlobInvHolds, PTL
==============================================================================
