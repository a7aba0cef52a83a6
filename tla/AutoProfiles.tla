---------------------------- MODULE AutoProfiles ----------------------------
(***************************************************************************)
(* What auto_profiles.py computes: the profiles a scanner's capabilities   *)
(* call for, and the merge of a set of them into a configuration file.     *)
(* A source is its identity, the slug of its name and its kind; a slug is  *)
(* the sequence of its parts, and a number added to it one part more.      *)
(* Resolutions are whole; the bounds and the step of a range, which need   *)
(* not be, are counted in halves of a dpi.                                 *)
(***************************************************************************)
EXTENDS FiniteSets, Integers, SequencesExt

CONSTANT Target      \* DEFAULT_RESOLUTION

ASSUME AutoProfilesAssumption == Target \in Nat

Default == <<"default">>
NoSource == "none"

Distance(r) == IF r < Target THEN Target - r ELSE r - Target
Clamp(r, low, high) == LET up == IF r < low THEN low ELSE r IN IF up > high THEN high ELSE up

\* A range without a usable step is continuous; the grid stops at its last point
\* within it, and a tie goes up.  What was found is then rounded to whole dpi, half
\* up, with no second look at the range.
WholeDpi(halves) == (halves + 1) \div 2
OnGrid(low, top, step) ==
    LET clamped == Clamp(2 * Target, low, top)
        below == low + ((clamped - low) \div step) * step
        above == below + step
        value == IF clamped - below >= above - clamped THEN above ELSE below
    IN  IF value > top THEN top ELSE value
SnapToTheMaximum(low, high, step) ==
    WholeDpi(IF step <= 0 THEN Clamp(2 * Target, low, high) ELSE OnGrid(low, high, step))
SnapIntoRange(low, high, step) ==
    WholeDpi(IF step <= 0 THEN Clamp(2 * Target, low, high)
             ELSE OnGrid(low, low + ((high - low) \div step) * step, step))

\* A list of resolutions outranks a range: the first of the nearest.
PickClosestResolution(resolutions, range) ==
    CASE resolutions # <<>> ->
            resolutions[CHOOSE i \in DOMAIN resolutions :
                \A j \in DOMAIN resolutions :
                    /\ Distance(resolutions[i]) <= Distance(resolutions[j])
                    /\ j < i => Distance(resolutions[i]) < Distance(resolutions[j])]
      [] resolutions = <<>> /\ range # <<>> -> SnapIntoRange(range[1], range[2], range[3])
      [] OTHER -> Target

\* The plain colour mode, else the first colour mode not degraded, else the first
\* colour mode; then grey the same way; then whatever comes first.
FirstOf(modes, wanted) ==
    LET found == SelectSeq(modes, LAMBDA m : m \in wanted)
    IN  IF found = <<>> THEN <<>> ELSE <<Head(found)>>
PickPreferredMode(modes) ==
    LET choices == FirstOf(modes, {"colour"})
                   \o FirstOf(modes, {"colour variant"})
                   \o FirstOf(modes, {"colour", "colour variant", "colour degraded"})
                   \o FirstOf(modes, {"gray"})
                   \o FirstOf(modes, {"gray degraded"})
                   \o modes \o <<"colour">>
    IN  choices[1]

\* Two sources of one slug are told apart by a number, and none takes the name of
\* the profile every plain scan uses.
ClaimSlugTwice(slug, claimed) == slug
ClaimSlug(slug, claimed) ==
    IF slug \notin claimed THEN slug
    ELSE LET free == {n \in 2..(Cardinality(claimed) + 2) : Append(slug, n) \notin claimed}
         IN  Append(slug, CHOOSE n \in free : \A m \in free : n <= m)

HasPlaten(caps) ==
    caps.platen \/ \E i \in DOMAIN caps.sources : caps.sources[i].kind = "FLATBED"

ProfileFor(source, caps, ordinal) ==
    [source |-> source.id,
     resolution |-> PickClosestResolution(caps.resolutions, caps.range),
     mode |-> PickPreferredMode(caps.modes),
     autoSourceMode |-> IF source.kind = "AUTO" /\ ~HasPlaten(caps) THEN "adf" ELSE "flatbed",
     duplex |-> IF source.kind = "FEEDER_DUPLEX" THEN "hardware" ELSE "none",
     label |-> <<source.kind, ordinal>>]
SourcelessProfile(caps) == ProfileFor([id |-> NoSource, kind |-> NoSource], caps, 1)

\* The flatbed if there is one, else the first source, is the default as well.
DefaultSource(sources) ==
    LET flatbeds == {i \in DOMAIN sources : sources[i].kind = "FLATBED"}
        candidates == IF flatbeds = {} THEN DOMAIN sources ELSE flatbeds
    IN  CHOOSE i \in candidates : \A j \in candidates : i <= j

\* The slugs the sources come to, in their order.
Slugs(sources) ==
    FoldLeft(LAMBDA slugs, source :
                Append(slugs, ClaimSlug(source.slug, {Default} \cup ToSet(slugs))),
             <<>>, sources)
Ordinal(sources, i) == Cardinality({j \in 1..i : sources[j].kind = sources[i].kind})

\* A set of profiles is the set of its named ones, a name once.
Named(name, profile) == [name |-> name, profile |-> profile]
NamesOf(set) == {entry.name : entry \in set}
EntryOf(set, name) == CHOOSE entry \in set : entry.name = name

\* A name claimed twice would keep its last source.
GenerateProfiles(caps) ==
    LET sources == caps.sources
        slugs == Slugs(sources)
        of(i) == ProfileFor(sources[i], caps, Ordinal(sources, i))
        last == {i \in DOMAIN slugs : \A j \in DOMAIN slugs : slugs[j] = slugs[i] => j <= i}
        default == IF sources = <<>> THEN SourcelessProfile(caps) ELSE of(DefaultSource(sources))
    IN  {Named(Default, default)} \cup {Named(slugs[i], of(i)) : i \in last}
-----------------------------------------------------------------------------
(* The merge.  A table of the file is a named profile and whether it says
   that auto-profiles wrote it (auto_generated = true). *)

Table(name, profile, auto) == [name |-> name, profile |-> profile, auto |-> auto]
ProfilesOf(tables) == {Named(t.name, t.profile) : t \in tables}

\* Flagged tables the scanner no longer calls for go, but nothing is judged when
\* only the default was generated, and the default itself never goes.
OrphansOfAnyHand(tables, profiles) ==
    {t \in tables : NamesOf(profiles) # {Default} /\ t.name \notin NamesOf(profiles) \cup {Default}}
Orphans(tables, profiles) ==
    {t \in tables : /\ NamesOf(profiles) # {Default} /\ t.auto
                    /\ t.name \notin NamesOf(profiles) \cup {Default}}

\* What becomes of one generated profile.
MergeOutcome(tables, p, force) ==
    CASE p.name \notin NamesOf(tables) -> "added"
      [] p.name \in NamesOf(tables) /\ ~EntryOf(tables, p.name).auto -> "not generated"
      [] p.name \in NamesOf(tables) /\ EntryOf(tables, p.name).auto /\ ~force -> "existing"
      [] OTHER -> IF EntryOf(tables, p.name).profile = p.profile THEN "unchanged" ELSE "refreshed"

Merged(tables, profiles, force) ==
    LET written == {p \in profiles : MergeOutcome(tables, p, force) \in {"added", "refreshed"}}
        kept == {t \in tables \ Orphans(tables, profiles) : t.name \notin NamesOf(written)}
    IN  kept \cup {Table(p.name, p.profile, TRUE) : p \in written}

\* ProfileWriteResult.persisted: the profiles whose table is what was generated.
Persisted(tables, profiles, force) ==
    {p \in profiles : MergeOutcome(tables, p, force) \in {"added", "refreshed", "unchanged"}}

\* _profiles_after_persist: what this run uses is what a restart would load.
ProfilesAsGenerated(loaded, generated, persisted) == generated
ProfilesAfterPersist(loaded, generated, persisted) ==
    persisted \cup {p \in loaded : p.name \notin NamesOf(persisted)}
=============================================================================
