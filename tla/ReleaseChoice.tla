---------------------------- MODULE ReleaseChoice ----------------------------
(***************************************************************************)
(* Which release an entry is upgraded to (internal/versionpolicy).  A tag is *)
(* the record of what the code sees in its name: its rank among semantic     *)
(* versions, 0 for a tag that is none; its place among the spellings of one  *)
(* version; whether it has a prerelease part, whether it is "local",         *)
(* "adopted" or "original", whether it may name a directory of the store.    *)
(***************************************************************************)
EXTENDS Naturals, Sequences, SequencesExt

Modes == {"semver", "github-latest"}
Channels == {"stable", "prerelease"}

IsSemanticTag(t) == t.rank > 0

\* Drafts are never candidates; prereleases only where the channel says so.
Open(r, channel) == ~r.draft /\ (channel = "stable" => ~r.prerelease)

Candidates(rs, channel) ==
  {r \in Range(rs) : Open(r, channel) /\ IsSemanticTag(r.tag) /\ (channel = "stable" => ~r.tag.pre)}

Above(a, b) == a.tag.rank > b.tag.rank \/ (a.tag.rank = b.tag.rank /\ a.tag.spelling < b.tag.spelling)

Highest(rs, channel) ==
  {r.tag : r \in {c \in Candidates(rs, channel) : \A d \in Candidates(rs, channel) : ~Above(d, c)}}

Verdict(v, t) == [verdict |-> v, tag |-> t]

selectSemver(current, rs, channel) ==
  IF Highest(rs, channel) = {} THEN Verdict("unsupported", current)
  ELSE LET t == CHOOSE h \in Highest(rs, channel) : TRUE
       IN Verdict(IF current.baseline THEN "outdated"
                  ELSE IF ~IsSemanticTag(current) \/ t.rank < current.rank THEN "unsupported"
                  ELSE IF t.rank = current.rank THEN "current" ELSE "outdated", t)

\* The first release of the list is the latest.
selectLegacy(current, rs, channel) ==
  LET open == {i \in DOMAIN rs : Open(rs[i], channel)}
      latest == rs[Min(open)].tag
  IN IF open = {} THEN Verdict("unsupported", current)
     ELSE Verdict(IF latest = current THEN "current" ELSE "outdated", latest)

\* A pin is asked for by its tag, and may go either way.
selectPin(pin, current, rs) ==
  Verdict(IF pin = current THEN "current"
          ELSE IF \E r \in Range(rs) : r.tag = pin /\ ~r.draft THEN "outdated" ELSE "unsupported", pin)

\* policy.pin is the set of the pinned tag.
Select(policy, current, rs) ==
  IF policy.pin # {} THEN selectPin(CHOOSE t \in policy.pin : TRUE, current, rs)
  ELSE IF policy.mode = "semver" THEN selectSemver(current, rs, policy.channel)
  ELSE selectLegacy(current, rs, policy.channel)

\* How the releases are asked for: one by its tag, the latest, or a list.
PinnedCurrent(policy, current) == policy.pin = {current}
Asks(policy) ==
  IF policy.pin # {} THEN "tag"
  ELSE IF policy.mode = "github-latest" /\ policy.channel = "stable" THEN "latest"
  ELSE "list"
=============================================================================
