----------------------------- MODULE AssetChoice -----------------------------
(***************************************************************************)
(* Which asset of a release is downloaded, which asset holds its checksum,   *)
(* and which member of an archive is the program (internal/assetpick,        *)
(* internal/archive, cmd/upgrade.go).  An asset is the record of what the    *)
(* code sees in its name: the systems and architectures it names, its        *)
(* format, the format its file shows once it is downloaded, and the extension *)
(* that remains; where the code takes the first in the order of the API, the *)
(* model takes any.                                                          *)
(***************************************************************************)
EXTENDS Naturals, Sequences, FiniteSets, FiniteSetsExt

CONSTANTS
  MaxHeaderEntries, MaxExecCandidates,  \* budgets of an archive, in members
  MaxDeclaredBytes, MaxEntryBytes       \* and in bytes

Supported == {"bare", "tar.gz", "tar.xz", "zip", "gz", "zst"}
Archives == {"tar.gz", "tar.xz", "zip"}

\* The downloaded file has a name of its own and keeps an extension of archiveExt,
\* with which every supported format is recognized again.  Of the others some
\* stay unsupported (bz2, tar.zst); the rest become bare (7z, rar, tar, xz, dmg)
\* or a single stream.
FileFormat(a) == IF a.format \in Supported THEN a.format ELSE a.kept

\* A target is [os, arch].
Blacklisted(a, target) ==
  a.ext \in {"sum", "text", "package"} \/ (target.os = "darwin" /\ a.ext \in {"exe", "appimage"})

\* Why an asset is only a last resort.
SourceArchive(a) == a.format \in Supported \ {"bare"} /\ a.os = {} /\ a.arch = {}
Demoted(a) == a.format \notin Supported \/ SourceArchive(a) \/ a.ext = "appimage"

Fits(a, target) == target.os \in a.os /\ target.arch \in a.arch

Pool(assets, target) ==
  LET listed == {a \in assets : ~Blacklisted(a, target)}
      preferred == {a \in listed : ~Demoted(a)}
  IN IF preferred # {} THEN preferred ELSE {a \in listed : ~SourceArchive(a) /\ Fits(a, target)}

\* --asset: the names that contain the text, or do not; one that is the text wins.
\* A filter is {} or {[anti, text, within]}, within the names that contain it.
Filter(pool, filter) ==
  IF \E f \in filter : ~f.anti /\ \E a \in pool : a.name = f.text
  THEN {a \in pool : \E f \in filter : a.name = f.text}
  ELSE {a \in pool : \A f \in filter : (a.name \in f.within) # f.anti}

\* SystemDetector: the best kind of match there is.
\* Mutant: the architecture is not looked at.
DetectedBug(pool, target) ==
  LET ofSystem == {a \in pool : target.os \in a.os} IN IF ofSystem # {} THEN ofSystem ELSE pool

Detected(pool, target) ==
  LET priority == {a \in pool : target.os = "linux" /\ a.ext = "appimage"}
      matches == {a \in pool : Fits(a, target)}
      ofSystem == {a \in pool : target.os \in a.os}
  IN IF priority # {} THEN priority
     ELSE IF matches # {} THEN matches
     ELSE IF ofSystem # {} THEN ofSystem ELSE pool

Prefer(some, pool) == IF some # {} THEN some ELSE pool

\* The steps of the tiebreak, each over what the one before left.
ByArch(pool, target) ==
  IF target # [os |-> "darwin", arch |-> "arm64"] THEN pool
  ELSE IF \E a \in pool : "arm64" \in a.arch \/ a.universal
  THEN {a \in pool : "arm64" \in a.arch \/ a.universal}
  ELSE Prefer({a \in pool : "amd64" \in a.arch}, pool)
ByWidth(pool, target) ==
  IF target.arch \in {"amd64", "arm64", "riscv64"}
  THEN Prefer({a \in pool : a.arch \cap {"386", "arm"} = {}}, pool) ELSE pool
ByFormat(pool) ==
  IF \E a \in pool : a.format = "tar.gz" THEN {a \in pool : a.format = "tar.gz"}
  ELSE IF \E a \in pool : a.format = "zip" THEN {a \in pool : a.format = "zip"}
  ELSE Prefer({a \in pool : a.format = "gz"}, pool)
ByLibc(pool, target) == IF target.os = "linux" THEN Prefer({a \in pool : a.musl}, pool) ELSE pool

Tiebreak(pool, target) == ByLibc(ByFormat(ByWidth(ByArch(pool, target), target)), target)

Single(s) == \E a \in s : s = {a}

\* {} where nothing fits or several do.
Pick(assets, target, filter) ==
  LET pool == Filter(Pool(assets, target), filter)
      found == IF filter # {} /\ Single(pool) THEN pool ELSE Detected(pool, target)
      left == IF Single(found) THEN found ELSE Tiebreak(found, target)
  IN IF Single(left) THEN left ELSE {}

\* Assets that may serve as the checksums of the chosen one: of is the set of the
\* names an asset is a sidecar of, with "any" for a list of checksums.
IsSidecar(a, chosen) == chosen.name \in a.of
ChecksumAssets(chosen, assets) ==
  LET sidecars == {a \in assets : IsSidecar(a, chosen)}
  IN IF sidecars # {} THEN sidecars ELSE {a \in assets : "any" \in a.of}

-----------------------------------------------------------------------------
(* Archives: a member is [path, names, exec, dotted, type, size] *)

\* The names of a member are the base of its path, and that without ".exe".
Wanted(m, want) == want \in m.names
ExecutableLike(m) == m.exec \/ ~m.dotted

\* The index of the selected member, from the headers alone.
\* Mutant: the first of several programs is taken.
FindTargetBug(ms, want) ==
  LET regular == {i \in DOMAIN ms : ms[i].type = "file"}
      programs == {i \in regular : ExecutableLike(ms[i])}
  IN IF programs = {} THEN {} ELSE {Min(programs)}

\* Nothing is chosen from an archive with more members or larger contents.
OverBudget(ms, examined, regular) ==
  \/ Cardinality(examined) > MaxHeaderEntries
  \/ MapThenSumSet(LAMBDA i : ms[i].size, regular) > MaxDeclaredBytes

FindTarget(ms, want) ==
  LET examined == {i \in DOMAIN ms : ms[i].type # "dir"}
      regular == {i \in examined : ms[i].type = "file"}
      exact == {i \in regular : Wanted(ms[i], want)}
      programs == {i \in regular \ exact : ExecutableLike(ms[i])}
  IN IF OverBudget(ms, examined, regular) \/ Cardinality(exact) > 1 THEN {}
     ELSE IF exact # {} THEN exact
     ELSE IF Cardinality(programs) > MaxExecCandidates \/ Cardinality(programs) # 1 THEN {}
     ELSE programs

\* A second pass over a tar looks for the path, a zip has the member in hand.
Found(ms, format, t) ==
  IF format = "zip" THEN t ELSE Min({i \in DOMAIN ms : ms[i].type = "file" /\ ms[i].path = ms[t].path})

\* What ends up under the name of the tool: the member of an archive, or the one
\* stream there is, which for a bare file is the file.  Nothing larger than the
\* cap is kept.
Extract(ms, format, want) ==
  LET chosen == IF format \in Archives THEN {Found(ms, format, t) : t \in FindTarget(ms, want)}
                ELSE IF format \in Supported THEN {1} ELSE {}
  IN {i \in chosen : ms[i].size <= MaxEntryBytes}
=============================================================================
