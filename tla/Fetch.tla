-------------------------------- MODULE Fetch --------------------------------
(***************************************************************************)
(* "hukou upgrade" from the check of a tool to the new version in the store  *)
(* (internal/updatecheck, cmd/upgrade.go), while the publisher adds, deletes *)
(* and uploads again, downloads may be damaged (module Transfer), and        *)
(* another program may write to the downloaded file.  What follows, from the *)
(* store to the manifest, is modules Lineage, AtomicUpdate and Journal.      *)
(***************************************************************************)
EXTENDS ReleaseChoice, AssetChoice

CONSTANTS
  PerPage,     \* releases of a page of the list
  MaxPages,    \* pages that are asked for
  None,        \* no digest
  Damaged,     \* the content of a file that was damaged or overwritten
  NewReleases, \* what may be published
  NewData,     \* what may be uploaded again
  MaxChanges   \* bound on what others do

ASSUME FetchAssumption == {PerPage, MaxPages} \subseteq Nat \ {0} /\ MaxChanges \in Nat

\* Whatever a file holds, its SHA-256 is a digest; its members are in an order,
\* and the names of a member are part of its path.  What is not unpacked has one.
Readable(d) ==
  /\ d.id # None
  /\ d.members \in Seq(Range(d.members))
  /\ \A m, n \in Range(d.members) : m.path = n.path => m.names = n.names
Hashed(r) ==
  /\ {"tag", "draft", "prerelease", "assets"} \subseteq DOMAIN r
  /\ r.tag.rank \in Nat
  /\ \A a \in r.assets : "data" \in DOMAIN a /\ Readable(a.data)
ASSUME ContentAssumption ==
  /\ \A d \in NewData \union {Damaged} : Readable(d)
  /\ \A r \in NewReleases : Hashed(r)

VARIABLES
  command,  \* [current, policy, filter, unverified, dry, drifted, exe, target]
  host,     \* the releases, newest first: [tag, draft, prerelease, assets]; an
            \* asset has its name's features, data, digest, size and url
  pc,
  page,     \* next page to ask for
  listed,   \* releases received
  chosen,   \* {} or [tag, asset, assets]: what is to be installed
  file,     \* {} or the content of the downloaded asset
  sums,     \* {} or [asset, data]: the checksums downloaded
  sha,      \* {} or the content that was hashed
  taken,    \* {} or [data, member]: what was extracted
  out,      \* [status, verified]
  atStart,  \* history: the releases when the list was begun
  deleted,  \* history: a release has been deleted
  changes

client == <<page, listed, chosen, file, sums, sha, taken, out, atStart>>
world == <<host, deleted, changes>>
vars == <<command, world, pc, client>>

Done(status) == pc' = "done" /\ out' = [out EXCEPT !.status = status]

Init ==
  /\ host \in Seq(Range(host)) /\ \A r \in Range(host) : Hashed(r)
  /\ command.current.rank \in Nat
  /\ pc = "begin" /\ page = 1 /\ listed = <<>>
  /\ chosen = {} /\ file = {} /\ sums = {} /\ sha = {} /\ taken = {}
  /\ out = [status |-> "none", verified |-> FALSE]
  /\ atStart = {} /\ deleted = FALSE

-----------------------------------------------------------------------------
(* Check: the live file, then the release *)

Begin ==
  /\ pc = "begin"
  /\ IF command.drifted THEN Done("drifted")
     ELSE IF PinnedCurrent(command.policy, command.current) THEN Done("current")
     ELSE pc' = Asks(command.policy) /\ UNCHANGED out
  /\ atStart' = Range(host)
  /\ UNCHANGED <<command, world, page, listed, chosen, file, sums, sha, taken>>

\* List: pages of the host as it is now; too many releases are refused.
Batch == SubSeq(host, (page - 1) * PerPage + 1, Min({page * PerPage, Len(host)}))

\* Mutant: what the last page allowed brings is all there is.
ListPageBug ==
  /\ pc = "list"
  /\ listed' = listed \o Batch /\ page' = page + 1
  /\ IF Len(Batch) < PerPage \/ page = MaxPages THEN pc' = "select" ELSE UNCHANGED pc
  /\ UNCHANGED <<command, world, chosen, file, sums, sha, taken, out, atStart>>

ListPage ==
  /\ pc = "list"
  /\ listed' = listed \o Batch /\ page' = page + 1
  /\ IF Len(Batch) < PerPage THEN pc' = "select" /\ UNCHANGED out
     ELSE IF page = MaxPages THEN Done("unavailable")
     ELSE UNCHANGED <<pc, out>>
  /\ UNCHANGED <<command, world, chosen, file, sums, sha, taken, atStart>>

\* ByTag, or Latest, which the host picks: neither draft nor prerelease.
Answers ==
  {i \in DOMAIN host : IF pc = "tag" THEN command.policy.pin = {host[i].tag}
                       ELSE ~host[i].draft /\ ~host[i].prerelease}
AskOne ==
  /\ pc \in {"tag", "latest"}
  /\ IF Answers = {} THEN Done("unavailable") /\ UNCHANGED listed
     ELSE listed' = <<host[Min(Answers)]>> /\ pc' = "select" /\ UNCHANGED out
  /\ UNCHANGED <<command, world, page, chosen, file, sums, sha, taken, atStart>>

RequestFails ==
  /\ pc \in {"list", "tag", "latest", "asset", "sums"}
  /\ Done("unavailable")
  /\ file' = {}
  /\ UNCHANGED <<command, world, page, listed, chosen, sums, sha, taken, atStart>>

\* The release, an asset that fits the machine, and complete metadata.
Selected == Select(command.policy, command.current, listed)
SelectRelease ==
  /\ pc = "select"
  /\ LET release == listed[Min({i \in DOMAIN listed : listed[i].tag = Selected.tag})]
         picked == {a \in Pick(release.assets, command.target, command.filter) : a.url /\ a.size >= 0}
     IN IF Selected.verdict # "outdated" THEN Done(Selected.verdict) /\ UNCHANGED chosen
        ELSE IF ~Selected.tag.storable \/ picked = {} THEN Done("unsupported") /\ UNCHANGED chosen
        ELSE /\ chosen' = {[tag |-> release.tag, asset |-> a, assets |-> release.assets] : a \in picked}
             /\ pc' = IF command.dry THEN "dry" ELSE "asset"
             /\ UNCHANGED out
  /\ UNCHANGED <<command, world, page, listed, file, sums, sha, taken, atStart>>

-----------------------------------------------------------------------------
(* Evidence *)

\* A list of checksums names its assets; a sidecar may be one digest without a
\* name.  data.lists is a set of [name, id], a line that is none has no id.
ParseChecksums(data, asset, isSidecar) ==
  IF \/ \E l \in data.lists : l.id = None \/ (l.name = "" /\ (~isSidecar \/ data.lists # {l}))
     \/ \E k, l \in data.lists : k.name = l.name /\ k.id # l.id
  THEN {} ELSE {[l EXCEPT !.name = IF @ = "" THEN asset.name ELSE @] : l \in data.lists}

Listed(s, asset) == {l.id : l \in {k \in ParseChecksums(s.data, asset, IsSidecar(s.asset, asset)) : k.name = asset.name}}

\* Mutant: the digest of the API is only looked at where there are no checksums.
resolvePublisherChecksumBug(id, c, s) ==
  IF \E x \in s : TRUE THEN IF \E x \in s : Listed(x, c.asset) = {id} THEN "verified" ELSE "refused"
  ELSE IF c.asset.digest # None THEN IF c.asset.digest = id THEN "verified" ELSE "refused"
  ELSE IF command.unverified THEN "unverified" ELSE "refused"

\* A digest of the API that contradicts comes first; then the checksums, which
\* must list the asset; then that digest alone; then the user's word.
resolvePublisherChecksum(id, c, s) ==
  IF c.asset.digest \notin {None, id} THEN "refused"
  ELSE IF \E x \in s : TRUE THEN IF \E x \in s : Listed(x, c.asset) = {id} THEN "verified" ELSE "refused"
  ELSE IF c.asset.digest = id THEN "verified"
  ELSE IF command.unverified THEN "unverified" ELSE "refused"

\* What a dry run says, from the metadata alone.
\* Mutant: the digest of the API is not looked at.
DryRunBug(c) ==
  /\ pc = "dry"
  /\ Done(IF ChecksumAssets(c.asset, c.assets) = {} /\ ~command.unverified
          THEN "would refuse" ELSE "would upgrade")
  /\ UNCHANGED <<command, world, page, listed, chosen, file, sums, sha, taken, atStart>>

DryRun(c) ==
  /\ pc = "dry"
  /\ Done(IF ChecksumAssets(c.asset, c.assets) = {} /\ c.asset.digest = None /\ ~command.unverified
          THEN "would refuse" ELSE "would upgrade")
  /\ UNCHANGED <<command, world, page, listed, chosen, file, sums, sha, taken, atStart>>

-----------------------------------------------------------------------------
(* Downloads *)

\* What the address of an asset delivers now, if it is as long as declared.
Served(c, asset) ==
  {a.data : a \in {b \in UNION {r.assets : r \in {q \in Range(host) : q.tag = c.tag}} :
                     b.name = asset.name /\ (asset.size = 0 \/ b.size = asset.size)}}

DownloadAsset(c, d) ==
  /\ pc = "asset"
  /\ file' = {d}
  /\ pc' = IF ChecksumAssets(c.asset, c.assets) = {} THEN "verify" ELSE "sums"
  /\ UNCHANGED <<command, world, page, listed, chosen, sums, sha, taken, out, atStart>>

DownloadSums(c, s, d) ==
  /\ pc = "sums"
  /\ sums' = {[asset |-> s, data |-> d]}
  /\ IF ParseChecksums(d, c.asset, IsSidecar(s, c.asset)) = {} /\ d.lists # {}
     THEN Done("refused") /\ file' = {} ELSE pc' = "verify" /\ UNCHANGED <<out, file>>
  /\ UNCHANGED <<command, world, page, listed, chosen, sha, taken, atStart>>

-----------------------------------------------------------------------------
(* The file: hashed, extracted and hashed again through one descriptor *)

Verify(c, f) ==
  /\ pc = "verify"
  /\ sha' = {f.id}
  /\ LET v == resolvePublisherChecksum(f.id, c, sums)
     IN IF v = "refused" THEN Done("refused") /\ file' = {}
        ELSE pc' = "extract" /\ out' = [out EXCEPT !.verified = (v = "verified")] /\ UNCHANGED file
  /\ UNCHANGED <<command, world, page, listed, chosen, sums, taken, atStart>>

\* One member, by the format of the downloaded file; but whether what it holds
\* can be run is only looked at where the name of the asset is that of a bare file.
ExtractAsset(c, f) ==
  /\ pc = "extract"
  /\ LET found == {i \in Extract(f.members, FileFormat(c.asset), command.exe) :
                     c.asset.format = "bare" => f.members[i].runs}
     IN IF found = {} THEN Done("unusable") /\ file' = {} /\ UNCHANGED taken
        ELSE /\ taken' = {[data |-> f, member |-> i] : i \in found}
             /\ pc' = "recheck" /\ UNCHANGED <<out, file>>
  /\ UNCHANGED <<command, world, page, listed, chosen, sums, sha, atStart>>

Recheck(f) ==
  /\ pc = "recheck"
  /\ Done(IF sha = {f.id} THEN "installed" ELSE "refused")
  /\ file' = {}
  /\ UNCHANGED <<command, world, page, listed, chosen, sums, sha, taken, atStart>>

-----------------------------------------------------------------------------
(* Others *)

Change == changes < MaxChanges /\ changes' = changes + 1

Publish(r) ==
  /\ Change
  /\ \A q \in Range(host) : q.tag # r.tag
  /\ host' = <<r>> \o host
  /\ UNCHANGED <<command, deleted, pc, client>>

Delete(i) ==
  /\ Change
  /\ host' = RemoveAt(host, i) /\ deleted' = TRUE
  /\ UNCHANGED <<command, pc, client>>

\* An asset is uploaded again; the host computes its digest where it has one.
Upload(i, a, d) ==
  /\ Change
  /\ d # a.data
  /\ host' = [host EXCEPT ![i].assets = (@ \ {a}) \union
                {[a EXCEPT !.data = d, !.size = d.len, !.digest = IF @ = None THEN None ELSE d.id]}]
  /\ UNCHANGED <<command, deleted, pc, client>>

\* Another program writes to the downloaded file.
Overwrite ==
  /\ Change
  /\ file # {} /\ file # {Damaged}
  /\ file' = {Damaged}
  /\ UNCHANGED <<command, host, deleted, pc, page, listed, chosen, sums, sha, taken, out, atStart>>

Checking == Begin \/ ListPage \/ AskOne \/ RequestFails \/ SelectRelease
Installing ==
  \/ \E c \in chosen :
       \/ DryRun(c)
       \/ \E d \in Served(c, c.asset) \union {Damaged} : DownloadAsset(c, d)
       \/ \E s \in ChecksumAssets(c.asset, c.assets) : \E d \in Served(c, s) \union {Damaged} : DownloadSums(c, s, d)
       \/ \E f \in file : Verify(c, f) \/ ExtractAsset(c, f)
  \/ \E f \in file : Recheck(f)
Others ==
  \/ \E r \in NewReleases : Publish(r)
  \/ \E i \in DOMAIN host : Delete(i)
  \/ \E i \in DOMAIN host : \E a \in host[i].assets, d \in NewData : Upload(i, a, d)
  \/ Overwrite
Next == Checking \/ Installing \/ Others
Spec == Init /\ [][Next]_vars

-----------------------------------------------------------------------------
(* Properties *)

\* What the chosen metadata and the downloaded checksums say of the asset.
Evidence(c) == ({c.asset.digest} \ {None}) \union UNION {Listed(s, c.asset) : s \in sums}

\* What goes into the store comes from bytes that all the evidence there is
\* agrees on, whatever was uploaded or overwritten on the way, and it is called
\* verified exactly if there was any; without any it takes --allow-unverified
\* (docs/01-requirements.md, "Fail closed").
EvidenceIsTruthful ==
  out.status = "installed" => \A c \in chosen, t \in taken :
    /\ Evidence(c) \subseteq {t.data.id}
    /\ out.verified <=> Evidence(c) # {}
    /\ Evidence(c) = {} => command.unverified /\ ChecksumAssets(c.asset, c.assets) = {}

\* A semantic upgrade goes to a version above the current one and not below any
\* that was there when the list was begun, whatever is published meanwhile; a
\* list that is too long is refused.  A release deleted while the list is read
\* moves others to a page already read.
SelectionIsNewest ==
  \A c \in chosen : command.policy.pin = {} /\ command.policy.mode = "semver" =>
    /\ ~command.current.baseline => c.tag.rank > command.current.rank
    /\ ~deleted => \A r \in atStart :
         r \in Candidates(<<r>>, command.policy.channel) => r.tag.rank <= c.tag.rank

\* What is installed is what was wanted.  Without --asset, an asset that can be
\* installed and names this machine is not passed over for one that does not
\* name it; no filter promotes an asset that is only a last resort over one that
\* is not, or brings in one that does not name the machine or is a source
\* archive; and the program is the only one in its archive with the wanted name
\* or, where none has it, the only one that looks like one.
FittingWins(c) ==
  (\E a \in c.assets : ~Blacklisted(a, command.target) /\ ~Demoted(a) /\ Fits(a, command.target))
    => Fits(c.asset, command.target)
LastResortOnly(c) ==
  /\ ~Blacklisted(c.asset, command.target) /\ ~SourceArchive(c.asset)
  /\ Demoted(c.asset) =>
       /\ Fits(c.asset, command.target)
       /\ \A a \in c.assets : Blacklisted(a, command.target) \/ Demoted(a)
ProgramIsUnambiguous(c, t) ==
  LET ms == t.data.members
      files == {i \in DOMAIN ms : ms[i].type = "file"}
      wanted == {i \in files : Wanted(ms[i], command.exe)}
  IN IF wanted # {} THEN wanted = {t.member}
     ELSE \A i \in files : ExecutableLike(ms[i]) => ms[i].path = ms[t.member].path
InstalledIsWanted ==
  \A c \in chosen :
    /\ command.filter = {} => FittingWins(c)
    /\ LastResortOnly(c)
    /\ out.status = "installed" /\ c.asset.format \in Archives =>
         \A t \in taken : ProgramIsUnambiguous(c, t)

\* "Known-but-unpackable formats [...] fail closed with a clear error rather than
\* being treated as bare binaries" (internal/archive/archive.go): whatever is
\* chosen as a last resort, what is installed can be unpacked or is a program.
UnpackableFailsClosed ==
  out.status = "installed" => \A c \in chosen : c.asset.format \in Supported

\* A dry run refuses only what no download could have made acceptable, and
\* promises only what some download would be (the comment in upgradeOne).
DryRunIsHonest ==
  pc = "done" /\ out.status \in {"would refuse", "would upgrade"} => \A c \in chosen :
    LET needed == ChecksumAssets(c.asset, c.assets)
        some == (UNION {{a.data.id, a.digest} : a \in c.assets}) \ {None}
        offered == IF needed = {} THEN {{}} ELSE {{[asset |-> s, data |-> s.data]} : s \in needed}
        accepted == \E id \in some, s \in offered : resolvePublisherChecksum(id, c, s) # "refused"
    IN /\ out.status = "would refuse" => ~accepted
       /\ out.status = "would upgrade" /\ needed = {} => accepted
=============================================================================
