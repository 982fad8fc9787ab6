------------------------------- MODULE MCFetch -------------------------------
EXTENDS Fetch

Tag(n, r, s) == [name |-> n, rank |-> r, spelling |-> s, pre |-> FALSE, baseline |-> FALSE, storable |-> TRUE]
T1 == Tag("v1.0.0", 1, 1)
T1b == Tag("1.0.0", 1, 0)
T2rc == [Tag("v1.1.0-rc", 2, 1) EXCEPT !.pre = TRUE]
T3 == Tag("v2.0.0", 3, 1)
T4 == Tag("v2.1.0", 4, 1)
Nightly == Tag("nightly", 0, 1)
Adopted == [Tag("adopted", 0, 1) EXCEPT !.baseline = TRUE]

Member(p, b, x) == [path |-> p, names |-> {b}, exec |-> x, dotted |-> FALSE, type |-> "file", size |-> 1, runs |-> TRUE]
File(p) == [Member(p, p, FALSE) EXCEPT !.dotted = TRUE]
Data(i, ms) == [id |-> i, members |-> ms, lists |-> {}, len |-> 1]
Sums(ls) == [id |-> "sums", members |-> <<>>, lists |-> ls, len |-> 1]
Line(n, i) == [name |-> n, id |-> i]

Tool == Member("bin/t", "t", TRUE)
Other == Member("bin/u", "u", TRUE)
Doc == File("README.md")
Exe == [File("t.exe") EXCEPT !.names = {"t.exe", "t"}]
Packed == [Member("raw", "raw", FALSE) EXCEPT !.runs = FALSE]
Good == Data("good", <<Doc, Tool>>)
MCDamaged == [Data("damaged", <<Tool>>) EXCEPT !.lists = {Line("?", None)}]
MCNewData == {Data("new", <<Tool>>)}

Name(n, os, arch, format) ==
  [name |-> n, os |-> os, arch |-> arch, format |-> format, kept |-> format, ext |-> "none", universal |-> FALSE,
   musl |-> FALSE, of |-> {}, data |-> Good, digest |-> None, size |-> 1, url |-> TRUE]
Linux == Name("t-linux-amd64.tar.gz", {"linux"}, {"amd64"}, "tar.gz")
SumFile(n, of, ls) ==
  [Name(n, {}, {}, "bare") EXCEPT !.ext = "text", !.of = of, !.data = Sums(ls), !.size = 0]

Release(t, as) == [tag |-> t, draft |-> FALSE, prerelease |-> FALSE, assets |-> as]
Signed == [Linux EXCEPT !.digest = "good"]

Semver == [mode |-> "semver", channel |-> "stable", pin |-> {}]
LinuxAmd == [os |-> "linux", arch |-> "amd64"]
Upgrade == [current |-> T1, policy |-> Semver, filter |-> {}, unverified |-> FALSE, dry |-> FALSE,
            drifted |-> FALSE, exe |-> "t", target |-> LinuxAmd]

\* Which release: up to four in any order, every policy, currents of all kinds.
Lists == UNION {{s \in [1..n -> {T1, T1b, T2rc, T3, Nightly}] : \A i, j \in 1..n : s[i] = s[j] => i = j} : n \in 0..4}
Policies == {[mode |-> m, channel |-> c, pin |-> {}] : m \in Modes, c \in Channels}
             \union {[Semver EXCEPT !.pin = {t}] : t \in {T1, T3}}
Choosing ==
  /\ \E l \in Lists : host = [i \in DOMAIN l |-> Release(l[i], {Signed})]
  /\ command \in {[Upgrade EXCEPT !.current = c, !.policy = p, !.drifted = (c = Nightly)] :
                    c \in {T1, T3, Adopted, Nightly}, p \in Policies}
MCNewReleases == {Release(T4, {Signed})}

\* Which evidence, and what is in the archive.
Checksums ==
  {{}} \union {{SumFile(n, {"any"}, ls)} : n \in {"checksums.txt"},
     ls \in {{Line("t-linux-amd64.tar.gz", "good"), Line("x", "x")}, {Line("x", "x")},
             {Line("t-linux-amd64.tar.gz", "good"), Line("t-linux-amd64.tar.gz", "old")},
             {Line("t-linux-amd64.tar.gz", "old")}, {Line("", "good")}}}
  \union {{SumFile("t-linux-amd64.tar.gz.sha256", {"t-linux-amd64.tar.gz"}, ls), SumFile("checksums.txt", {"any"}, {})} :
     ls \in {{Line("", "good")}, {Line("", "good"), Line("x", "x")}, {Line("t-linux-amd64.tar.gz", "good")}}}
Contents ==
  {<<Doc, Tool>>, <<Doc, Other>>, <<Other, Tool>>, <<Tool, [Tool EXCEPT !.path = "t"]>>, <<Doc>>,
   <<Other, [Other EXCEPT !.path = "w", !.names = {"w"}]>>, <<[Doc EXCEPT !.path = "u.sh"], [Doc EXCEPT !.path = "u.sh", !.exec = TRUE]>>,
   <<[Tool EXCEPT !.type = "link"], Other>>, <<[Tool EXCEPT !.size = 3]>>, <<Tool, [Doc EXCEPT !.size = 4]>>,
   <<Doc, Doc, Doc, Tool>>, <<[Tool EXCEPT !.runs = FALSE]>>, <<[Doc EXCEPT !.type = "dir"], Tool>>,
   <<Exe, Other>>, <<Exe, Tool>>}
Assets(f, ms, dg) == [Linux EXCEPT !.format = f, !.data = Data("good", ms), !.digest = dg]

\* All there is cannot be unpacked: t.tar.bz2, t.7z and t.tar.1.gz.
Unpackable ==
  \E k \in {"none", "bare", "gz"} :
    host = <<Release(T3, {[Assets("none", <<Packed>>, "good") EXCEPT !.kept = k]})>>
Verifying ==
  /\ command \in {[Upgrade EXCEPT !.unverified = u, !.dry = d] : u, d \in BOOLEAN}
  /\ \/ \E a \in {[Linux EXCEPT !.digest = dg] : dg \in {None, "good", "old"}}, c \in Checksums :
          host = <<Release(T3, {a} \union c)>>
     \/ ~command.dry /\ \E a \in {Assets(f, ms, "good") : f \in {"tar.gz", "zip", "bare"}, ms \in Contents} :
          host = <<Release(T3, {a})>>
     \/ ~command.dry /\ Unpackable

\* Which asset: up to three of a dozen names, for two machines, with filters.
Names ==
  {Linux, [Linux EXCEPT !.name = "t-linux-amd64-musl.tar.gz", !.musl = TRUE],
   Name("t-linux-amd64.zip", {"linux"}, {"amd64"}, "zip"), Name("t-linux-arm64.tar.gz", {"linux"}, {"arm64"}, "tar.gz"),
   Name("t-linux-386.tar.gz", {"linux"}, {"386"}, "tar.gz"), Name("t-linux.gz", {"linux"}, {}, "gz"),
   [Name("t-linux-x86_64.appimage", {"linux"}, {"amd64"}, "bare") EXCEPT !.ext = "appimage"],
   Name("t-linux-amd64.tar.bz2", {"linux"}, {"amd64"}, "none"), Name("t.tar.gz", {}, {}, "tar.gz"),
   Name("t-darwin-amd64.zip", {"darwin"}, {"amd64"}, "zip"),
   [Name("t-darwin-universal.zip", {"darwin"}, {}, "zip") EXCEPT !.universal = TRUE],
   Name("t-darwin-arm64.tar.gz", {"darwin"}, {"arm64"}, "tar.gz"),
   Name("t-windows-amd64.zip", {"windows"}, {"amd64"}, "zip"),
   [Name("t-linux-amd64.deb", {"linux"}, {"amd64"}, "none") EXCEPT !.ext = "package"]}
Filters == {{}} \union {{[anti |-> an, text |-> "t-linux.gz", within |-> {"t-linux.gz", "t-linux-amd64-musl.tar.gz"}]} : an \in BOOLEAN}
Picking ==
  /\ \E as \in kSubset(1, Names) \union kSubset(2, Names) \union kSubset(3, Names) : host = <<Release(T3, as)>>
  /\ command \in {[Upgrade EXCEPT !.filter = f, !.target = t, !.dry = TRUE, !.unverified = TRUE] :
                    f \in Filters, t \in {LinuxAmd, [os |-> "darwin", arch |-> "arm64"]}}
  /\ changes = MaxChanges

\* Nothing else happens to those that only pick.
MCInit == ((changes = 0 /\ (Choosing \/ Verifying)) \/ Picking) /\ Init
MCSpec == MCInit /\ [][Next]_vars

FallbackInit == changes = 0 /\ command = Upgrade /\ Unpackable /\ Init
FallbackSpec == FallbackInit /\ [][Next]_vars
=============================================================================
