------------------------------ MODULE MCToolset ------------------------------
EXTENDS Toolset, TLC

CONSTANTS go, goNew, script, owned \* executables

Tag(n, r) == [name |-> n, rank |-> r, spelling |-> 1, pre |-> FALSE,
              baseline |-> FALSE, storable |-> TRUE]
V1 == Tag("v1.0.0", 1)
V2 == Tag("v1.1.0", 2)
V9 == Tag("v999.0.0", 9)
Adopted == [Tag("adopted", 0) EXCEPT !.baseline = TRUE]
MCSentinel == [imported |-> Tag("imported", 0), adopted |-> Adopted,
               local |-> [Tag("local", 0) EXCEPT !.baseline = TRUE]]
MCVersion == [b \in {go, goNew, script, owned} |->
                CASE b = go -> {V1} [] b = goNew -> {V2} [] OTHER -> {}]

Policy(m, c, p) == [mode |-> m, channel |-> c, pin |-> p]
Tools == [name : {1}, local : {FALSE}, tag : {V9, Adopted}, sha : {script},
          policy : {DefaultPolicy, Policy("semver", "stable", {V1}), Policy("github-latest", "prerelease", {})}]
Local == [name |-> 2, local |-> TRUE, tag |-> V1, sha |-> go, policy |-> DefaultPolicy]
MCHomes == {{t, Local} : t \in Tools}
Sound == [name |-> 1, local |-> FALSE, tag |-> Adopted, sha |-> script, policy |-> DefaultPolicy]
MCEdited ==
  {{}, {Sound, [Sound EXCEPT !.tag = V1]}, {[Sound EXCEPT !.tag.storable = FALSE]}, {[Sound EXCEPT !.policy.mode = "x"]},
   {[Sound EXCEPT !.policy.mode = "", !.policy.pin = {V1}]}, {[Sound EXCEPT !.policy.channel = "", !.policy.pin = {V1}]}}
MCInit == Init /\ path[2] = go

Call == [name |-> 1, local |-> FALSE, repo |-> FALSE, tag |-> {}, force |-> FALSE, options |-> NoOptions]
Import == [kind |-> "import", only |-> {}, dry |-> FALSE, force |-> FALSE]
MCCommands ==
  {Import, [Import EXCEPT !.dry = TRUE, !.only = {1}], [Import EXCEPT !.force = TRUE, !.only = {1}]}
  \union {[kind |-> "adopt", call |-> c] :
            c \in {Call, [Call EXCEPT !.repo = TRUE], [Call EXCEPT !.repo = TRUE, !.tag = {V2}], [Call EXCEPT !.name = 2, !.local = TRUE]}}
  \union {[kind |-> "policy", call |-> [Call EXCEPT !.name = 1, !.options = o]] :
            o \in {[NoOptions EXCEPT !.mode = {"github-latest"}, !.pin = {V2}],
                   [NoOptions EXCEPT !.mode = {"semver"}, !.unpin = TRUE]}}

MCReleases == <<[tag |-> V2, draft |-> FALSE, prerelease |-> FALSE]>>
MCSpec == MCInit /\ [][Next]_vars
Symmetry == Permutations(Process)
=============================================================================
