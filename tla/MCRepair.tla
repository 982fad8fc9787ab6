------------------------------ MODULE MCRepair ------------------------------
EXTENDS Repair

CONSTANTS e1, e2, c1, c2, c3

\* Entries of two tools, each with a first and a second version.
Event(i, p, t, s) == [id |-> i, parent |-> p, reverts |-> NoId, tag |-> t, sha |-> s]
V2(n, events) ==
  LET last == events[Len(events)]
  IN [name |-> n, path |-> n, sound |-> TRUE, fields |-> V2Fields, evidence |-> {},
      policy |-> "semver", events |-> events, active |-> last.id, tag |-> last.tag,
      sha |-> last.sha, legacy |-> "legacy"]
A1 == V2("a", <<Event("1", NoId, "t1", "s1")>>)
A2 == V2("a", <<Event("1", NoId, "t1", "s1"), Event("2", "1", "t2", "s2")>>)
B1 == V2("b", <<Event("1", NoId, "t1", "s1")>>)
MCVersions == {A2}
MCSha == {"s1", "s2"}

Legacy(e) == [e EXCEPT !.fields = {}, !.events = <<>>, !.active = NoId, !.policy = "none"]
Doc(v, r, es) == [syntax |-> "strict", schema |-> v, retention |-> r, entries |-> es]
Good == Doc({2}, "given", <<A1>>)

\* A good document, and one for each way of not being one.
MCDocs ==
  {Good, Doc({1}, "absent", <<Legacy(A1)>>), Doc({}, "absent", <<Legacy(A1)>>),
   [Good EXCEPT !.syntax = "none"], [Good EXCEPT !.syntax = "loose"],
   Doc({3}, "given", <<A1>>), Doc({1}, "given", <<Legacy(A1)>>), Doc({1}, "absent", <<A1>>),
   Doc({2}, "absent", <<A1>>), Doc({2}, "negative", <<A1>>),
   Doc({2}, "given", <<A1, B1>>), Doc({2}, "given", <<A1, A2>>),
   Doc({2}, "given", <<A1, [B1 EXCEPT !.path = "a"]>>),
   Doc({2}, "given", <<[A1 EXCEPT !.sound = FALSE]>>),
   Doc({2}, "given", <<[A1 EXCEPT !.fields = @ \ {"activations"}]>>),
   Doc({2}, "given", <<[A1 EXCEPT !.evidence = {"asset_name"}]>>),
   Doc({2}, "given", <<[A1 EXCEPT !.evidence = {"checksum_asset"}]>>),
   Doc({2}, "given", <<[A1 EXCEPT !.evidence = {"asset_name", "asset_sha256", "checksum_verified"}]>>),
   Doc({2}, "given", <<[A2 EXCEPT !.active = "1"]>>),
   Doc({2}, "given", <<[A2 EXCEPT !.events[2].parent = "3"]>>),
   Doc({2}, "given", <<[A2 EXCEPT !.events[2].tag = "t1", !.tag = "t1"]>>)}

MCStrange == {Doc({2}, "given", <<A2>>), [Good EXCEPT !.syntax = "none"]}

\* Either the root is in disorder and the manifest is good, or the root is empty
\* and one of the manifests is anything.
Orderly == main = Regular(Good) /\ bak = main
\* The entries are interchangeable: when one is there at the start it is e1.
Ordered == place[e2] = "root" => place[e1] = "root"
Empty == \A x \in Entry : place[x] = "unused" /\ node[x] = [prefix |-> "other", dir |-> FALSE, loads |-> FALSE]
MCInit == Init /\ Ordered /\ live = [p \in Paths |-> "s1"] /\ (Orderly \/ (Empty /\ (bak = Regular(Good) \/ main = Irregular("missing"))))
MCSpec == MCInit /\ [][Next]_vars /\ Fairness
=============================================================================
