----------------------------- MODULE MCReconciler -----------------------------
(****************************************************************************)
(* Instances of Reconciler for TLC: a history of three or four commits over *)
(* two services in which a commit changes an image, a commit changes only a *)
(* configuration, a commit adds and removes a service, and a commit reverts *)
(* an earlier one.                                                          *)
(****************************************************************************)
EXTENDS Reconciler

Def(i, k) == [image |-> i, config |-> k]

\* base, then only the configuration of api changed, then api's image changed
\* and db dropped; revert declares again what base declared.
MCManifest == [
  base   |-> [api |-> Def("i1", "k1"), db |-> Def("i1", "k1")],
  config |-> [api |-> Def("i1", "k2"), db |-> Def("i1", "k1")],
  image  |-> [api |-> Def("i2", "k1"), db |-> Undeclared],
  revert |-> [api |-> Def("i1", "k1"), db |-> Def("i1", "k1")]]

MCTree == [c \in Commits |-> [s \in Services |-> MCManifest[c][s]]]

\* A new host, and one where somebody already ran some version of the file.
Empty   == {[s \in Services |-> Gone]}
Adopted == Empty \cup {[s \in Services |-> Running(Def("i1", k), FALSE)] : k \in Configs}
=============================================================================
