---------------------------- MODULE MCImageTarget ----------------------------
(* Small instances of ImageTarget: functions and sets a .cfg cannot write. *)
EXTENDS ImageTarget

LOCAL Of(image, config) == [image |-> image, config |-> config]
LOCAL Held(image, config) == [def |-> Of(image, config), up |-> TRUE, sick |-> FALSE]

\* A watch and a one-shot sync of "edge", and a sync of "relay", an unrelated
\* target that runs the same image.
MCName == [a \in Agents |-> IF a = "relay" THEN "relay" ELSE "edge"]
MCDef == [a \in Agents |-> Of("v2", "c")]

\* "edge" is new, runs an older image, or has its name taken by a container
\* someone else ran.
LOCAL Host(edge, labels) ==
  [running |-> [s \in Services |-> IF s = "edge" THEN edge ELSE Gone], labelled |-> labels]
MCHosts == {Host(Gone, {}), Host(Held("v1", "c"), {"edge"}), Host(Held("v2", "c"), {})}
==============================================================================
