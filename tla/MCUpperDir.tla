----------------------------- MODULE MCUpperDir -----------------------------
(***************************************************************************)
(* Three versions of the system directory: with the properties of a new    *)
(* directory, with another mode and two attributes, with another owner and *)
(* another value of an attribute.                                          *)
(***************************************************************************)
EXTENDS UpperDir

MCSystemDirs ==
  { [owner |-> "root", mode |-> "0755", xattr |-> [a \in {"acl"} |-> 1]],
    [owner |-> "root", mode |-> "0700", xattr |-> [a \in {"acl", "label"} |-> 1]],
    [owner |-> "adu", mode |-> "0755", xattr |-> [a \in {"acl", "label"} |-> 2]] }

AllFaults == {"create", "change", "xattr", "mount", "use", "power"}
MCFaultSets == {{}, {"use"}, {"power", "use"}, AllFaults}

=============================================================================
