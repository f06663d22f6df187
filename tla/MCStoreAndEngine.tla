-------------------------- MODULE MCStoreAndEngine --------------------------
(***************************************************************************)
(* Archives of each length up to a ramdisk of five bytes and beyond it,    *)
(* copied two bytes at a time, on partitions that are shorter, as long or  *)
(* longer; and images that claim the certificates' directory, list it, or  *)
(* have it and a section for it without listing it.                        *)
(***************************************************************************)
EXTENDS StoreAndEngine

MCPaths == {Etc, UsrBin, Adu}

\* UINT64_MAX is 9: the last size is the one that wraps.
MCStores ==
  [cert : {TRUE}, size : 0 .. 6 \cup {9}, there : {0, 2, 3, 5, 9}]
  \cup {[cert |-> FALSE, size |-> 3, there |-> 3]}

MCTables == {<<"boot", "Secure", "user">>, <<"Secure2", "Secure">>, <<"boot">>}
MCMatches == {"Secure", "Secure2"}

Sec(p, l) == [merge |-> p, lower |-> l]
Img(S, a, s) ==
  [dirs |-> {<<"app", p>> : p \in S},
   ini |-> [valid |-> TRUE, application |-> a, persistent |-> s]]

MCImages ==
  { [dirs |-> {}, ini |-> [valid |-> FALSE, application |-> <<>>, persistent |-> <<>>]],
    Img({Etc, Adu}, <<Etc, Adu>>, <<Sec(Adu, <<<<"sys", Adu>>>>), Sec(Etc, <<<<"sys", Etc>>>>)>>),
    Img({Adu}, <<Adu>>, <<Sec(Etc, <<<<"sys", Etc>>>>)>>),
    Img({Etc, Adu}, <<Etc>>, <<Sec(Adu, <<<<"sys", Adu>>>>)>>) }

MCInitialDirs == {{<<"sys", p>> : p \in MCPaths}}

StoreFaults == {"config", "proc", "device", "read", "write", "shell", "tar"}
EngineFaults == {"stat", "create", "umount", "busy", "depth", "mount", "remove"}
MCFaultSets == {{}, StoreFaults, StoreFaults \cup EngineFaults}

=============================================================================
