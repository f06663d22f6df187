------------------------- MODULE MCDynamicMounting -------------------------
(***************************************************************************)
(* Small instances of DynamicMounting: /etc and /usr/bin, which the        *)
(* fallback configuration names, and /adu, which the certificate store     *)
(* covers.                                                                 *)
(***************************************************************************)
EXTENDS DynamicMounting

CONSTANT Adu

MCPaths == {Etc, UsrBin, Adu}

App(S) == {AppDir(p) : p \in S}
Sys(S) == {SysDir(p) : p \in S}
Ram(p) == <<"ram", p>>
Sec(p, l) == [merge |-> p, lower |-> l]
Img(d, a, s) ==
  [dirs |-> d, ini |-> [valid |-> TRUE, application |-> a, persistent |-> s]]

\* The images: none; one with more sections than MaxOverlays; two sections for one directory; a section
\* that names the application's directory itself, followed by one that does
\* not; more directories than MaxOverlays, a directory listed twice and a
\* section with a lower directory that may not exist; a section with a lower
\* directory that a later section creates; an empty overlay.ini; a directory
\* listed that the image does not have.
MCImages ==
  { NoImage,
    Img(App({Etc, UsrBin}), <<Etc, UsrBin>>,
        <<Sec(Etc, <<SysDir(Etc)>>), Sec(UsrBin, <<SysDir(UsrBin)>>),
          Sec(Adu, <<SysDir(Adu)>>)>>),
    Img(App({Etc}), <<Etc, Adu>>,
        <<Sec(Etc, <<SysDir(Etc)>>), Sec(Etc, <<Ram(Etc), SysDir(Etc)>>),
          Sec(Adu, <<SysDir(Adu)>>)>>),
    Img(App({Etc, Adu}), <<Adu, Etc>>,
        <<Sec(Etc, <<AppDir(Etc), SysDir(Etc)>>), Sec(Etc, <<SysDir(Etc)>>),
          Sec(Adu, <<SysDir(Adu)>>)>>),
    Img(App(MCPaths), <<Etc, Etc, UsrBin, Adu>>,
        <<Sec(Adu, <<SysDir(Adu)>>), Sec(Etc, <<Ram(Etc)>>),
          Sec(UsrBin, <<Ram(UsrBin), Ram(UsrBin)>>)>>),
    Img(App({Etc}), <<Etc>>,
        <<Sec(Etc, <<SysDir(UsrBin)>>), Sec(UsrBin, <<SysDir(UsrBin)>>)>>),
    Img({}, <<>>, <<>>),
    Img({}, <<UsrBin>>, <<Sec(UsrBin, <<SysDir(UsrBin)>>)>>) }

MCEntries ==
  { [merge |-> Adu, lower |-> Ram(Adu)],
    [merge |-> UsrBin, lower |-> SysDir(UsrBin)] }

Bare == [p \in MCPaths |-> <<>>]
Cert == <<[kind |-> "cert", lower |-> <<SysDir(Adu)>>, upper |-> {Ram(Adu)}]>>
Other == <<MountOf("other", <<>>)>>

\* No mount; the certificate store's overlay; a foreign mount on /usr/bin.
MCInitialMounts ==
  { Bare, [Bare EXCEPT ![Adu] = Cert], [Bare EXCEPT ![UsrBin] = Other],
    [Bare EXCEPT ![UsrBin] = Other, ![Etc] = Other] }

\* What main() gives the engine when the certificates were unpacked: the
\* certificate store's overlay, and the entry with its upper directory.
MainInitialMounts == { [Bare EXCEPT ![Adu] = Cert] }
MainEntries == { [merge |-> Adu, lower |-> Ram(Adu)] }

\* Everything, or so little that an application may cover nothing while an
\* added entry still can be mounted.
MCInitialDirs ==
  { Sys(MCPaths) \cup {Ram(p) : p \in MCPaths}, {SysDir(Etc), Ram(Adu)} }

\* No failure, or any of them.
MCFaultSets ==
  { {}, {"stat", "create", "umount", "busy", "depth", "mount", "remove"} }

=============================================================================
