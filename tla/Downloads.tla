------------------------------ MODULE Downloads -------------------------------
(***************************************************************************)
(* The download actions of the components API: CNI plugins, containerd and *)
(* runc, the Kubernetes binaries and the node problem detector. Each first *)
(* looks at what is installed and downloads nothing if the required files  *)
(* are there and one of them, the reference, shows the wanted version; if  *)
(* not it installs every file anew, each by an atomic rename, in the order *)
(* of the archive or in parallel. Whatever stops it half-way leaves some   *)
(* files old and some new.                                                 *)
(***************************************************************************)
EXTENDS StepProgram

CONSTANTS
  Packages,   \* the packages of the instance
  Files,      \* of each package: the files it installs
  Required,   \* of each package: the files it must have
  Reference,  \* of each package: the file that is asked for its version
  Releases    \* the versions a configuration may want, in their order

AllPackages == {"cni", "containerd", "runc", "kube", "npd"}

\* One step downloads containerd and, after it, runc.
ASSUME PackagesAssumption ==
  /\ Packages \subseteq AllPackages /\ ("runc" \in Packages => "containerd" \in Packages)
  /\ \A p \in Packages : Reference[p] \in Required[p] /\ Required[p] \subseteq Files[p]

Missing == 0

ASSUME ReleasesAssumption == Releases \subseteq Nat \ {Missing} /\ Releases # {}

VARIABLES
  wanted,     \* the version of each package the running process wants
  package,    \* the package the step is about, "none" outside of download steps
  todo,       \* files the download under way has yet to install
  installed   \* the version of each installed file

downloadVars == <<wanted, package, todo, installed>>

DownloadPCs == {"inspect", "fetch"}

DownloadsTypeOK ==
  /\ wanted \in [Packages -> Releases]
  /\ package \in Packages \union {"none"}
  /\ package # "none" => todo \subseteq Files[package]
  /\ package = "none" => todo = {}
  /\ DOMAIN installed = Packages
  /\ \A p \in Packages : installed[p] \in [Files[p] -> Releases \union {Missing}]
  /\ pc \in DownloadPCs <=> package # "none"

\* A host without any of the files.
DownloadsInit ==
  /\ wanted = [p \in Packages |-> CHOOSE r \in Releases : \A q \in Releases : r <= q]
  /\ package = "none" /\ todo = {}
  /\ installed = [p \in Packages |-> [f \in Files[p] |-> Missing]]

\* The first package of a download step; after containerd comes runc.
FirstOf(step) ==
  CASE step = "download-cni-binaries"  -> "cni"
    [] step = "download-cri-binaries"  -> "containerd"
    [] step = "download-kube-binaries" -> "kube"
    [] step = "download-npd"           -> "npd"

After(p) == IF p = "containerd" /\ "runc" \in Packages THEN "runc" ELSE "none"

BeginDownload(p) ==
  /\ IF p \in Packages THEN pc' = "inspect" /\ package' = p
     ELSE pc' = "ok" /\ UNCHANGED package  \* not in this instance
  /\ UNCHANGED <<wanted, todo, installed>>

\* hasRequired...: the files are there and executable.
HasRequired(p) == \A f \in Required[p] : installed[p][f] # Missing

\* ...VersionMatch: a file that cannot be run to show its version does not match.
VersionMatch(p) == installed[p][Reference[p]] = wanted[p]

\* MUTANT of NeedsDownload: files that are there are not asked for their version.
NeedsDownloadMissing(p) == ~HasRequired(p)

NeedsDownload(p) == ~HasRequired(p) \/ ~VersionMatch(p)

\* The next package of the step, or its end.
NextPackage ==
  /\ package' = After(package) /\ todo' = {}
  /\ pc' = IF After(package) = "none" THEN "ok" ELSE "inspect"

\* The download installs every file anew.
ToFetch(p) == Files[p]

Inspect ==
  /\ pc = "inspect" /\ Succeeds
  /\ IF NeedsDownload(package)
     THEN /\ pc' = "fetch" /\ todo' = ToFetch(package) /\ UNCHANGED package
     ELSE NextPackage
  /\ UNCHANGED <<wanted, installed>>

\* InstallFile: one more file is renamed into place.
InstallFile(f) ==
  /\ pc = "fetch" /\ f \in todo /\ Succeeds
  /\ installed' = [installed EXCEPT ![package][f] = wanted[package]]
  /\ IF todo = {f}
     THEN NextPackage
     ELSE todo' = todo \ {f} /\ UNCHANGED <<pc, package>>
  /\ UNCHANGED wanted

\* The entries come in the order of the archive, whatever that is.
FetchEntry(f) == package \in {"cni", "containerd", "npd"} /\ InstallFile(f)

\* A binary of its own, for Kubernetes several of them in parallel.
FetchBinary(f) == package \in {"runc", "kube"} /\ InstallFile(f)

\* The connection breaks, the archive is bad or the disk is full: the rest of
\* the files are not installed.
FetchFails ==
  /\ pc = "fetch" /\ Fails
  /\ pc' = "failed" /\ package' = "none" /\ todo' = {}
  /\ UNCHANGED <<wanted, installed>>

DownloadStep ==
  \/ Inspect \/ FetchFails
  \/ \E p \in Packages : \E f \in Files[p] : FetchEntry(f) \/ FetchBinary(f)

\* What a killed process leaves of a download.
DownloadsAbandoned == package' = "none" /\ todo' = {} /\ UNCHANGED <<wanted, installed>>

\* What the last step of a successful download can rely on.
Usable(p) == HasRequired(p) /\ VersionMatch(p)
===============================================================================
