----------------------------- MODULE Provision -----------------------------
(***************************************************************************)
(* What a build does to the image after the packages are in: the files it  *)
(* stages, the hooks that place and run them, and what they leave behind   *)
(* (internal/builder: WriteStage, CustomizeHooks, pythonHooks, diskHooks,  *)
(* the scripts they run, and mkosi's for Fedora).                          *)
(*                                                                         *)
(* A path of the image holds nothing, what the archive's packages put      *)
(* there, what the recipe asks for, or something of the build or of its    *)
(* host.  The text of the files is abstracted; which file is written when, *)
(* by whom, and read or removed by what is kept.                           *)
(***************************************************************************)
EXTENDS Naturals, Sequences

Contents == {"none", "archive", "recipe", "build", "host"}

ImageFiles ==
  {"wsl.conf", "sudoers", "keyrings", "certificates", "sources.list", "user", "password",
   "venv", "trust-store", "extended_states", "dpkg-status", "fstab", "reasons",
   "resolv.conf", "hostname", "per-machine", "apt-lists", "apt-trust", "package-log",
   "extra-CA", "CA-bundle", "requirements", "wheels", "pip-pin", "pip-report",
   "pip-pin-report", "pip-list"}

NothingYet == [p \in ImageFiles |-> "none"]

(* One thing a program does: the phase its line announces (or "nothing"),  *)
(* the work files it takes, what it needs in the image, what it makes of   *)
(* the image's files, and the work files it gives.                         *)
Do(says, takes, needs, writes, gives) ==
  [says |-> says, takes |-> takes, needs |-> needs, writes |-> writes, gives |-> gives]
All(paths, content) == [p \in paths |-> content]
Onto(f, g) == [p \in DOMAIN f \cup DOMAIN g |-> IF p \in DOMAIN f THEN f[p] ELSE g[p]]
When(condition, steps) == IF condition THEN steps ELSE <<>>

Disk(k)   == k.target = "disk"
Fedora(k) == k.family = "fedora"

-----------------------------------------------------------------------------
(* What a stage directory holds for a build of kind k.  The certificates   *)
(* of --ca-bundle are staged for the Python step that fetches and no other.*)
WriteStage(k) ==
  {"provision-script", "sources.list"}
  \cup (IF Disk(k) THEN {"disk-files", "disk-script"} ELSE {"wsl.conf"})
  \cup (IF k.offline THEN {"auto-marks"} ELSE {"lists", "extended-states"})
  \cup (IF k.sudo THEN {"sudoers"} ELSE {})
  \cup (IF k.keys THEN {"keys"} ELSE {})
  \cup (IF k.certificates THEN {"certificates"} ELSE {})
  \cup (IF ~k.python THEN {} ELSE
        {"python-script"}
        \cup (IF k.offline THEN {"pip-list", "requirements", "wheels"}
              ELSE {"pip-report"} \cup (IF k.index THEN {"pip-pin-report"} ELSE {})
                   \cup (IF k.bundle THEN {"extra-CA"} ELSE {})))

Upload(p, content) == Do("provision", {}, <<>>, All({p}, content), {})
Delete(ps) == Do("provision", {}, <<>>, All(ps, "none"), {})
Download(p, content, f) == Do("provision", {}, All({p}, content), <<>>, {f})

(* The script creates the user, and installs the certificates uploaded     *)
(* before it into the image's own store.                                   *)
ProvisionScript(stage) ==
  Do("provision", {}, All({"sudoers"} \cap stage, "recipe"),
     All({"user"} \cup (IF "certificates" \in stage THEN {"trust-store"} ELSE {}), "recipe"), {})

(* What pip verifies the index against.                                    *)
StoreBeforeBundle(k) ==
  IF k.offline THEN "no-network"
  ELSE IF k.certificates THEN "trust-store"
  ELSE IF k.bundle THEN "CA-bundle" ELSE "its-own"
PipTrust(k) ==
  IF k.offline THEN "no-network"
  ELSE IF k.bundle THEN "CA-bundle"
  ELSE IF k.certificates THEN "trust-store" ELSE "its-own"

(* Offline pip installs the uploaded wheels and the script deletes them    *)
(* and the requirements; online it needs the network, so the host's        *)
(* resolver, and what it verifies against.                                 *)
PythonScript(k) ==
  IF k.offline
  THEN Do("install-python", {}, All({"requirements", "wheels"}, "build"),
          Onto(All({"venv"}, "recipe"),
               Onto(All({"pip-list"}, "build"), All({"requirements", "wheels", "pip-pin"}, "none"))), {})
  ELSE LET fromBundle == PipTrust(k) = "CA-bundle"
       IN Do("install-python", {},
             Onto(All({"resolv.conf"}, "host"),
                  Onto(All(IF fromBundle THEN {"extra-CA"} ELSE {}, "build"),
                       All(IF k.certificates THEN {"trust-store"} ELSE {}, "recipe"))),
             Onto(All({"venv"}, "recipe"),
                  Onto(All({"pip-report"} \cup (IF k.index THEN {"pip-pin-report"} ELSE {}), "build"),
                       All({"pip-pin"} \cup (IF fromBundle THEN {"CA-bundle", "extra-CA"} ELSE {}),
                           "none"))), {})

PythonHooks(k, stage) ==
  IF "python-script" \notin stage THEN <<>> ELSE
    When("extra-CA" \in stage, <<Upload("extra-CA", "build")>>)
    \o When("requirements" \in stage, <<Upload("requirements", "build")>>)
    \o When("wheels" \in stage, <<Upload("wheels", "build")>>)
    \o <<PythonScript(k)>>
    \o When("pip-report" \in stage, <<Download("pip-report", "build", "pip-report")>>)
    \o When("pip-pin-report" \in stage, <<Download("pip-pin-report", "build", "pip-pin-report")>>)
    \o When("pip-list" \in stage, <<Download("pip-list", "build", "pip-list")>>)
    \o <<Delete({"pip-report", "pip-pin-report", "pip-list"})>>

(* A disk image gets a hostname and a resolver of its own, and nothing per *)
(* machine.                                                                *)
DiskHooks ==
  <<Upload("fstab", "recipe"), Upload("hostname", "recipe"),
    Do("provision", {}, All({"user", "hostname"}, "recipe"),
       Onto(All({"password", "resolv.conf"}, "recipe"), All({"per-machine"}, "none")), {})>>

CustomizeHooks(k, stage) ==
  When("wsl.conf" \in stage, <<Upload("wsl.conf", "recipe")>>)
  \o When("sudoers" \in stage, <<Upload("sudoers", "recipe")>>)
  \o When("keys" \in stage, <<Upload("keyrings", "recipe")>>)
  \o When("certificates" \in stage, <<Upload("certificates", "recipe")>>)
  \o When("sources.list" \in stage, <<Upload("sources.list", "recipe")>>)
  \o <<ProvisionScript(stage)>>
  \o PythonHooks(k, stage)
  \o (IF "disk-script" \in stage THEN DiskHooks ELSE <<Delete({"resolv.conf", "hostname"})>>)
  \o When("auto-marks" \in stage, <<Upload("extended_states", "recipe")>>)
  \o When("lists" \in stage, <<Download("apt-lists", "build", "lists")>>)
  \o When("extended-states" \in stage,
          <<Upload("extended_states", "archive"), Download("extended_states", "archive", "marks")>>)
  \o <<Download("dpkg-status", "archive", "dpkg-status")>>

-----------------------------------------------------------------------------
(* mmdebstrap, as its command line has it run.  It leaves the host's       *)
(* resolver and name in the image; what apt trusts for the build alone is  *)
(* written by the setup hook and removed by the last customize hook; a     *)
(* tree instead of a tarball is run from and never shipped.                *)
AptTrusts(k) == ~k.offline /\ (k.certificates \/ k.bundle \/ k.insecure)
AptNeeds(k)  == All(IF AptTrusts(k) THEN {"apt-trust"} ELSE {}, "build")
Setup(k) ==
  <<Do("nothing", {}, <<>>, All({"resolv.conf", "hostname"}, "host"), {})>>
  \o When(AptTrusts(k), <<Do("nothing", {}, <<>>, All({"apt-trust"}, "build"), {})>>)
AptAndDpkg(k) ==
  <<Do("update-index", {}, AptNeeds(k), All({"apt-lists"}, "build"), {}),
    Do("download", {}, AptNeeds(k), <<>>, {}),
    Do("extract", {}, <<>>, <<>>, {}),
    Do("install-essential", {}, <<>>, All({"dpkg-status"}, "archive"), {}),
    Do("install-requested", {}, AptNeeds(k),
       All({"per-machine"}, IF Disk(k) THEN "build" ELSE "none"), {})>>
TrustCleanup(k) == When(AptTrusts(k), <<Delete({"apt-trust"})>>)

ImageProgram(k) ==
  Setup(k) \o AptAndDpkg(k) \o CustomizeHooks(k, WriteStage(k)) \o TrustCleanup(k)
  \o <<Do("create-tarball", {}, <<>>, All({"apt-lists"}, "none"), {}),
       Do("nothing", {}, <<>>, <<>>, {"tarball"}), Do("done", {}, <<>>, <<>>, {})>>

(* The disk tools tree, whose files nobody ships: its hooks only take what *)
(* the lock is written from.                                               *)
DiskToolsProgram(k) ==
  <<Do("nothing", {}, <<>>, <<>>, {}), Do("update-index", {}, <<>>, <<>>, {}),
    Do("install-requested", {}, <<>>, <<>>, IF k.offline THEN {} ELSE {"tools-lists"}),
    Do("provision", {}, <<>>, <<>>, {"tools-status"})>>

(* The assembly, one tool of the tree after another, in the order of its   *)
(* steps; those that only differ in the file they copy are one.            *)
Tool(takes, gives) == <<Do("nothing", takes, <<>>, <<>>, gives)>>
AssemblyPrograms ==
  <<Tool({"tarball"}, {"root"}), Tool({}, {"esp"}), Tool({"tarball"}, {"boot-files"}),
    Tool({"boot-files", "esp"}, {"filled-esp"}), Tool({}, {"disk"}), Tool({"disk"}, {"table"}),
    Tool({"table", "filled-esp"}, {"esp-placed"}), Tool({"table", "root"}, {"disk-image"})>>

-----------------------------------------------------------------------------
(* mkosi: the tools tree records what it is made of; the image's own       *)
(* script provisions it, and the finalize script takes what the lock needs *)
(* before it removes what the build left, because the queries write again. *)
MkosiTools == <<Do("nothing", {}, <<>>, <<>>, {"tools-record"})>>
FedoraFinalize(k) ==
  When(k.offline, <<Do("nothing", {}, <<>>, All({"reasons"}, "recipe"), {})>>)
  \o <<Do("nothing", {}, <<>>, All({"package-log"}, "build"), {"installed"})>>
  \o When(~k.offline, <<Do("nothing", {}, All({"apt-lists"}, "build"), All({"package-log"}, "build"),
                           {"locations"})>>)
  \o <<Do("nothing", {}, <<>>, All({"package-log", "resolv.conf"}, "none"), {})>>
MkosiImage(k) ==
  <<Do("nothing", {}, <<>>, Onto(All({"resolv.conf"}, "host"), All({"apt-lists"}, "build")), {}),
    Do("install-requested", {}, <<>>, All({"dpkg-status"}, "archive"), {}),
    Do("install-requested", {}, <<>>, <<>>, {}),
    Do("provision", {}, <<>>, All({"user", "wsl.conf"} \cup (IF k.sudo THEN {"sudoers"} ELSE {}), "recipe"), {})>>
  \o FedoraFinalize(k)
  \o <<Do("create-tarball", {}, <<>>, All({"apt-lists"}, "none"), {"tar"})>>
Createrepo == <<Do("nothing", {}, <<>>, <<>>, {"index"})>>
Gzip       == <<Do("nothing", {"tar"}, <<>>, <<>>, {"tarball"})>>

(* The programs of a build, in order.                                      *)
Program(name, steps) == [name |-> name, steps |-> steps]
Programs(k) ==
  IF Fedora(k)
  THEN When(k.offline, <<Program("createrepo", Createrepo)>>)
       \o <<Program("mkosi-tools", MkosiTools), Program("mkosi", MkosiImage(k)), Program("gzip", Gzip)>>
  ELSE When(Disk(k), <<Program("tools-tree", DiskToolsProgram(k))>>)
       \o <<Program("image", ImageProgram(k))>>
       \o When(Disk(k), [i \in DOMAIN AssemblyPrograms |-> Program("tool", AssemblyPrograms[i])])

(* What the lock is written from, or checked against.                      *)
Reads(k) ==
  IF Fedora(k)
  THEN {"installed", "tools-record"} \cup (IF k.offline THEN {} ELSE {"locations"})
  ELSE {"dpkg-status"}
       \cup (IF k.offline THEN {} ELSE {"lists", "marks"})
       \cup (IF Disk(k) THEN {"tools-status"} \cup (IF k.offline THEN {} ELSE {"tools-lists"}) ELSE {})
       \cup (IF ~k.python THEN {}
             ELSE IF k.offline THEN {"pip-list"}
             ELSE {"pip-report"} \cup (IF k.index THEN {"pip-pin-report"} ELSE {}))

(* What the recipe promises of the image.                                  *)
Promised(k) ==
  {"user"} \cup (IF Disk(k) THEN {"fstab", "hostname", "password"} ELSE {"wsl.conf"})
  \cup (IF k.sudo THEN {"sudoers"} ELSE {}) \cup (IF k.keys THEN {"keyrings"} ELSE {})
  \cup (IF k.certificates THEN {"certificates", "trust-store"} ELSE {})
  \cup (IF k.python THEN {"venv"} ELSE {})
=============================================================================
