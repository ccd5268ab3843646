-------------------------- MODULE EngineResources --------------------------
(***************************************************************************)
(* The operations that span several engine commands                        *)
(* (backend/internal/runtime/prune.go, volume_detail.go, volume_export.go, *)
(* network.go, cli_ops.go and their handlers): the clean-disk preview and  *)
(* the prunes that follow it, the clone of a volume, the export of one to  *)
(* a file, an image or a registry, and the single commands that interleave *)
(* with them.  Every command may fail.                                     *)
(*                                                                         *)
(* The engine is external: it is what docker does with the commands the    *)
(* code runs.  A volume is its contents.  Sizes, texts, what is in an      *)
(* archive and the helper image are left out.                              *)
(***************************************************************************)
EXTENDS Naturals, FiniteSets, TLC

CONSTANTS Names,        \* containers of the user
          Images,       \* images: records of a repository and a tag
          Backup,       \* the reference an export writes
          Volumes,      \* volume names
          Networks,     \* user-defined networks
          Helpers,      \* helper containers, one name for each export
          Nothing,      \* no volume
          MaxOps,       \* bound: single commands
          MaxJobs       \* bound: clean-disk, clone and export requests

ASSUME BackupAssumption == Backup \in Images /\ Nothing \notin Volumes \cup Helpers /\ Names \cap Helpers = {}
ASSUME HelpersAssumption == Cardinality(Helpers) >= MaxJobs

CLIs == {"nerdctl", "docker"}
Alpine == [repo |-> "alpine", tag |-> "none"]

\* How a container names its image: with its tag, or by the repository alone.
Refs == Images \cup {[i EXCEPT !.tag = "none"] : i \in Images} \cup {Alpine}
Categories == {"containers", "images", "volumes", "networks"}

VARIABLES
  containers,  \* a function on a subset of Names \cup Helpers
  images,      \* references present
  volumes,     \* a function from present volumes to their contents
  nets,        \* nets[cli]: user-defined networks a CLI lists
  prune,       \* the clean-disk request
  clone,       \* the clone request
  export,      \* the export
  ops, jobs,
  debris,      \* volumes and containers whose removal failed (history variable)
  orphans,     \* helpers made by a run -d that reported a failure (history variable)
  fresh        \* released, created or pulled since the preview (history variable)

vars == <<containers, images, volumes, nets, prune, clone, export, ops, jobs, debris, orphans, fresh>>

Contents == {"empty", "data", "copy", "part", "mixed"}
NoPreview == [containers |-> {}, images |-> {}, volumes |-> {}, networks |-> {}]
NoneFresh == [images |-> {}, volumes |-> {}]
NoPrune == [pc |-> "idle", listed |-> <<>>, namesakes |-> {}, read |-> {}, preview |-> NoPreview]
NoClone == [pc |-> "idle", src |-> Nothing, dst |-> Nothing]
NoExport == [pc |-> "idle", type |-> "none", volume |-> Nothing, helper |-> Nothing, saw |-> FALSE]

TypeOK ==
  /\ DOMAIN containers \subseteq Names \cup Helpers
  /\ \A c \in DOMAIN containers : containers[c].image \in Refs
       /\ containers[c].volume \in Volumes \cup {Nothing} /\ containers[c].state \in {"running", "exited", "created"}
  /\ images \subseteq Images
  /\ DOMAIN volumes \subseteq Volumes /\ \A v \in DOMAIN volumes : volumes[v] \in Contents
  /\ nets \in [CLIs -> SUBSET Networks]
  /\ prune.preview.images \subseteq Images
  /\ ops \in 0..MaxOps /\ jobs \in 0..MaxJobs

Init ==
  /\ containers \in [Names -> [image : {ref \in Refs : ref.repo \notin {"alpine", Backup.repo}},
                             volume : {CHOOSE v \in Volumes : TRUE}, state : {"running", "exited"}]]
  /\ images = Images
  /\ volumes = [v \in Volumes |-> "data"]
  /\ nets \in {[cli \in CLIs |-> IF cli = known THEN Networks ELSE {}] : known \in CLIs}
  /\ prune = NoPrune /\ clone = NoClone /\ export = NoExport
  /\ ops = 0 /\ jobs = 0 /\ debris = {} /\ orphans = {} /\ fresh = NoneFresh

-----------------------------------------------------------------------------
(* The engine's rules.                                                     *)

\* A reference without a tag means the tag latest.
Resolve(ref) == IF ref.tag = "none" THEN [ref EXCEPT !.tag = "latest"] ELSE ref
UsesImage(cs, i) == \E c \in DOMAIN cs : Resolve(cs[c].image) = i
UsesVolume(cs, v) == \E c \in DOMAIN cs : cs[c].volume = v
Without(f, S) == [x \in DOMAIN f \ S |-> f[x]]

\* What no container holds any more once those in S are gone.
ReleasedImages(S) == {i \in Images : UsesImage(containers, i) /\ ~UsesImage(Without(containers, S), i)}
ReleasedVolumes(S) == {v \in Volumes : UsesVolume(containers, v) /\ ~UsesVolume(Without(containers, S), v)}

Mark(is, vs) ==
  fresh' = IF prune.pc = "idle" THEN NoneFresh
           ELSE [images |-> fresh.images \cup is, volumes |-> fresh.volumes \cup vs]
NewJob == jobs < MaxJobs /\ jobs' = jobs + 1

-----------------------------------------------------------------------------
(* Single commands (cli_ops.go and the handlers of containers, images,     *)
(* volumes and networks): each is one engine command; a failure changes    *)
(* nothing.                                                                *)

Command == ops < MaxOps /\ ops' = ops + 1 /\ UNCHANGED <<prune, clone, export, jobs, debris, orphans>>

RunImage(c, i, v) ==
  /\ Command
  /\ c \notin DOMAIN containers /\ i \in images
  /\ containers' = (c :> [image |-> i, volume |-> v, state |-> "running"]) @@ containers
  /\ UNCHANGED <<images, volumes, nets, fresh>>

SetState(c, state) ==
  /\ Command
  /\ containers' = [containers EXCEPT ![c].state = state]
  /\ UNCHANGED <<images, volumes, nets, fresh>>

StartContainer(c) == containers[c].state = "exited" /\ SetState(c, "running")
StopContainer(c) == containers[c].state = "running" /\ SetState(c, "exited")

RemoveContainer(c) ==
  /\ Command
  /\ Mark(ReleasedImages({c}), ReleasedVolumes({c}))
  /\ containers' = Without(containers, {c})
  /\ UNCHANGED <<images, volumes, nets>>

RemoveImage(i) ==
  /\ Command
  /\ ~UsesImage(containers, i) /\ i \in images
  /\ images' = images \ {i}
  /\ UNCHANGED <<containers, volumes, nets, fresh>>

PullImage(i) ==
  /\ Command
  /\ images' = images \cup {i} /\ Mark({i}, {})
  /\ UNCHANGED <<containers, volumes, nets>>

CreateVolume(v) ==
  /\ Command
  /\ v \notin DOMAIN volumes
  /\ volumes' = (v :> "empty") @@ volumes /\ Mark({}, {v})
  /\ UNCHANGED <<containers, images, nets>>

RemoveVolume(v) ==
  /\ Command
  /\ v \in DOMAIN volumes /\ ~UsesVolume(containers, v)
  /\ volumes' = Without(volumes, {v})
  /\ UNCHANGED <<containers, images, nets, fresh>>

\* removeNetwork: nerdctl first, docker when it fails.
RemoveNetwork(n) ==
  /\ Command
  /\ \/ n \in nets["nerdctl"] /\ nets' = [nets EXCEPT !["nerdctl"] = @ \ {n}]
     \/ n \in nets["docker"] /\ n \notin nets["nerdctl"] /\ nets' = [nets EXCEPT !["docker"] = @ \ {n}]
  /\ UNCHANGED <<containers, images, volumes, fresh>>

CommandStep ==
  \/ \E c \in Names, i \in Images \ {Backup} : RunImage(c, i, Nothing)
  \/ \E c \in DOMAIN containers \cap Names : StartContainer(c) \/ StopContainer(c) \/ RemoveContainer(c)
  \/ \E i \in Images : RemoveImage(i) \/ PullImage(i)
  \/ \E v \in Volumes : CreateVolume(v) \/ RemoveVolume(v)
  \/ \E n \in Networks : RemoveNetwork(n)

-----------------------------------------------------------------------------
(* Clean disk: prunePreview lists, prune runs one command per category.    *)

\* containerKeptAlive
KeptAlive(c) == c.state = "running"

\* stoppedContainerPruneItems
StoppedContainerPruneItems(cs) == {c \in DOMAIN cs : ~KeptAlive(cs[c])}

\* imageMatchesRef: a bare repository, or its tag latest, matches each of its tags.
ImageMatchesRef(i, ref) == ref = i \/ (ref.tag \in {"none", "latest"} /\ ref.repo = i.repo)

\* usedImageKeys: the references of the containers and the images they match
UsedImageKeys(cs, is) ==
  LET refs == {cs[c].image : c \in DOMAIN cs} IN
  refs \cup {i \in is : \E ref \in refs : ImageMatchesRef(i, ref)}

\* imageIsUsed: by its reference or by its repository
ImageIsUsed(i, used) == i \in used \/ [i EXCEPT !.tag = "none"] \in used

\* unusedImagePruneItems, over the containers listed a command earlier
UnusedImagePruneItems(cs, is) == {i \in is : ~ImageIsUsed(i, UsedImageKeys(cs, is))}

\* Not in the code: keeps the volumes that are in use instead of the others.
UsedVolumes(inUse) == DOMAIN volumes \cap inUse

\* unusedVolumePruneItems, with what volumeNamesInUse found
UnusedVolumePruneItems(inUse) == DOMAIN volumes \ inUse

\* volumeNamesInUse: containers that cannot be inspected are passed over.
VolumeNamesInUse(inspected) == {containers[c].volume : c \in inspected}

\* listNetworks: both lists merged by name, or the one that could be read.
ListedNetworks(ok) == UNION {nets[cli] : cli \in ok}

\* History: the other tags of a repository that a container names by latest or by none.
Namesakes == {i \in Images : i.tag # "latest" /\ \E c \in DOMAIN prune.listed :
                                prune.listed[c].image \in {[i EXCEPT !.tag = tag] : tag \in {"none", "latest"}}}

StartPrune ==
  /\ prune.pc = "idle" /\ NewJob
  /\ prune' = [NoPrune EXCEPT !.pc = "list"]
  /\ fresh' = NoneFresh
  /\ UNCHANGED <<containers, images, volumes, nets, clone, export, ops, debris, orphans>>

\* An error of a listing, or of a prune, ends the request.
PruneFails ==
  /\ prune.pc \notin {"idle"}
  /\ prune' = NoPrune
  /\ UNCHANGED <<containers, images, volumes, nets, clone, export, ops, jobs, debris, orphans, fresh>>

ListContainersForPrune ==
  /\ prune.pc = "list"
  /\ prune' = [prune EXCEPT !.pc = "images?", !.listed = containers,
                            !.preview.containers = StoppedContainerPruneItems(containers)]
  /\ UNCHANGED <<containers, images, volumes, nets, clone, export, ops, jobs, debris, orphans, fresh>>

ListImagesForPrune ==
  /\ prune.pc = "images?"
  /\ prune' = [prune EXCEPT !.pc = "volumes?", !.listed = <<>>, !.namesakes = Namesakes,
                            !.preview.images = UnusedImagePruneItems(prune.listed, images)]
  /\ UNCHANGED <<containers, images, volumes, nets, clone, export, ops, jobs, debris, orphans, fresh>>

ListVolumesForPrune ==
  /\ prune.pc = "volumes?"
  /\ \E inspected \in SUBSET DOMAIN containers :
       prune' = [prune EXCEPT !.pc = "networks?",
                              !.preview.volumes = UnusedVolumePruneItems(VolumeNamesInUse(inspected))]
  /\ UNCHANGED <<containers, images, volumes, nets, clone, export, ops, jobs, debris, orphans, fresh>>

ListNetworksForPrune ==
  /\ prune.pc = "networks?"
  /\ \E ok \in SUBSET CLIs \ {{}} :
       prune' = [prune EXCEPT !.pc = "containers", !.read = ok, !.preview.networks = ListedNetworks(ok)]
  /\ UNCHANGED <<containers, images, volumes, nets, clone, export, ops, jobs, debris, orphans, fresh>>

Then == [containers |-> "networks", networks |-> "images", images |-> "volumes"]

\* The client chose the categories; a category it left out is passed over.
Skip(category) ==
  /\ prune.pc = category
  /\ prune' = IF category = "volumes" THEN NoPrune ELSE [prune EXCEPT !.pc = Then[category]]
  /\ UNCHANGED <<containers, images, volumes, nets, clone, export, ops, jobs, debris, orphans, fresh>>

Pruning(category) ==
  /\ prune.pc = category
  /\ prune' = IF category = "volumes" THEN NoPrune ELSE [prune EXCEPT !.pc = Then[category]]
  /\ UNCHANGED <<clone, export, ops, jobs, debris, orphans>>

PruneContainers ==
  LET S == StoppedContainerPruneItems(containers) IN
  /\ Pruning("containers")
  /\ Mark(ReleasedImages(S), ReleasedVolumes(S))
  /\ containers' = Without(containers, S)
  /\ UNCHANGED <<images, volumes, nets>>

\* Which unused networks and volumes a prune takes depends on the engine.
PruneNetworks ==
  /\ Pruning("networks")
  /\ \E S \in SUBSET nets["nerdctl"] : nets' = [nets EXCEPT !["nerdctl"] = @ \ S]
  /\ UNCHANGED <<containers, images, volumes, fresh>>

PruneImages ==
  /\ Pruning("images")
  /\ images' = {i \in images : UsesImage(containers, i)}
  /\ UNCHANGED <<containers, volumes, nets, fresh>>

PruneVolumes ==
  /\ Pruning("volumes")
  /\ \E S \in SUBSET {v \in DOMAIN volumes : ~UsesVolume(containers, v)} : volumes' = Without(volumes, S)
  /\ UNCHANGED <<containers, images, nets, fresh>>

PruneStep ==
  \/ StartPrune \/ PruneFails \/ ListContainersForPrune \/ ListImagesForPrune
  \/ ListVolumesForPrune \/ ListNetworksForPrune
  \/ \E category \in Categories : Skip(category)
  \/ PruneContainers \/ PruneNetworks \/ PruneImages \/ PruneVolumes

-----------------------------------------------------------------------------
(* cloneVolume.                                                            *)

StartClone ==
  /\ clone.pc = "idle" /\ NewJob
  /\ \E src \in DOMAIN volumes : \E dst \in Volumes \ {src} :
       clone' = [NoClone EXCEPT !.pc = "create", !.src = src, !.dst = dst]
  /\ UNCHANGED <<containers, images, volumes, nets, prune, export, ops, debris, orphans, fresh>>

\* volume create succeeds for a volume that exists and leaves it as it is.
CloneCreates ==
  /\ clone.pc = "create"
  /\ \/ clone' = NoClone /\ UNCHANGED <<volumes, fresh>>
     \/ /\ clone' = [clone EXCEPT !.pc = "copy"]
        /\ volumes' = volumes @@ (clone.dst :> "empty")
        /\ Mark({}, {clone.dst})
  /\ UNCHANGED <<containers, images, nets, prune, export, ops, jobs, debris, orphans>>

Writable == {clone.src, clone.dst} \subseteq DOMAIN volumes

\* The second inspect and cp -a: a failure may leave a part of the copy behind.
CloneCopies ==
  /\ clone.pc = "copy"
  /\ \/ /\ Writable
        /\ volumes' = [volumes EXCEPT ![clone.dst] = IF @ = "empty" THEN "copy" ELSE "mixed"]
        /\ clone' = NoClone
     \/ /\ clone' = [clone EXCEPT !.pc = "rollback"]
        /\ \/ UNCHANGED volumes
           \/ Writable /\ volumes' = [volumes EXCEPT ![clone.dst] = IF @ = "empty" THEN "part" ELSE "mixed"]
  /\ UNCHANGED <<containers, images, nets, prune, export, ops, jobs, debris, orphans, fresh>>

\* volume rm: refused while a container holds it, and its error is dropped.
CloneRollback ==
  /\ clone.pc = "rollback"
  /\ clone' = NoClone
  /\ \/ /\ ~UsesVolume(containers, clone.dst)
        /\ volumes' = Without(volumes, {clone.dst})
        /\ UNCHANGED debris
     \/ debris' = debris \cup {clone.dst} /\ UNCHANGED volumes
  /\ UNCHANGED <<containers, images, nets, prune, export, ops, jobs, orphans, fresh>>

CloneStep == StartClone \/ CloneCreates \/ CloneCopies \/ CloneRollback

-----------------------------------------------------------------------------
(* ExecuteVolumeExport and RunVolumeExport.                                *)

Types == {"local_file", "local_image", "new_image", "registry"}
Export(next) == export' = next /\ UNCHANGED <<nets, prune, clone, ops>>
Fail == [NoExport EXCEPT !.pc = "failed"]
Done == [NoExport EXCEPT !.pc = "done"]

\* new_image refuses a reference that exists; an inspect that fails shows none.
StartExport ==
  /\ export.pc = "idle" /\ NewJob
  /\ \E type \in Types, v \in Volumes, inspected \in BOOLEAN :
       LET started == [NoExport EXCEPT !.pc = "archive", !.type = type, !.volume = v] IN
       Export(IF type = "new_image" /\ inspected /\ Backup \in images THEN Fail ELSE started)
  /\ UNCHANGED <<containers, images, volumes, debris, orphans, fresh>>

\* docker run --rm -v creates a volume that does not exist.
ArchiveVolume ==
  /\ export.pc = "archive"
  /\ volumes' = volumes @@ (export.volume :> "empty")
  /\ \/ Export([export EXCEPT !.pc = CASE export.type = "local_file" -> "deliver"
                                      [] export.type = "new_image" -> "helper"
                                      [] OTHER -> "rmi"])
     \/ Export(Fail)
  /\ Mark({}, {export.volume})
  /\ UNCHANGED <<jobs, containers, images, debris, orphans>>

\* copyArchiveToFolder, which removes a destination it could not fill; pushImage.
DeliverArchive ==
  /\ export.pc \in {"deliver", "push"}
  /\ Export(Done) \/ Export(Fail)
  /\ UNCHANGED <<jobs, containers, images, volumes, debris, orphans, fresh>>

\* rmi -f of the previous image; its error is dropped.
RemovePrevious ==
  /\ export.pc = "rmi"
  /\ Export([export EXCEPT !.pc = "helper"])
  /\ images' = images \ {Backup} \/ images' = images
  /\ UNCHANGED <<jobs, containers, volumes, debris, orphans, fresh>>

HelperIs(h, state) == containers' = (h :> [image |-> Alpine, volume |-> Nothing, state |-> state]) @@ containers

\* The name is made from the id of the export.
FreshHelper == CHOOSE h \in Helpers : h \notin DOMAIN containers \cup debris \cup orphans

\* run -d of the helper container; only a success defers its removal, and a run
\* that reports a failure may have made the container, or started it.
StartHelper ==
  /\ export.pc = "helper"
  /\ LET h == FreshHelper IN
       \/ HelperIs(h, "running") /\ Export([export EXCEPT !.pc = "commit", !.helper = h]) /\ UNCHANGED orphans
       \/ Export(Fail) /\ UNCHANGED <<containers, orphans>>
       \/ /\ \E state \in {"created", "running"} : HelperIs(h, state)
          /\ orphans' = orphans \cup {h} /\ Export(Fail)
  /\ UNCHANGED <<jobs, images, volumes, debris, fresh>>

\* cp, exec and commit.
CommitImage ==
  /\ export.pc = "commit"
  /\ \/ /\ export.helper \in DOMAIN containers
        /\ images' = images \cup {Backup} /\ Mark({Backup}, {})
        /\ Export([export EXCEPT !.pc = "remove", !.saw = TRUE])
     \/ Export([export EXCEPT !.pc = "remove"]) /\ UNCHANGED <<images, fresh>>
  /\ UNCHANGED <<jobs, containers, volumes, debris, orphans>>

\* Not in the code: the helper is removed only after a commit that succeeded.
RemoveAfterCommit ==
  /\ export.pc = "remove"
  /\ Export(CASE ~export.saw -> Fail
              [] export.saw /\ export.type = "registry" -> [export EXCEPT !.pc = "push"]
              [] OTHER -> Done)
  /\ containers' = IF export.saw THEN Without(containers, {export.helper}) ELSE containers
  /\ UNCHANGED <<jobs, images, volumes, debris, orphans, fresh>>

\* The deferred rm -f, under a context of its own; its error is dropped.
RemoveHelper ==
  /\ export.pc = "remove"
  /\ Export(CASE ~export.saw -> Fail
              [] export.saw /\ export.type = "registry" -> [export EXCEPT !.pc = "push"]
              [] OTHER -> Done)
  /\ \/ containers' = Without(containers, {export.helper}) /\ UNCHANGED debris
     \/ debris' = debris \cup {export.helper} /\ UNCHANGED containers
  /\ UNCHANGED <<jobs, images, volumes, orphans, fresh>>

\* The record is saved again; ExportScheduler follows it.
SaveExport ==
  /\ export.pc \in {"done", "failed"}
  /\ Export(NoExport)
  /\ UNCHANGED <<jobs, containers, images, volumes, debris, orphans, fresh>>

ExportStep ==
  \/ StartExport \/ ArchiveVolume \/ DeliverArchive \/ RemovePrevious
  \/ StartHelper \/ CommitImage \/ RemoveHelper \/ SaveExport

Next == CommandStep \/ PruneStep \/ CloneStep \/ ExportStep

Spec == Init /\ [][Next]_vars

-----------------------------------------------------------------------------
(* Properties.                                                             *)

\* A clean-disk request removes nothing beyond the preview it starts with, on which it
\* reports, save what was released, pulled or created since and an image that the preview
\* takes for the one a container names: another tag of a repository that is named by its
\* tag latest or without a tag.
PruneStaysWithinPreview ==
  [][/\ prune.pc = "images" => images \ images' \subseteq prune.preview.images \cup fresh.images \cup prune.namesakes
     /\ (prune.pc = "networks" /\ prune.read = CLIs) => nets["nerdctl"] \ nets'["nerdctl"] \subseteq prune.preview.networks
     /\ prune.pc = "volumes" => DOMAIN volumes \ DOMAIN volumes' \subseteq prune.preview.volumes \cup fresh.volumes]_prune

\* A helper of an export that no export works with any more.
LeftHelpers == {h \in Helpers \cap DOMAIN containers : export.helper # h \/ export.pc \notin {"commit", "remove"}}

\* What a failed step leaves is removed: the new volume of a clone that copied part of the
\* old one, and the helper container of an export whose start succeeded, unless the removal
\* fails too.
LeftoversAreRemoved ==
  /\ \A v \in DOMAIN volumes : volumes[v] = "part" => v \in debris \/ (clone.dst = v /\ clone.pc # "idle")
  /\ LeftHelpers \subseteq debris \cup orphans

\* Not true of the code: a run -d that reports a failure after it made the container is
\* not followed by its removal.
EveryHelperIsRemoved == LeftHelpers \subseteq debris

=============================================================================
