------------------------------ MODULE Bootstrap ------------------------------
(* scripts/bootstrap_runtime.py and runtime_contract.py: the venv that the   *)
(* server runs in is brought up to the contract by steps that may fail or be *)
(* cut short, and are begun again; check decides from what is on the disk.   *)
(* git, pip and patch are external: each does its step whole, or not at all. *)
VARIABLES disk,      \* what the venv holds
          legacy,    \* legacy_trees_ready
          step,      \* the step install is at, or "none"
          cutShort   \* it was stopped between the GDN patch and the unlink

bootVars == <<disk, legacy, step, cutShort>>

NoVenv == [python |-> FALSE, torch |-> FALSE, gdn |-> "absent", built |-> "none",
           kernel |-> "absent", cutlass |-> FALSE]
BootInit == disk = NoVenv /\ legacy = FALSE /\ step = "none" /\ cutShort = FALSE

\* missing_pieces.
Missing == {m \in {"exllamav3", "gdn-determinism", "flashinfer-pscale", "cutlass-dsl"} :
               \/ m = "exllamav3" /\ disk.gdn = "absent"
               \/ m = "gdn-determinism" /\ disk.gdn \in {"upstream", "other"}
               \/ m = "flashinfer-pscale" /\ ~legacy /\ disk.kernel # "patched"
               \/ m = "cutlass-dsl" /\ ~legacy /\ disk.kernel = "patched" /\ ~disk.cutlass}

\* The source of the extension that is imported: what was built, or else the
\* .cu file, which is compiled at the import.
Loaded == IF disk.built = "none" THEN disk.gdn ELSE disk.built

Goto(s) == step' = s /\ UNCHANGED legacy
Same == UNCHANGED <<disk, cutShort>>

\* install: _ensure_venv, then pip, then torch if its import fails.
Install == /\ step = "none" /\ Goto("torch") /\ UNCHANGED cutShort
           /\ disk' = [disk EXCEPT !.python = TRUE]
Torch == /\ step = "torch" /\ Goto("gdn") /\ UNCHANGED cutShort
         /\ disk' = [disk EXCEPT !.torch = TRUE]

\* _install_exllamav3: nothing, a fresh build, a patch, or a refusal.
Gdn == /\ step = "gdn" /\ UNCHANGED cutShort
       /\ \/ disk.gdn = "patched" /\ Goto("flash") /\ UNCHANGED disk
          \/ disk.gdn = "absent" /\ Goto("flash") /\ disk' = [disk EXCEPT !.gdn = "patched", !.built = "patched"]
          \/ disk.gdn = "upstream" /\ Goto("unlink") /\ disk' = [disk EXCEPT !.gdn = "patched"]
          \/ disk.gdn = "other" /\ Goto("none") /\ UNCHANGED disk

\* Mutant: the build that is there is not removed first.
UnlinkedKept == disk

\* The builds of the unpatched source are removed.
Unlinked == [disk EXCEPT !.built = "none"]
Unlink == step = "unlink" /\ Goto("rebuild") /\ disk' = Unlinked /\ UNCHANGED cutShort

\* The import that compiles, and the copy of what it compiled.
Rebuild == /\ step = "rebuild" /\ Goto("flash") /\ UNCHANGED cutShort
           /\ disk' = [disk EXCEPT !.built = Loaded]

\* _install_flashinfer: pip leaves a kernel alone or puts the upstream there.
Flash ==
    /\ step = "flash" /\ UNCHANGED cutShort
    /\ \/ (legacy \/ (disk.kernel = "patched" /\ disk.cutlass)) /\ Goto("missing") /\ UNCHANGED disk
       \/ /\ ~legacy /\ ~(disk.kernel = "patched" /\ disk.cutlass)
          /\ \E k \in {"upstream"} \cup ({disk.kernel} \ {"absent"}) :
                /\ disk' = [disk EXCEPT !.kernel = k, !.cutlass = TRUE]
                /\ Goto(CASE k = "patched" -> "missing" [] k = "upstream" -> "patch" [] OTHER -> "none")
FlashPatch == /\ step = "patch" /\ Goto("missing") /\ UNCHANGED cutShort
              /\ disk' = [disk EXCEPT !.kernel = "patched"]
Finish == step = "missing" /\ Goto("none") /\ Same

\* A command fails, or the process is stopped.
CutShort == /\ step # "none" /\ Goto("none") /\ UNCHANGED disk
            /\ cutShort' = (cutShort \/ step = "unlink")

\* The operator installs ExLlamaV3 or FlashInfer, or moves the legacy trees.
Operator == /\ step = "none" /\ step' = step
            /\ \/ /\ \E v \in {"upstream", "other"} : disk' = [disk EXCEPT !.gdn = v, !.built = v]
                  /\ cutShort' = FALSE /\ UNCHANGED legacy
               \/ /\ \E v \in {"upstream", "other"} : disk' = [disk EXCEPT !.kernel = v]
                  /\ UNCHANGED <<cutShort, legacy>>
               \/ Same /\ legacy' = ~legacy
BootOperator == disk.python /\ Operator

BootNext == \/ Install \/ Torch \/ Gdn \/ Unlink \/ Rebuild
            \/ Flash \/ FlashPatch \/ Finish \/ CutShort \/ BootOperator
BootSpec == BootInit /\ [][BootNext]_bootVars

----
(* When check finds nothing missing, the extension that is imported was built *)
(* from the patched source, although check looks at the source alone and any  *)
(* step of an install may be cut short - but for one: between the patch and   *)
(* the unlink, after which the old build is served as ready for good          *)
(* (bootstrap_runtime.py:171).                                                *)
ReadyIsPatched == Missing = {} /\ step = "none" /\ ~cutShort => Loaded = "patched"
=============================================================================
