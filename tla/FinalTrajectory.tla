--------------------------- MODULE FinalTrajectory ---------------------------
(***************************************************************************)
(* write_evaluation_final_trajectory (src/utils/evaluation_recorder.cpp):  *)
(* the files are written and checked in a staging directory, which is      *)
(* published by renaming it.                                               *)
(*                                                                         *)
(* The exporter is the adapter's exportFinalTrajectories over the upstream *)
(* System (external): it may leave anything behind, throw, or return any   *)
(* result.  Someone else may create the destination or the staging         *)
(* directory at any time; a crash is a behaviour that ends early.          *)
(*                                                                         *)
(* A trajectory file is Absent, a number of rows, or Malformed (not a      *)
(* regular file, not readable, with an empty row).  In a result, counts    *)
(* says that its row counts add up with finite times, and calibrated that  *)
(* target, map, origin and transforms are those the sensor mode requires.  *)
(* The sensor mode and the exporter are given by the node, so the two      *)
(* checks of the arguments never fail.                                     *)
(***************************************************************************)
EXTENDS Naturals

CONSTANTS NoResult, Absent, Malformed,
          MaxRows            \* bound: rows of a file

Files == {"frames", "keyframes"}
Statuses == {"Complete", "NoMap", "NoKeyFrames", "NoFramePoses"}
Results == [status : Statuses, map_selected : BOOLEAN, written : [Files -> 0..MaxRows],
            counts : BOOLEAN, calibrated : BOOLEAN]
Contents == [Files -> {Absent, Malformed} \cup 0..MaxRows]
Manifests == [available : BOOLEAN, map_selected : BOOLEAN, present : [Files -> BOOLEAN],
              written : [Files -> 0..MaxRows]]

ASSUME TrajectoryAssumption ==
    /\ MaxRows \in Nat
    /\ Absent \notin Nat \cup Manifests /\ NoResult \notin Results

VARIABLES
    step,                    \* where the export is
    destination,             \* final_trajectory: absent, foreign, empty, published
    staging,                 \* final_trajectory.tmp: absent, foreign, ours
    files,                   \* the trajectory files written
    result,                  \* what the exporter returned, or NoResult
    temporary,               \* manifest.json.tmp: absent, partial, complete
    manifest                 \* manifest.json: Absent or what it says

trajectory == <<step, destination, staging, files, result, temporary, manifest>>

TrajectoryInit ==
    /\ step = "begin"
    /\ destination = "absent" /\ staging = "absent"
    /\ files = [f \in Files |-> Absent]
    /\ result = NoResult /\ temporary = "absent" /\ manifest = Absent

Fail == step' = "failed"

-----------------------------------------------------------------------------
begin ==
    /\ step = "begin"
    /\ \/ destination = "absent" /\ staging = "absent" /\ staging' = "ours" /\ step' = "export"
       \/ Fail /\ UNCHANGED staging
    /\ UNCHANGED <<destination, files, result, temporary, manifest>>

\* Whatever status or target the adapter does not know is an exception too.
export ==
    /\ step = "export"
    /\ files' \in Contents
    /\ \/ result' \in Results /\ step' = "validate"
       \/ Fail /\ UNCHANGED result
    /\ UNCHANGED <<destination, staging, temporary, manifest>>

\* validate_final_trajectory_result.
ResultValid(r) ==
    /\ r.status = "Complete" => r.map_selected /\ \A f \in Files : r.written[f] # 0
    /\ r.status = "NoMap" => ~r.map_selected
    /\ r.status = "NoKeyFrames" => r.written["keyframes"] = 0
    /\ r.status = "NoFramePoses" => r.map_selected /\ r.written["frames"] = 0
    /\ ~r.map_selected => \A f \in Files : r.written[f] = 0
    /\ r.calibrated

validate ==
    /\ step = "validate"
    /\ IF ResultValid(result) THEN step' = "inspect" ELSE Fail
    /\ UNCHANGED <<destination, staging, files, result, temporary, manifest>>

\* Mutant of FileValid: a file that is missing is never an error.
FileOptional(f) == files[f] = Absent \/ files[f] = result.written[f]

\* inspect_trajectory_file: a file may be missing only when no map was selected.
FileValid(f) ==
    IF files[f] = Absent THEN ~result.map_selected /\ result.written[f] = 0
                           ELSE files[f] = result.written[f]

inspect ==
    /\ step = "inspect"
    /\ IF result.counts /\ \A f \in Files : FileValid(f) THEN step' = "manifest" ELSE Fail
    /\ UNCHANGED <<destination, staging, files, result, temporary, manifest>>

write_manifest ==
    /\ step = "manifest"
    /\ \/ temporary' = "complete" /\ step' = "name_manifest"
       \/ temporary' \in {"absent", "partial"} /\ Fail
    /\ UNCHANGED <<destination, staging, files, result, manifest>>

\* What the manifest says once it has its name.
Manifest == [available |-> result.status = "Complete", map_selected |-> result.map_selected,
             present |-> [f \in Files |-> files[f] # Absent], written |-> result.written]

name_manifest ==
    /\ step = "name_manifest"
    /\ \/ manifest' = Manifest /\ temporary' = "absent" /\ step' = "recheck"
       \/ Fail /\ UNCHANGED <<temporary, manifest>>
    /\ UNCHANGED <<destination, staging, files, result>>

\* "Recheck to avoid replacing a destination created during export."
recheck ==
    /\ step = "recheck"
    /\ IF destination = "absent" THEN step' = "publish" ELSE Fail
    /\ UNCHANGED <<destination, staging, files, result, temporary, manifest>>

\* rename() of a directory replaces an empty directory and nothing else.
publish ==
    /\ step = "publish"
    /\ \/ /\ destination \in {"absent", "empty"}
          /\ destination' = "published" /\ staging' = "absent" /\ step' = "done"
       \/ Fail /\ UNCHANGED <<destination, staging>>
    /\ UNCHANGED <<files, result, temporary, manifest>>

someone_else ==
    /\ \/ destination = "absent" /\ destination' \in {"foreign", "empty"} /\ UNCHANGED staging
       \/ destination = "empty" /\ destination' = "foreign" /\ UNCHANGED staging
       \/ staging = "absent" /\ step = "begin" /\ staging' = "foreign" /\ UNCHANGED destination
    /\ UNCHANGED <<step, files, result, temporary, manifest>>

write_evaluation_final_trajectory ==
    begin \/ export \/ validate \/ inspect \/ write_manifest \/ name_manifest \/ recheck \/ publish

TrajectoryNext == write_evaluation_final_trajectory \/ someone_else

TrajectorySpec == TrajectoryInit /\ [][TrajectoryNext]_trajectory

-----------------------------------------------------------------------------
TrajectoryTypeOK ==
    /\ step \in {"begin", "export", "validate", "inspect", "manifest", "name_manifest",
                 "recheck", "publish", "done", "failed"}
    /\ destination \in {"absent", "foreign", "empty", "published"}
    /\ staging \in {"absent", "foreign", "ours"}
    /\ files \in Contents
    /\ result \in Results \cup {NoResult}
    /\ temporary \in {"absent", "partial", "complete"}
    /\ manifest \in Manifests \cup {Absent}

(* "Publish the complete directory last": at every moment, so after a crash *)
(* too, a published directory holds a complete manifest that tells the      *)
(* truth about the two files beside it -- each has as many rows as it says, *)
(* or is missing where it says so -- and calls a trajectory available only  *)
(* when a map was selected and both files have rows.  Anything less stays   *)
(* in staging.                                                              *)
PublishedComplete ==
    /\ step = "done" <=> destination = "published"
    /\ destination = "published" =>
        /\ manifest # Absent /\ temporary = "absent"
        /\ \A f \in Files : IF manifest.present[f] THEN files[f] = manifest.written[f]
                            ELSE files[f] = Absent /\ manifest.written[f] = 0
        /\ manifest.available => /\ manifest.map_selected
                                 /\ \A f \in Files : manifest.present[f] /\ manifest.written[f] > 0
    /\ step \notin {"begin", "failed", "done"} => staging = "ours"
    /\ (temporary # "absent" \/ manifest # Absent) /\ destination # "published" => staging = "ours"
=============================================================================
