--------------------------- MODULE ReleaseContract ---------------------------
(***************************************************************************)
(* The three gates a release passes on its way into the installation: the  *)
(* check of the release service's history (wails_updater.go), the          *)
(* validation of the package it unpacks to (internal/update/staging.go),   *)
(* and the validation of the request that hands the prepared unit to the   *)
(* helper process (internal/update/helper.go).  They are pure: what they   *)
(* read is given, what they answer is used by ApplicationUpdate.           *)
(*                                                                         *)
(* A number of a version is the sequence of its digits and a word that of  *)
(* its letters, because the code compares them as strings.  An asset goes  *)
(* by its target, which determines its name; a path is the sequence of its *)
(* names from the root of the volume.                                      *)
(***************************************************************************)
EXTENDS Naturals, Sequences, FiniteSets

CONSTANTS
  Ascending,   \* versions in the order of SemVer precedence
  Histories,   \* the releases of the service, and how it answers for each page
  PerPage,     \* releases of a full page
  PageLimit,   \* pages that are asked for at most
  Builds,      \* Builds[i][target]: what the release workflow packs for Ascending[i]
  Archives,    \* archives that may be found in a release
  Layouts,     \* where unit, recovery record and temporary files may be
  TempDir

ASSUME PagesAssumption == PerPage \in Nat \ {0} /\ PageLimit \in Nat \ {0}

Least(S) == CHOOSE i \in S : \A j \in S : i <= j

-----------------------------------------------------------------------------
(* Versions: [core |-> three numbers, pre |-> identifiers].                 *)

Differ(s, t) == {i \in DOMAIN s \cap DOMAIN t : s[i] # t[i]}

\* strings.Compare
TextBelow(s, t) ==
  LET d == Differ(s, t) IN
  IF d = {} THEN Len(s) < Len(t) ELSE s[Least(d)] < t[Least(d)]

\* Mutant of NumberBelow: numbers are compared as text, and 11 comes before 2.
NumberBelowAsText(s, t) == TextBelow(s, t)

NumberBelow(s, t) == Len(s) < Len(t) \/ (Len(s) = Len(t) /\ TextBelow(s, t))

IdentifierBelow(a, b) ==
  IF a.numeric # b.numeric THEN a.numeric
  ELSE IF a.numeric THEN NumberBelow(a.text, b.text) ELSE TextBelow(a.text, b.text)

CoreBelow(s, t) ==
  LET d == Differ(s, t) IN d # {} /\ NumberBelow(s[Least(d)], t[Least(d)])

\* A release comes after all its prereleases, which are compared identifier by identifier.
PreBelow(s, t) ==
  LET d == Differ(s, t) IN
  /\ s # <<>>
  /\ t # <<>> => (IF d = {} THEN Len(s) < Len(t) ELSE IdentifierBelow(s[Least(d)], t[Least(d)]))

Older(v, w) == CoreBelow(v.core, w.core) \/ (v.core = w.core /\ PreBelow(v.pre, w.pre))

-----------------------------------------------------------------------------
(* The check.                                                               *)

Targets == {[os |-> os, arch |-> arch] : os \in {"windows", "linux", "darwin"}, arch \in {"amd64", "arm64"}}

ReleaseAssets == Targets \ {[os |-> "darwin", arch |-> "amd64"]}

\* A page that is "not found" is an empty one; a short page is the last.
Page(history, n) ==
  IF history.pages[n] # "found" THEN <<>>
  ELSE LET start == PerPage * (n - 1) IN
       SubSeq(history.releases, start + 1,
              IF Len(history.releases) < start + PerPage THEN Len(history.releases) ELSE start + PerPage)

Short(history) == {n \in 1 .. PageLimit : Len(Page(history, n)) < PerPage}
Asked(history) == 1 .. Least(Short(history))

Unreadable(history) ==
  Short(history) = {} \/ \E n \in Asked(history) : history.pages[n] = "failed"

Releases(history) ==
  UNION {{Page(history, n)[i] : i \in DOMAIN Page(history, n)} : n \in Asked(history)}

\* The tag is canonical, and the flags of the release say what its tag says.
WellFormed(release) ==
  /\ release.canonical
  /\ release.prerelease <=> release.version.pre # <<>>
  /\ release.published

Eligible(history, current) ==
  {release \in Releases(history) :
     /\ ~release.draft
     /\ release.prerelease => current.pre # <<>>
     /\ Older(current, release.version)}

Newest(releases) == CHOOSE r \in releases : \A s \in releases : ~Older(r.version, s.version)

\* selectApplicationReleaseAsset: every governed asset once, uploaded and with its digest.
CompleteInventory(release) ==
  /\ Len(release.assets) = Cardinality(ReleaseAssets)
  /\ {release.assets[i].target : i \in DOMAIN release.assets} = ReleaseAssets
  /\ \A i \in DOMAIN release.assets : release.assets[i].uploaded /\ release.assets[i].digest

Offered(releases, target) ==
  IF releases = {} THEN "Current"
  ELSE IF CompleteInventory(Newest(releases)) /\ target \in ReleaseAssets THEN "Available"
  ELSE "Failed"

Check(history, current, target) ==
  IF Unreadable(history) THEN "Failed"
  ELSE IF \E release \in Releases(history) : ~release.draft /\ ~WellFormed(release) THEN "Failed"
  ELSE Offered(Eligible(history, current), target)

-----------------------------------------------------------------------------
(* The package.                                                             *)

\* validateTarget
StagingTargets == Targets \ {[os |-> "darwin", arch |-> "amd64"]}

Required(target) ==
  [path \in {"executable", "notices", "icon", "demo", "players"}
              \cup (IF target.os = "darwin" THEN {"plist"} ELSE {}) |->
     IF path = "executable" THEN "0755" ELSE "0444"]

\* The permissions the standard library reports: Windows knows read-only files only.
Permissions(os, mode) == IF os = "windows" /\ mode # "0444" THEN "0666" ELSE mode

\* An archive as the updater has unpacked it and inspectExtractedApplicationFiles finds it.
Unpacked(archive, os) ==
  [archive EXCEPT !.files =
     [path \in DOMAIN archive.files |->
        [archive.files[path] EXCEPT !.mode = Permissions(os, archive.files[path].mode)]]]

\* validateExtractedManifest for the release that was offered: nothing but the files of
\* the target, each as the manifest describes it.
Accepts(version, target, package) ==
  /\ target \in StagingTargets
  /\ package.regular
  /\ package.identity = [version |-> version, target |-> target, sound |-> TRUE]
  /\ DOMAIN package.files = DOMAIN Required(target)
  /\ \A path \in DOMAIN package.files :
       package.files[path].mode = Required(target)[path] /\ package.files[path].content # "empty"
  /\ package.orderly /\ package.listed = package.files

-----------------------------------------------------------------------------
(* The handover.                                                            *)

Within(path, parent) ==
  Len(parent) <= Len(path) /\ SubSeq(path, 1, Len(parent)) = parent

Parent(path) == SubSeq(path, 1, Len(path) - 1)

\* validHelperTarget
HelperTargets == Targets \ {[os |-> "windows", arch |-> "arm64"]}

\* stageApplicationUnit copies beside the installed unit, helperBackupPath sets it aside
\* there, and LaunchCopiedReplacementHelper copies the executable to the temporary files.
Staged(layout) == Append(Parent(layout.unit), "update")
Backup(layout) == Append(Parent(layout.unit), "backup")
HelperDirectory == Append(TempDir, "helper")

\* validateHelperRequest, before and, with the directory to clean up, after it was encoded.
HandsOver(target, layout) ==
  /\ target \in HelperTargets
  /\ layout.unit # <<>>
  /\ ~Within(layout.recovery, layout.unit) /\ ~Within(layout.recovery, Staged(layout))
  /\ ~Within(layout.unit, HelperDirectory) /\ ~Within(Staged(layout), HelperDirectory)

-----------------------------------------------------------------------------
(* Properties.                                                              *)

\* Versions are compared as SemVer says, whichever of two comes first in the history.
VersionsAreOrdered ==
  \A i, j \in DOMAIN Ascending : Older(Ascending[i], Ascending[j]) <=> i < j

Precedence(version) == CHOOSE i \in DOMAIN Ascending : Ascending[i] = version

\* An installation is offered the newest release it may see of the whole history, never
\* one of its own version or older, and is current only when there is none; a history
\* that is not read to its end offers nothing.
OffersAreNewest ==
  \A history \in {h \in Histories : \A n \in 1 .. PageLimit : h.pages[n] # "missing"} :
    \A i \in DOMAIN Ascending, target \in ReleaseAssets :
      LET answer == Check(history, Ascending[i], target)
          all == {history.releases[k] : k \in DOMAIN history.releases}
          visible == {r \in all : ~r.draft /\ (r.prerelease => Ascending[i].pre # <<>>)}
          newer == {r \in visible : Precedence(r.version) > i} IN
      /\ answer = "Current" => newer = {}
      /\ answer = "Available" =>
           \E r \in newer : /\ CompleteInventory(r)
                           /\ \A s \in newer : Precedence(s.version) <= Precedence(r.version)

\* Whatever may be offered can be installed, and nothing else: outside Windows, of all
\* archives exactly the one built for the offered release and target is staged, and its
\* unit is handed over wherever the recovery record is not a part of what is replaced
\* (selectApplicationReleaseAsset, validateExtractedManifest, validateHelperRequest).
GatesAgree ==
  \A target \in {t \in ReleaseAssets : t.os # "windows"} :
    /\ \A archive \in Archives, i \in DOMAIN Ascending :
         Accepts(Ascending[i], target, Unpacked(archive, target.os)) <=> archive = Builds[i][target]
    /\ \A layout \in Layouts :
         ~Within(layout.recovery, layout.unit) /\ ~Within(layout.unit, HelperDirectory) =>
           HandsOver(target, layout)

\* What the helper renames and removes is apart from the record it writes and from the
\* directory it runs in and removes, unless the unit holds the temporary files.
HandoverIsContained ==
  \A target \in Targets, layout \in Layouts :
    HandsOver(target, layout) /\ ~Within(TempDir, layout.unit) =>
      \A path \in {layout.unit, Staged(layout), Backup(layout)} :
        /\ ~Within(layout.recovery, path)
        /\ ~Within(path, HelperDirectory) /\ ~Within(HelperDirectory, path)
=============================================================================
