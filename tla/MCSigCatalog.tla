------------------------------ MODULE MCSigCatalog ------------------------------
EXTENDS SigCatalog, TLC

\* A scan loads some of the registries, and not in the order of publication.
MCLoaded == <<3, 2>>

\* Importers and revisions are interchangeable, and no property is temporal.
MCSymmetry == Permutations(Importers) \cup Permutations(Revisions)

\* What a power loss may find matters only while one may still come.
MCView == <<snapshots, active, crashes, importer, analysis,
            IF crashes = 0 THEN <<>> ELSE <<entries, unsynced>> >>
=============================================================================
