----------------------------- MODULE AdminWorld -----------------------------
(***************************************************************************)
(* The administrator's side of the BFF: the jobs of the registry are world *)
(* imports, which change the backend's data behind the list cache, and     *)
(* image refreshes, and their end clears the cache; list requests, writes  *)
(* and overrides go on meanwhile.  (Progress, sockets and calibrations     *)
(* touch none of this and run in ImportJobs by itself.)                    *)
(***************************************************************************)
EXTENDS ImportJobs, ListCache, AircraftImages

adminVars == <<jobsVars, cacheVars, imagesVars>>

AdminInit == JobsInit /\ CacheInit /\ ImagesInit

-----------------------------------------------------------------------------

Start(kind) ==
    /\ StartJob(kind)
    /\ UNCHANGED <<cacheVars, imagesVars>>

\* A create or an update of the import (WorldImport has them one by one).
ImportWrites ==
    /\ ActiveJob("import")
    /\ Changes
    /\ UNCHANGED <<jobsVars, write, imagesVars>>

\* runJob: cache.clear() only after an import without errors.
EndWorldJob ==
    /\ ~NoActiveJob
    /\ ~ActiveJob("images")
    /\ \E status \in Ended :
          /\ EndJob(status)
          /\ IF status = "succeeded" /\ ActiveJob("import")
             THEN ClearCache /\ UNCHANGED <<version, write>>
             ELSE UNCHANGED cacheVars
    /\ UNCHANGED imagesVars

LoadTypes ==
    /\ ActiveJob("images")
    /\ \E option \in BOOLEAN : CopyImages(option)
    /\ UNCHANGED <<jobsVars, cacheVars>>

RefreshType ==
    /\ ActiveJob("images")
    /\ SkipType \/ FetchImage \/ MissImage \/ FindImage
    /\ UNCHANGED <<jobsVars, cacheVars>>

\* runAircraftImagesJob: failed when there were errors and nothing was found.
EndImagesJob ==
    /\ ActiveJob("images")
    /\ FinishImages
    /\ \/ EndJob("succeeded") /\ ClearCache /\ UNCHANGED <<version, write>>
       \/ EndJob("failed") /\ UNCHANGED cacheVars

\* No token or no list: the job throws before it has copied anything.
ImagesJobFails ==
    /\ ActiveJob("images")
    /\ position = 0
    /\ EndJob("failed")
    /\ UNCHANGED <<cacheVars, imagesVars>>

JobWork == EndWorldJob \/ LoadTypes \/ RefreshType \/ EndImagesJob

JobNext ==
    \/ \E kind \in JobKinds : Start(kind)
    \/ ImportWrites
    \/ JobWork
    \/ ImagesJobFails

AdminNext ==
    \/ JobNext
    \/ CacheNext /\ UNCHANGED <<jobsVars, imagesVars>>
    \/ OverrideNext /\ UNCHANGED <<jobsVars, cacheVars>>

AdminSpec == AdminInit /\ [][AdminNext]_adminVars

AdminTypeOK == JobsTypeOK /\ CacheTypeOK /\ ImagesTypeOK
=============================================================================
