--------------------------- MODULE AircraftImages ---------------------------
(***************************************************************************)
(* The aircraft images: one document, a map from type to image, with a     *)
(* memo in memory that is the same object for everyone who reads it.  The  *)
(* refresh job copies the map when it starts, looks for one type's image   *)
(* after the other and writes its whole map after each image it finds and  *)
(* at its end.  Meanwhile an administrator sets and deletes images.        *)
(*                                                                         *)
(* Writing makes the written object the memo: from the job's first write   *)
(* on, a PUT, which changes the memo in place, changes the job's map too;  *)
(* before it, and after a DELETE, which writes a copy, the two are two     *)
(* maps and the job's next write wins.  The job looks whether a type has   *)
(* an image, waits for the fetch of one and writes what it found over      *)
(* whatever is there by then.                                              *)
(***************************************************************************)
EXTENDS Integers, Sequences

CONSTANTS Types,        \* aircraft types with an ICAO code
          TypeOrder,    \* the list of them the backend answers with
          MaxOverrides  \* bound: changes by an administrator

ASSUME ImagesAssumption ==
    /\ TypeOrder \in Seq(Types)
    /\ MaxOverrides \in Nat

VARIABLES
    images,    \* the memo, and the document: every write writes both
    jobImages, \* the job's map
    aliased,   \* the memo is the job's map
    position,  \* the type the job looks for, 0: no job has loaded the list
    fetching,  \* its image is being fetched
    refresh,   \* options.refresh
    overrides, \* changes by an administrator so far
    written,   \* history: the job has written, and nothing was deleted since
    lasting    \* history: types set then and not while they were fetched, or
               \* outside of a job

imagesVars == <<images, jobImages, aliased, position, fetching, refresh, overrides,
                written, lasting>>

\* What an image can be: none, the one found by a job, an administrator's.
ImageKinds == {"none", "found", "override"}

ImagesTypeOK ==
    /\ images \in [Types -> ImageKinds]
    /\ jobImages \in [Types -> ImageKinds]
    /\ aliased \in BOOLEAN /\ refresh \in BOOLEAN /\ fetching \in BOOLEAN
    /\ position \in 0..(Len(TypeOrder) + 1)
    /\ overrides \in Nat
    /\ written \in BOOLEAN
    /\ lasting \subseteq Types

ImagesInit ==
    /\ images = [t \in Types |-> "none"]
    /\ jobImages = images
    /\ aliased = FALSE
    /\ position = 0
    /\ fetching = FALSE
    /\ refresh = FALSE
    /\ overrides = 0
    /\ written = FALSE
    /\ lasting = {}

-----------------------------------------------------------------------------
(* refreshAircraftImages. *)

\* The list has been answered: { ...readAircraftImages() }.
CopyImages(option) ==
    /\ position = 0
    /\ jobImages' = images
    /\ aliased' = FALSE
    /\ position' = 1
    /\ refresh' = option
    /\ written' = FALSE
    /\ UNCHANGED <<images, fetching, overrides, lasting>>

AtType == position \in 1..Len(TypeOrder)
Type == TypeOrder[position]

NextType ==
    /\ position' = position + 1
    /\ fetching' = FALSE

\* refreshTypeImage: nothing to do.
SkipType ==
    /\ AtType
    /\ ~fetching
    /\ ~refresh
    /\ jobImages[Type] # "none"
    /\ NextType
    /\ UNCHANGED <<images, jobImages, aliased, refresh, overrides, written, lasting>>

\* fetchAircraftVisualImage and cacheAircraftImage are awaited.
FetchImage ==
    /\ AtType
    /\ ~fetching
    /\ refresh \/ jobImages[Type] = "none"
    /\ fetching' = TRUE
    /\ UNCHANGED <<images, jobImages, aliased, position, refresh, overrides, written, lasting>>

\* Nothing is found, or there is an error.
MissImage ==
    /\ fetching
    /\ NextType
    /\ UNCHANGED <<images, jobImages, aliased, refresh, overrides, written, lasting>>

\* Mutant: the job writes a copy of its map.
WriteCopy(map) == images' = map /\ aliased' = FALSE

\* writeAircraftImages(images), by the job.
WriteJobImages(map) == images' = map /\ aliased' = TRUE

\* What was found goes over what is there now; a job asked to refresh means to.
FindImage ==
    /\ fetching
    /\ jobImages' = [jobImages EXCEPT ![Type] = "found"]
    /\ WriteJobImages(jobImages')
    /\ NextType
    /\ written' = TRUE
    /\ lasting' = IF refresh THEN lasting \ {Type} ELSE lasting
    /\ UNCHANGED <<refresh, overrides>>

\* The loop is over: the map is written once more, found something or not.
FinishImages ==
    /\ position = Len(TypeOrder) + 1
    /\ WriteJobImages(jobImages)
    /\ position' = 0
    /\ written' = TRUE
    /\ UNCHANGED <<jobImages, fetching, refresh, overrides, lasting>>

-----------------------------------------------------------------------------
(* handleOverrideImage. *)

Override ==
    /\ overrides < MaxOverrides
    /\ overrides' = overrides + 1
    /\ UNCHANGED <<position, fetching, refresh>>

\* No job, or one whose map is the memo and that does not wait for t's image.
SafeToSet(t) == position = 0 \/ (written /\ ~(fetching /\ Type = t))

PutImage(t) ==
    /\ Override
    /\ images' = [images EXCEPT ![t] = "override"]
    /\ jobImages' = IF aliased THEN images' ELSE jobImages
    /\ lasting' = IF SafeToSet(t) THEN lasting \cup {t} ELSE lasting \ {t}
    /\ UNCHANGED <<aliased, written>>

DeleteImage(t) ==
    /\ Override
    /\ images' = [images EXCEPT ![t] = "none"]
    /\ aliased' = FALSE
    /\ written' = FALSE
    /\ lasting' = lasting \ {t}
    /\ UNCHANGED jobImages

OverrideNext == \E t \in Types : PutImage(t) \/ DeleteImage(t)

-----------------------------------------------------------------------------

\* An image an administrator sets while no job is in its loop, or after the
\* job's first write and not while the job waits for the image of that very
\* type, is there until somebody changes that type again or a job that was
\* asked to refresh finds another: no later write of the job's whole map takes
\* it away.  (Set at the other times it can be lost without a word.)
OverridesLast == \A t \in lasting : images[t] = "override"

\* What its proof needs: the job's map has these images too, after its first
\* write it is the memo, and the job waits for none of them.
JobKeepsOverrides ==
    /\ written => aliased
    /\ aliased => jobImages = images
    /\ position # 0 => \A t \in lasting : jobImages[t] = "override"
    /\ fetching => AtType
    /\ fetching /\ ~refresh => Type \notin lasting
=============================================================================
