------------------------------ MODULE MCListings ------------------------------
(***************************************************************************)
(* The three listings for TLC: which of them runs is chosen in the initial *)
(* state, the variables of the other two stay as they are.                 *)
(***************************************************************************)
EXTENDS TokenListing, SequencesExt

CONSTANTS OffsetRefs, OffsetPageSize, OffsetMaxItems, OffsetMaxChanges,
          WalkRefs, WalkDirs, WalkDirOf, WalkAllowed, WalkTooLarge, WalkMaxItems,
          WalkMaxChanges, WalkMaxErrors

VARIABLES
  which,
  results, oKept, oMet, start, oOut, oAnswer, oChanges, removed,
  wCatalog, wKept, wMet, dirs, names, wOut, wAnswer, wChanges, unread

offsetVars == <<results, oKept, oMet, start, oOut, oAnswer, oChanges, removed>>
walkVars == <<wCatalog, wKept, wMet, dirs, names, wOut, wAnswer, wChanges, unread>>

O == INSTANCE OffsetListing WITH
  Refs <- OffsetRefs, PageSize <- OffsetPageSize, MaxItems <- OffsetMaxItems,
  MaxChanges <- OffsetMaxChanges, kept <- oKept, met <- oMet, out <- oOut,
  answer <- oAnswer, changes <- oChanges

W == INSTANCE WalkListing WITH
  Refs <- WalkRefs, Dirs <- WalkDirs, DirOf <- WalkDirOf, Allowed <- WalkAllowed,
  TooLarge <- WalkTooLarge, MaxItems <- WalkMaxItems,
  MaxChanges <- WalkMaxChanges, MaxErrors <- WalkMaxErrors,
  catalog <- wCatalog, kept <- wKept, met <- wMet, out <- wOut,
  answer <- wAnswer, changes <- wChanges

(* For TLC: odd files lie in directory "a", even ones in "b".              *)
TwoDirs == [r \in WalkRefs |-> IF r % 2 = 1 THEN "a" ELSE "b"]

ASSUME MCListingsAssumption == O!ConstantsOK /\ W!ConstantsOK

MCInit ==
  /\ which \in {"token", "offset", "walk"}
  /\ Init /\ O!Init /\ W!Init
  /\ which # "token" => catalog = {}
  /\ which # "offset" => results = <<>>
  /\ which # "walk" => wCatalog = {}

MCNext ==
  /\ \/ which = "token" /\ Next /\ UNCHANGED <<offsetVars, walkVars>>
     \/ which = "offset" /\ O!Next /\ UNCHANGED <<vars, walkVars>>
     \/ which = "walk" /\ W!Next /\ UNCHANGED <<vars, offsetVars>>
  /\ UNCHANGED which

MCVars == <<which, vars, offsetVars, walkVars>>

(* Each loop goes on as long as its requests are answered.                 *)
Loop ==
  /\ \/ which = "token" /\ Step /\ UNCHANGED <<offsetVars, walkVars>>
     \/ which = "offset" /\ O!Step /\ UNCHANGED <<vars, walkVars>>
     \/ which = "walk" /\ W!Step /\ UNCHANGED <<vars, offsetVars>>
  /\ UNCHANGED which

MCSpec == MCInit /\ [][MCNext]_MCVars /\ WF_MCVars(Loop)

-----------------------------------------------------------------------------
(* The type invariants of the three                                        *)
ListingTypes == TypeOK /\ O!TypeOK /\ W!TypeOK

(* A complete Confluence listing misses at most as many items as were      *)
(* removed under it, and none if only new ones came.                       *)
MissesFew == O!MissesFew

(* Whatever comes and goes in the tree, a complete file listing misses     *)
(* only files of directories that were not read.                           *)
MissesOnlyUnread == W!MissesOnlyUnread

(* The loop over the pages, or over the tree, ends, whatever is added      *)
(* meanwhile.                                                              *)
ListingsEnd ==
  <>(CASE which = "token"  -> answer # "pending"
       [] which = "offset" -> oAnswer # "pending"
       [] OTHER            -> wAnswer # "pending")
=============================================================================
