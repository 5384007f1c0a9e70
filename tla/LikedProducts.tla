---------------------------- MODULE LikedProducts ----------------------------
(***************************************************************************)
(* The likes of the user: three arrays of product ids in UserDefaults and  *)
(* the copy of them that the LikedProducts singleton keeps in memory.      *)
(* isLiked reloads the copy; isLikedPerform toggles an id in the copy as   *)
(* it stands and writes the whole array back.                              *)
(***************************************************************************)
EXTENDS SequencesExt

CONSTANTS
  Id,        \* the ids a product can have
  ZeroId     \* the id 0, which stands for "no product"

ASSUME ZeroIdAssumption == ZeroId \notin Id

Kind == {"house", "taxi", "party"}

\* What an array of likes can hold.
LikedId == Id \cup {ZeroId}

VARIABLES
  userDef,   \* UserDefaults: the stored array of each kind of product
  likedIDs   \* LikedProducts: the array of each kind held in memory

\* Mutant: a press that never removes.
removeOrAddOnlyAdds(ids, x) == Append(ids, x)

removeOrAdd(ids, x) ==
  IF Contains(ids, x) THEN RemoveFirst(ids, x) ELSE Append(ids, x)

getLikedProducts == likedIDs' = userDef

\* Toggle an id of the copy in memory and store the whole array.
isLikedPerform(k, x) ==
  /\ likedIDs' = [likedIDs EXCEPT ![k] = removeOrAdd(likedIDs[k], x)]
  /\ userDef' = [userDef EXCEPT ![k] = removeOrAdd(likedIDs[k], x)]

\* What the screen draws after a press: filled when the toggle added the id.
heartAfterPress(k, x) == ~Contains(likedIDs[k], x)

\* Mutant: the answer is read before the arrays are reloaded.
isLikedBeforeReload(k, x) == Contains(likedIDs[k], x)

\* The answer of isLiked, which reads the arrays it has just reloaded.
isLiked(k, x) == Contains(userDef[k], x)

LikedTypeOK ==
  /\ userDef \in [Kind -> Seq(LikedId)]
  /\ likedIDs \in [Kind -> Seq(LikedId)]

=============================================================================
