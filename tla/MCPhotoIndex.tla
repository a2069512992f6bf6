---------------------------- MODULE MCPhotoIndex ----------------------------
(* Instances of PhotoIndex for TLC: two albums.                               *)
EXTENDS PhotoIndex, TLC

CONSTANTS a1, a2, x, y

TwoAlbums == {a1, a2}
TwoPhotos == {x, y}
\* Two albums with different photos.
TwoFull == {l \in [TwoAlbums -> TwoPhotos] : l[a1] # l[a2]}
Alike == Permutations(TwoAlbums) \cup Permutations(TwoPhotos)
=============================================================================
