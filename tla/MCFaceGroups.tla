----------------------------- MODULE MCFaceGroups -----------------------------
EXTENDS FaceGroups
CONSTANTS First, Second
Three == 1..3
TwoPhotos == <<First, First, Second>>
=============================================================================
