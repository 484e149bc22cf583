SPECIFICATION Spec
INVARIANTS RecipesMirrored UploadFaithful NothingLost ImageFaithful FeedComplete
INVARIANTS OnlineMirrored StatusSettles CallsAnswered EditsOrdered
CHECK_DEADLOCK FALSE
