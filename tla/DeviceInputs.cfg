\* What the pure functions make of each input.
SPECIFICATION Spec
CONSTANTS
  Cameras <- MCDistinct
  Wants <- MCWants
  Limits = {0, 2, 4, 9}
  Views <- MCViews
  Boxes <- MCBoxes
  Answers <- MCAnswers
  Texts <- MCTexts
  Rooms = {1, 2, 3, 5}
  Width = 1920
  Height = 1080
INVARIANTS DescriptorsAgree PointsRight TextsKept
