SPECIFICATION CanvasSpec
CONSTANTS
  Width = 6
  Height = 4
  GridWidth = 4
  GridHeight = 3
  Texels <- MCTexels
  Settings <- MCSettings
  Drawings <- TriangleDrawings
INVARIANT TopLeftRule
