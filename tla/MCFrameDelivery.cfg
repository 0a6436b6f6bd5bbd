SPECIFICATION Spec
CONSTANTS
  None = None
  Never = Never
  Today = Today
  Horizon = 4
  CacheDepth = 2
  Setups <- MCSetups
  RawDeliveries <- MCRawDeliveries
  RectifiedDeliveries <- MCRectifiedDeliveries
  DisparityFrames <- MCDisparityFrames
  BevDeliveries <- MCBevDeliveries
  PanoramaImages <- MCPanoramaImages
  SensorFrames <- MCSensorFrames
  DepthMaps <- MCDepthMaps
  DepthPanoramas <- MCDepthPanoramas
INVARIANTS ColoursAreNearest ShownAsItIs
