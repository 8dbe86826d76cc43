SPECIFICATION FairSpec

CONSTANTS
  Inputs <- EmptyWay
  Boxes <- MCBoxes
  KeyTables <- MCTables
  FreeTextKeys <- MCFreeKeys
  RelationRoles <- MCRoles
  Begins <- MCBegins
  MAX_NODE_ID = 10
  MAX_WAY_ID = 4
  MAX_REL_ID = 3
  MAX_REL_MEMBERS = 6
  MAX_REF_INDEX = 5
  ID_WIDTH = 16
  COORD_WIDTH = 8
  CELL_WIDTH = 2
  MAX_SUBFILES = 4
  NODE_IDS_PER_WAY_ID = 2
  WAY_IDS_PER_REL_ID = 2
  SUBFILE_WAY_IDS = 2
  MAX_TAG_POSITION = 10
  INT8_MAX = 6

PROPERTY RefListsEnd
